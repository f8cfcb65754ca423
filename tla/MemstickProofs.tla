---------------------------- MODULE MemstickProofs ----------------------------
(***************************************************************************)
(* The safety of the MemoryStick core under either of its hosts, for any   *)
(* number of cards, retries, requests, media changes and sleeps, as long   *)
(* as a tasklet that is scheduled under the host's lock runs before the    *)
(* holder has given the lock up and the next event has come (~SlowTasklet).*)
(***************************************************************************)
EXTENDS MemstickHosts, TLAPS

CheckAts == {"idle", "stop", "alloc", "addr", "id", "none", "compare", "register", "probe"}
Place    == Cards \cup {None}

Checks == [at : CheckAts, queued : BOOLEAN, new : Place, old : Place]
Drvs   == [queue : {"off", "run", "stopped"}, has_request : BOOLEAN, active : BOOLEAN]
Hosts  == [req : Place, lock : {"free", "next", "issue"}, eject : BOOLEAN, tasklet : BOOLEAN,
           armed : BOOLEAN, expired : BOOLEAN, flags : SUBSET {"RDY", "FIFO", "MSINT", "CMD"}]
Lives  == [chip : {"tifm_ms", "jmb38x_ms"}, asleep : BOOLEAN,
           rm : {"no", "kill", "flush", "irq_off", "gone"}]
Mrqs   == [Cards -> [tpc : {"none", "rw_addr", "dev_id", "io"}, error : BOOLEAN]]
Nexts  == [Cards -> {"none", "rw_addr", "dev_id", "io", "bad"}]
Ends   == [Cards -> BOOLEAN]

\* Types of the state, the fields of the records included.
Types ==
  /\ check \in Checks /\ drv \in Drvs /\ host \in Hosts /\ life \in Lives
  /\ mrq \in Mrqs /\ next_request \in Nexts /\ mrq_complete \in Ends
  /\ alloc \in SUBSET Cards /\ card \in Place /\ regd \in Place
  /\ request \in {"submit", "dummy"} /\ retries \in 0 .. CmdRetries /\ tries \in Nat

\* host->card is the registered card but while a new one is identified, which is
\* another one.
CardIs ==
  /\ regd # None => regd \in alloc
  /\ check.at \notin {"addr", "id"} => card = regd
  /\ check.at \in {"addr", "id"} => card = check.new /\ check.old = regd
  /\ check.at \in {"addr", "id", "compare", "register"} => check.new \in alloc \ {regd}
  /\ check.at = "register" => regd = None
  /\ check.at \in {"compare", "probe"} => regd # None

\* A driver with a queue or a request has a registered card, and neither asks
\* nor waits once the check has stopped it.
DriverHas ==
  /\ drv.queue # "off" \/ drv.has_request => regd # None
  /\ drv.queue = "run" \/ drv.has_request => check.at \in {"idle", "stop"}
  /\ life.asleep => check.at = "idle"

\* Somebody waits for the answer of host->card.
Waits == \/ check.at \in {"addr", "id", "compare", "probe"} /\ ~mrq_complete[card]
         \/ drv.has_request

\* The host has been asked, or is at work.
Active == host.tasklet \/ host.req # None \/ host.lock # "free"

\* It is while somebody waits, for one request, that of host->card.
OneAsked ==
  Intact =>
    /\ Active => Waits
    /\ host.req # None => host.req = card
    /\ host.tasklet => host.req = None /\ host.lock = "free"
    /\ host.lock = "issue" => host.req # None

\* tifm_ms_remove() leaves no request behind.
TifmEnds ==
  IsTifm => /\ life.rm # "no" => request = "dummy"
            /\ life.rm \in {"flush", "gone"} =>
                 host.eject /\ ~host.tasklet /\ (host.lock = "free" => host.req = None)

Due == IF host.lock = "issue" THEN 1 ELSE 0

\* Tries made, tries left and the one to come are what a request began with.
Counted ==
  Intact => /\ tries <= 1 + FreshRetries
            /\ host.req # None => tries + retries + Due <= 1 + FreshRetries

IInv == Types /\ CardIs /\ DriverHas /\ OneAsked /\ TifmEnds /\ Counted

\* The actions of the two hosts, and the rest.
Tifm == \/ TifmIssueFails \/ TifmIssue \/ TifmCardEvent \/ TifmDataEvent \/ TifmSilence
        \/ TifmAbort \/ TifmTasklet \/ TifmRemove \/ TifmDrain \/ TifmGone
Jmb == \/ JmbIssueFails \/ JmbIssue \/ JmbRaise \/ JmbMediaChange \/ JmbIsr \/ JmbExpire
       \/ JmbAbort \/ JmbTasklet \/ JmbRemove \/ JmbRemoved \/ JmbGone
Rest == IoSubmit \/ Suspend \/ Resume

-----------------------------------------------------------------------------
(* The invariant holds at the start and is kept.                           *)

USE MemstickAssumption

\* After memstick_add_host() nothing is allocated, asked or waited for.
LEMMA InitInv == Init => IInv
<1> SUFFICES ASSUME Init PROVE IInv
  OBVIOUS
<1>1. check \in Checks /\ drv \in Drvs
  BY DEF Init, Checks, Drvs, CheckAts, Place
<1>2. host \in Hosts
  BY DEF Init, Hosts, Place
<1>3. life \in Lives /\ life.rm = "no"
  BY DEF Init, Lives
<1>4. mrq \in Mrqs /\ next_request \in Nexts /\ mrq_complete \in Ends
  BY DEF Init, Mrqs, Nexts, Ends
<1>5. Types
  BY <1>1, <1>2, <1>3, <1>4 DEF Init, Types, Place
<1>6. CardIs /\ DriverHas
  BY <1>3 DEF Init, CardIs, DriverHas
<1>7. OneAsked
  BY DEF Init, OneAsked, Active
<1>8. TifmEnds /\ Counted
  BY <1>3 DEF Init, TifmEnds, Counted, FreshRetries
<1> QED BY <1>5, <1>6, <1>7, <1>8 DEF IInv

\* memstick_next_req(): a retry uses one up, a new request begins with all of them, and
\* the one that has ended leaves neither a request nor one who waits for it.
LEMMA NextReqInv == IInv /\ ~SlowTasklet /\ NextReq => IInv'
<1> SUFFICES ASSUME IInv, ~SlowTasklet, NextReq PROVE IInv'
  OBVIOUS
<1> USE DEF IInv
<1>1. CASE RetryReq
  <2>1. Types'
    <3>1. host' \in Hosts
      BY <1>1 DEF RetryReq, Exists, Types, Hosts
    <3> QED BY <1>1, <3>1 DEF RetryReq, Exists, Types
  <2>2. CardIs' /\ DriverHas'
    BY <1>1 DEF RetryReq, Exists, CardIs, DriverHas
  <2>3. OneAsked'
    BY <1>1 DEF RetryReq, Exists, OneAsked, Active, Waits, Intact, IsTifm
  <2>4. TifmEnds' /\ Counted'
    BY <1>1 DEF RetryReq, Exists, TifmEnds, Counted, Active, Waits, Intact, IsTifm, Due,
                FreshRetries, Types
  <2> QED BY <2>1, <2>2, <2>3, <2>4 DEF IInv
<1>2. CASE StartReq
  <2>1. Types'
    <3>1. host' \in Hosts
      BY <1>2 DEF StartReq, Asks, Exists, HasHandler, Types, Hosts
    <3>2. mrq' \in Mrqs
      BY <1>2 DEF StartReq, Asks, Exists, HasHandler, Types, Mrqs
    <3> QED BY <1>2, <3>1, <3>2 DEF StartReq, Asks, Exists, HasHandler, Types, FreshRetries
  <2>2. CardIs' /\ DriverHas'
    BY <1>2 DEF StartReq, Asks, Exists, HasHandler, CardIs, DriverHas
  <2>3. OneAsked'
    BY <1>2 DEF StartReq, Asks, Exists, HasHandler, OneAsked, Active, Waits, Intact, IsTifm
  <2>4. TifmEnds' /\ Counted'
    BY <1>2 DEF StartReq, Asks, Exists, HasHandler, TifmEnds, Counted, Active, Waits,
                IsTifm, Due, FreshRetries
  <2> QED BY <2>1, <2>2, <2>3, <2>4 DEF IInv
<1>3. CASE EndReq
  <2>1. Types'
    <3>1. host' \in Hosts
      BY <1>3 DEF EndReq, Asks, Exists, HasHandler, Types, Hosts, Place
    <3>2. mrq_complete' \in Ends
      BY <1>3 DEF EndReq, Asks, Exists, HasHandler, Types, Ends
    <3>3. next_request' \in Nexts
      BY <1>3 DEF EndReq, Asks, Exists, HasHandler, Types, Nexts
    <3>4. drv' \in Drvs
      BY <1>3 DEF EndReq, Asks, Exists, HasHandler, Types, Drvs
    <3> QED BY <1>3, <3>1, <3>2, <3>3, <3>4 DEF EndReq, Asks, Exists, HasHandler, Types
  <2>2. CardIs' /\ DriverHas'
    BY <1>3 DEF EndReq, Asks, Exists, HasHandler, CardIs, DriverHas, Types, Drvs
  <2>3. OneAsked'
    BY <1>3 DEF EndReq, Asks, Exists, HasHandler, OneAsked, Active, Waits, Intact, IsTifm
  <2>4. TifmEnds' /\ Counted'
    BY <1>3 DEF EndReq, Asks, Exists, HasHandler, TifmEnds, Counted, Active, Waits, IsTifm,
                Due, FreshRetries
  <2> QED BY <2>1, <2>2, <2>3, <2>4 DEF IInv
<1>4. CASE ChainReq
  <2>1. Types'
    <3>1. host' \in Hosts
      BY <1>4 DEF ChainReq, Asks, Exists, HasHandler, Types, Hosts
    <3>2. mrq' \in Mrqs
      BY <1>4 DEF ChainReq, Asks, Exists, HasHandler, Types, Mrqs
    <3>3. mrq_complete' \in Ends
      BY <1>4 DEF ChainReq, Asks, Exists, HasHandler, Types, Ends
    <3> QED BY <1>4, <3>1, <3>2, <3>3 DEF ChainReq, Asks, Exists, HasHandler, Types,
                                          FreshRetries
  <2>2. CardIs' /\ DriverHas'
    BY <1>4 DEF ChainReq, Asks, Exists, HasHandler, CardIs, DriverHas
  <2>3. OneAsked'
    BY <1>4 DEF ChainReq, Asks, Exists, HasHandler, OneAsked, Active, Waits, Intact, IsTifm,
                Types, Hosts
  <2>4. TifmEnds' /\ Counted'
    BY <1>4 DEF ChainReq, Asks, Exists, HasHandler, TifmEnds, Counted, Active, Waits,
                IsTifm, Due, FreshRetries, Types, Hosts
  <2> QED BY <2>1, <2>2, <2>3, <2>4 DEF IInv
<1>5. CASE NoReq
  <2>1. Types'
    <3>1. host' \in Hosts
      BY <1>5 DEF NoReq, core, Asks, Exists, HasHandler, Types, Hosts, Place
    <3> QED BY <1>5, <3>1 DEF NoReq, core, Asks, Exists, HasHandler, Types
  <2>2. CardIs' /\ DriverHas'
    BY <1>5 DEF NoReq, core, Asks, Exists, HasHandler, CardIs, DriverHas
  <2>3. OneAsked'
    BY <1>5 DEF NoReq, core, Asks, Exists, HasHandler, OneAsked, Active, Waits, Intact,
                IsTifm
  <2>4. TifmEnds' /\ Counted'
    BY <1>5 DEF NoReq, core, Asks, Exists, HasHandler, TifmEnds, Counted, Active, Waits,
                Intact, IsTifm, Due, FreshRetries
  <2> QED BY <2>1, <2>2, <2>3, <2>4 DEF IInv
<1> QED BY <1>1, <1>2, <1>3, <1>4, <1>5 DEF NextReq

\* memstick_check(): a card is freed or exchanged only by the one who has just been
\* answered, when the host has nothing of it any more.
LEMMA CheckInv == IInv /\ ~SlowTasklet /\ Check => IInv'
<1> SUFFICES ASSUME IInv, ~SlowTasklet, Check PROVE IInv'
  OBVIOUS
<1> USE DEF IInv
<1>1. CASE CheckStart
  <2>1. Types'
    <3>1. check' \in Checks
      BY <1>1 DEF CheckStart, core, Awake, Exists, Types, Checks, CheckAts
    <3> QED BY <1>1, <3>1 DEF CheckStart, core, Awake, Exists, Types
  <2>2. CardIs' /\ DriverHas'
    BY <1>1 DEF CheckStart, core, Awake, Exists, CardIs, DriverHas
  <2>3. OneAsked'
    BY <1>1 DEF CheckStart, core, Awake, Exists, OneAsked, Active, Waits, Intact, IsTifm
  <2>4. TifmEnds' /\ Counted'
    BY <1>1 DEF CheckStart, core, Awake, Exists, TifmEnds, Counted, Active, Waits, Intact,
                IsTifm, Due, FreshRetries
  <2> QED BY <2>1, <2>2, <2>3, <2>4 DEF IInv
<1>2. CASE CheckStop
  <2>1. Types'
    <3>1. check' \in Checks
      BY <1>2 DEF CheckStop, core, Awake, Exists, Types, Checks, CheckAts
    <3>2. drv' \in Drvs
      BY <1>2 DEF CheckStop, core, Awake, Exists, Types, Drvs
    <3> QED BY <1>2, <3>1, <3>2 DEF CheckStop, core, Awake, Exists, Types
  <2>2. CardIs' /\ DriverHas'
    BY <1>2 DEF CheckStop, core, Awake, Exists, CardIs, DriverHas
  <2>3. OneAsked'
    BY <1>2 DEF CheckStop, core, Awake, Exists, OneAsked, Active, Waits, Intact, IsTifm
  <2>4. TifmEnds' /\ Counted'
    BY <1>2 DEF CheckStop, core, Awake, Exists, TifmEnds, Counted, Active, Waits, Intact,
                IsTifm, Due, FreshRetries
  <2> QED BY <2>1, <2>2, <2>3, <2>4 DEF IInv
<1>3. CASE AllocCard
  <2>1. Types'
    <3>1. check' \in Checks
      BY <1>3 DEF AllocCard, Awake, Exists, NewReq, Types, Checks, CheckAts, Place
    <3>2. host' \in Hosts
      BY <1>3 DEF AllocCard, Awake, Exists, NewReq, Types, Hosts
    <3>3. next_request' \in Nexts
      BY <1>3 DEF AllocCard, Awake, Exists, NewReq, Types, Nexts
    <3>4. mrq_complete' \in Ends
      BY <1>3 DEF AllocCard, Awake, Exists, NewReq, Types, Ends
    <3> QED BY <1>3, <3>1, <3>2, <3>3, <3>4 DEF AllocCard, Awake, Exists, NewReq, Types,
                                                Place
  <2>2. CardIs' /\ DriverHas'
    BY <1>3 DEF AllocCard, Awake, Exists, NewReq, CardIs, DriverHas
  <2>3. OneAsked'
    BY <1>3 DEF AllocCard, Awake, Exists, NewReq, DriverHas, OneAsked, Active, Waits,
                Intact, IsTifm, Types, Ends
  <2>4. TifmEnds' /\ Counted'
    BY <1>3 DEF AllocCard, Awake, Exists, NewReq, DriverHas, OneAsked, TifmEnds, Counted,
                Active, Waits, Intact, IsTifm, Due, FreshRetries, Types, Hosts
  <2> QED BY <2>1, <2>2, <2>3, <2>4 DEF IInv
<1>4. CASE NoMemory
  <2>1. Types'
    <3>1. check' \in Checks
      BY <1>4 DEF NoMemory, core, Awake, Exists, Types, Checks, CheckAts
    <3> QED BY <1>4, <3>1 DEF NoMemory, core, Awake, Exists, Types
  <2>2. CardIs' /\ DriverHas'
    BY <1>4 DEF NoMemory, core, Awake, Exists, CardIs, DriverHas
  <2>3. OneAsked'
    BY <1>4 DEF NoMemory, core, Awake, Exists, OneAsked, Active, Waits, Intact, IsTifm
  <2>4. TifmEnds' /\ Counted'
    BY <1>4 DEF NoMemory, core, Awake, Exists, TifmEnds, Counted, Active, Waits, Intact,
                IsTifm, Due, FreshRetries
  <2> QED BY <2>1, <2>2, <2>3, <2>4 DEF IInv
<1>5. CASE DropNew
  <2>1. Types'
    <3>1. check' \in Checks
      BY <1>5 DEF DropNew, Awake, Exists, Answered, Types, Checks, CheckAts, Place
    <3> QED BY <1>5, <3>1 DEF DropNew, Awake, Exists, Answered, Types, Checks
  <2>2. CardIs' /\ DriverHas'
    BY <1>5 DEF DropNew, Awake, Exists, Answered, CardIs, DriverHas
  <2>3. OneAsked'
    BY <1>5 DEF DropNew, Awake, Exists, Answered, DriverHas, OneAsked, Active, Waits,
                Intact, IsTifm
  <2>4. TifmEnds' /\ Counted'
    BY <1>5 DEF DropNew, Awake, Exists, Answered, TifmEnds, Counted, Active, Waits, Intact,
                IsTifm, Due, FreshRetries
  <2> QED BY <2>1, <2>2, <2>3, <2>4 DEF IInv
<1>6. CASE AddrSet
  <2>1. Types'
    <3>1. check' \in Checks
      BY <1>6 DEF AddrSet, Awake, Exists, Answered, NewReq, Types, Checks, CheckAts
    <3>2. host' \in Hosts
      BY <1>6 DEF AddrSet, Awake, Exists, Answered, NewReq, Types, Hosts
    <3>3. next_request' \in Nexts
      BY <1>6 DEF AddrSet, Awake, Exists, Answered, NewReq, Types, Nexts
    <3>4. mrq_complete' \in Ends
      BY <1>6 DEF AddrSet, Awake, Exists, Answered, NewReq, Types, Ends
    <3> QED BY <1>6, <3>1, <3>2, <3>3, <3>4 DEF AddrSet, Awake, Exists, Answered, NewReq,
                                                Types
  <2>2. CardIs' /\ DriverHas'
    BY <1>6 DEF AddrSet, Awake, Exists, Answered, NewReq, CardIs, DriverHas
  <2>3. OneAsked'
    BY <1>6 DEF AddrSet, Awake, Exists, Answered, NewReq, CardIs, DriverHas, OneAsked,
                Active, Waits, Intact, IsTifm, Types, Ends
  <2>4. TifmEnds' /\ Counted'
    BY <1>6 DEF AddrSet, Awake, Exists, Answered, NewReq, DriverHas, OneAsked, TifmEnds,
                Counted, Active, Waits, Intact, IsTifm, Due, FreshRetries, Types, Hosts
  <2> QED BY <2>1, <2>2, <2>3, <2>4 DEF IInv
<1>7. CASE IdRead
  <2>1. Types'
    <3>1. check' \in Checks
      <4>1. CASE check.old = None
        BY <1>7, <4>1 DEF IdRead, Awake, Exists, Answered, NewReq, Types, Checks, CheckAts
      <4>2. CASE check.old # None
        BY <1>7, <4>2 DEF IdRead, Awake, Exists, Answered, NewReq, Types, Checks, CheckAts
      <4> QED BY <4>1, <4>2
    <3>2. host' \in Hosts
      <4>1. CASE check.old = None
        BY <1>7, <4>1 DEF IdRead, Awake, Exists, Answered, NewReq, Types
      <4>2. CASE check.old # None
        BY <1>7, <4>2 DEF IdRead, Awake, Exists, Answered, NewReq, Types, Hosts
      <4> QED BY <4>1, <4>2
    <3>3. next_request' \in Nexts
      <4>1. CASE check.old = None
        BY <1>7, <4>1 DEF IdRead, Awake, Exists, Answered, NewReq, Types
      <4>2. CASE check.old # None
        BY <1>7, <4>2 DEF IdRead, Awake, Exists, Answered, NewReq, Types, Nexts
      <4> QED BY <4>1, <4>2
    <3>4. mrq_complete' \in Ends
      <4>1. CASE check.old = None
        BY <1>7, <4>1 DEF IdRead, Awake, Exists, Answered, NewReq, Types
      <4>2. CASE check.old # None
        BY <1>7, <4>2 DEF IdRead, Awake, Exists, Answered, NewReq, Types, Ends
      <4> QED BY <4>1, <4>2
    <3> QED BY <1>7, <3>1, <3>2, <3>3, <3>4 DEF IdRead, Awake, Exists, Answered, NewReq,
                                                Types, Checks
  <2>2. CardIs' /\ DriverHas'
    BY <1>7 DEF IdRead, Awake, Exists, Answered, NewReq, CardIs, DriverHas, Types, Checks
  <2>3. OneAsked'
    BY <1>7 DEF IdRead, Awake, Exists, Answered, NewReq, CardIs, DriverHas, OneAsked,
                Active, Waits, Intact, IsTifm, Types, Checks, Hosts, Ends
  <2>4. TifmEnds' /\ Counted'
    BY <1>7 DEF IdRead, Awake, Exists, Answered, NewReq, DriverHas, OneAsked, TifmEnds,
                Counted, Active, Waits, Intact, IsTifm, Due, FreshRetries, Types, Hosts
  <2> QED BY <2>1, <2>2, <2>3, <2>4 DEF IInv
<1>8. CASE SameCard
  <2>1. Types'
    <3>1. check' \in Checks
      BY <1>8 DEF SameCard, Awake, Exists, Answered, Idle, Types, Checks, CheckAts, Place
    <3>2. drv' \in Drvs
      BY <1>8 DEF SameCard, Awake, Exists, Answered, Idle, Types, Drvs
    <3> QED BY <1>8, <3>1, <3>2 DEF SameCard, Awake, Exists, Answered, Idle, Types
  <2>2. CardIs' /\ DriverHas'
    BY <1>8 DEF SameCard, Awake, Exists, Answered, Idle, CardIs, DriverHas
  <2>3. OneAsked'
    BY <1>8 DEF SameCard, Awake, Exists, Answered, Idle, OneAsked, Active, Waits, Intact,
                IsTifm
  <2>4. TifmEnds' /\ Counted'
    BY <1>8 DEF SameCard, Awake, Exists, Answered, Idle, TifmEnds, Counted, Active, Waits,
                Intact, IsTifm, Due, FreshRetries
  <2> QED BY <2>1, <2>2, <2>3, <2>4 DEF IInv
<1>9. CASE OtherCard
  <2>1. Types'
    <3>1. check' \in Checks
      BY <1>9 DEF OtherCard, Awake, Exists, Answered, Unregister, Types, Checks, CheckAts
    <3>2. drv' \in Drvs
      BY <1>9 DEF OtherCard, Awake, Exists, Answered, Unregister, Drvs
    <3> QED BY <1>9, <3>1, <3>2 DEF OtherCard, Awake, Exists, Answered, Unregister, Types,
                                    Place
  <2>2. CardIs' /\ DriverHas'
    BY <1>9 DEF OtherCard, Awake, Exists, Answered, Unregister, CardIs, DriverHas, Types
  <2>3. OneAsked'
    BY <1>9 DEF OtherCard, Awake, Exists, Answered, Unregister, DriverHas, OneAsked, Active,
                Waits, Intact, IsTifm
  <2>4. TifmEnds' /\ Counted'
    BY <1>9 DEF OtherCard, Awake, Exists, Answered, Unregister, TifmEnds, Counted, Active,
                Waits, Intact, IsTifm, Due, FreshRetries
  <2> QED BY <2>1, <2>2, <2>3, <2>4 DEF IInv
<1>10. CASE RegisterFails
  <2>1. Types'
    <3>1. check' \in Checks
      BY <1>10 DEF RegisterFails, Awake, Exists, Idle, Types, Checks, CheckAts, Place
    <3> QED BY <1>10, <3>1 DEF RegisterFails, Awake, Exists, Idle, Types
  <2>2. CardIs' /\ DriverHas'
    BY <1>10 DEF RegisterFails, Awake, Exists, Idle, CardIs, DriverHas
  <2>3. OneAsked'
    BY <1>10 DEF RegisterFails, Awake, Exists, Idle, OneAsked, Active, Waits, Intact, IsTifm
  <2>4. TifmEnds' /\ Counted'
    BY <1>10 DEF RegisterFails, Awake, Exists, Idle, TifmEnds, Counted, Active, Waits,
                 Intact, IsTifm, Due, FreshRetries
  <2> QED BY <2>1, <2>2, <2>3, <2>4 DEF IInv
<1>11. CASE Register
  <2>1. Types'
    <3>1. check' \in Checks /\ check'.at \in {"idle", "probe"}
      BY <1>11 DEF Register, Idle, Types, Checks, CheckAts, Place
    <3>2. host' \in Hosts /\ next_request' \in Nexts /\ mrq_complete' \in Ends
      BY <1>11 DEF Register, NewReq, Types, Hosts, Nexts, Ends
    <3> QED BY <1>11, <3>1, <3>2 DEF Register, NewReq, core, Types, Checks
  <2>2. CardIs' /\ DriverHas'
    <3>1. check'.at \in {"idle", "probe"} /\ regd' = check.new /\ card' = check.new
      BY <1>11 DEF Register, Idle, Types, Checks
    <3>2. check.new \in alloc /\ check.new # None
      BY <1>11 DEF Register, CardIs, Types
    <3> QED BY <1>11, <3>1, <3>2 DEF Register, Awake, CardIs, DriverHas
  <2>3. OneAsked'
    BY <1>11 DEF Register, Awake, Exists, NewReq, Idle, CardIs, DriverHas, OneAsked, Active,
                 Waits, Intact, IsTifm, Types, Checks, Hosts, Ends
  <2>4. TifmEnds' /\ Counted'
    BY <1>11 DEF Register, Awake, Exists, NewReq, Idle, DriverHas, OneAsked, Active, Waits,
                 Intact, IsTifm, TifmEnds, Counted, Due, FreshRetries, Types, Hosts
  <2> QED BY <2>1, <2>2, <2>3, <2>4
<1>12. CASE Probed
  <2>1. Types'
    <3>1. check' \in Checks
      BY <1>12 DEF Probed, core, Awake, Exists, Answered, Idle, Types, Checks, CheckAts,
                   Place
    <3>2. drv' \in Drvs
      BY <1>12 DEF Probed, core, Awake, Exists, Answered, Idle, Types, Drvs
    <3> QED BY <1>12, <3>1, <3>2 DEF Probed, core, Awake, Exists, Answered, Idle, Types
  <2>2. CardIs' /\ DriverHas'
    BY <1>12 DEF Probed, core, Awake, Exists, Answered, Idle, CardIs, DriverHas
  <2>3. OneAsked'
    BY <1>12 DEF Probed, core, Awake, Exists, Answered, Idle, DriverHas, OneAsked, Active,
                 Waits, Intact, IsTifm
  <2>4. TifmEnds' /\ Counted'
    BY <1>12 DEF Probed, core, Awake, Exists, Answered, Idle, TifmEnds, Counted, Active,
                 Waits, Intact, IsTifm, Due, FreshRetries
  <2> QED BY <2>1, <2>2, <2>3, <2>4 DEF IInv
<1>13. CASE CardGone
  <2>1. CASE card = None
    <3>1. check' \in Checks /\ check'.at = "idle" /\ UNCHANGED <<alloc, regd, card, drv>>
      BY <1>13, <2>1 DEF CardGone, Idle, Types, Checks, CheckAts
    <3>2. Types'
      BY <1>13, <3>1 DEF CardGone, Types
    <3>3. CardIs' /\ DriverHas'
      BY <1>13, <2>1, <3>1 DEF CardGone, CardIs, DriverHas
    <3>4. OneAsked'
      BY <1>13, <3>1 DEF CardGone, OneAsked, Active, Waits, Intact, IsTifm
    <3>5. TifmEnds' /\ Counted'
      BY <1>13, <3>1 DEF CardGone, Active, Waits, Intact, IsTifm, TifmEnds, Counted, Due,
                         FreshRetries
    <3> QED BY <3>2, <3>3, <3>4, <3>5
  <2>2. CASE card # None
    <3>1. Unregister
      BY <1>13, <2>2 DEF CardGone
    <3>2. Types'
      <4>1. drv' \in Drvs
        BY <3>1 DEF Unregister, Drvs
      <4>2. check' \in Checks
        BY <1>13 DEF CardGone, Idle, Types, Checks, CheckAts, Place
      <4> QED BY <1>13, <3>1, <4>1, <4>2 DEF CardGone, Unregister, Types, Place
    <3>3. ~drv'.has_request /\ drv'.queue = "off"
      BY <3>1 DEF Unregister
    <3>4. CardIs' /\ DriverHas'
      BY <1>13, <3>1, <3>3 DEF CardGone, Idle, Unregister, Awake, CardIs, DriverHas
    <3>5. OneAsked'
      BY <1>13, <3>1, <3>3 DEF CardGone, Idle, Unregister, DriverHas, OneAsked, Active,
                               Waits, Intact, IsTifm
    <3>6. TifmEnds' /\ Counted'
      BY <1>13, <3>1 DEF CardGone, Unregister, Active, Waits, Intact, IsTifm, TifmEnds,
                         Counted, Due, FreshRetries
    <3> QED BY <3>2, <3>4, <3>5, <3>6
  <2> QED BY <2>1, <2>2
<1> QED BY <1>1, <1>2, <1>3, <1>4, <1>5, <1>6, <1>7, <1>8, <1>9, <1>10, <1>11, <1>12, <1>13
DEF Check

\* tifm_ms.c: an event that ends a request leads to memstick_next_req() under the same
\* lock, and tifm_ms_remove() waits for the tasklet and ends what is left.
LEMMA TifmInv == IInv /\ ~SlowTasklet /\ Tifm => IInv'
<1> SUFFICES ASSUME IInv, ~SlowTasklet, Tifm PROVE IInv'
  OBVIOUS
<1> USE DEF IInv
<1>1. CASE TifmIssueFails
  <2>1. Types'
    <3>1. mrq' \in Mrqs
      BY <1>1 DEF TifmIssueFails, Types, Mrqs
    <3>2. host' \in Hosts
      BY <1>1 DEF TifmIssueFails, Types, Hosts
    <3> QED BY <1>1, <3>1, <3>2 DEF TifmIssueFails, Types, Place
  <2>2. CardIs' /\ DriverHas'
    BY <1>1 DEF TifmIssueFails, CardIs, DriverHas
  <2>3. OneAsked'
    BY <1>1 DEF TifmIssueFails, OneAsked, Active, Waits, Intact
  <2>4. TifmEnds' /\ Counted'
    BY <1>1 DEF TifmIssueFails, OneAsked, TifmEnds, Counted, Active, Waits, Intact, Due,
                FreshRetries, Types
  <2> QED BY <2>1, <2>2, <2>3, <2>4 DEF IInv
<1>2. CASE TifmIssue
  <2>1. Types'
    <3>1. mrq' \in Mrqs
      BY <1>2 DEF TifmIssue, Types, Mrqs
    <3>2. host' \in Hosts
      BY <1>2 DEF TifmIssue, Types, Hosts
    <3> QED BY <1>2, <3>1, <3>2 DEF TifmIssue, Types, Place
  <2>2. CardIs' /\ DriverHas'
    BY <1>2 DEF TifmIssue, CardIs, DriverHas
  <2>3. OneAsked'
    BY <1>2 DEF TifmIssue, OneAsked, Active, Waits, Intact
  <2>4. TifmEnds' /\ Counted'
    BY <1>2 DEF TifmIssue, OneAsked, TifmEnds, Counted, Active, Waits, Intact, Due,
                FreshRetries, Types
  <2> QED BY <2>1, <2>2, <2>3, <2>4 DEF IInv
<1>3. CASE TifmCardEvent
  <2>1. PICK came \in SUBSET {"RDY", "MSINT"}, error \in BOOLEAN :
          /\ mrq' = [mrq EXCEPT ![host.req].error = @ \/ error]
          /\ Finish(host.flags \cup came, error)
    BY <1>3 DEF TifmCardEvent
  <2> DEFINE flags == host.flags \cup came
             over  == error \/ Events(host.req) \subseteq flags
  <2>2. /\ flags \in SUBSET {"RDY", "FIFO", "MSINT", "CMD"} /\ over \in BOOLEAN
        /\ host' = [host EXCEPT !.flags = IF over THEN {} ELSE flags, !.armed = @ /\ ~over,
                                !.lock = IF over THEN "next" ELSE @]
    BY <2>1 DEF Finish, Types, Hosts
  <2> HIDE DEF flags, over
  <2>3. host' \in Hosts /\ host'.lock \in {"next", host.lock} /\ host'.req = host.req
        /\ host'.tasklet = host.tasklet /\ host'.eject = host.eject
    BY <2>2 DEF Types, Hosts
  <2>4. mrq' \in Mrqs
    BY <1>3, <2>1 DEF TifmCardEvent, Types, Mrqs, Hosts, Place
  <2>5. Types'
    BY <1>3, <2>3, <2>4 DEF TifmCardEvent, Types
  <2>6. CardIs' /\ DriverHas'
    BY <1>3 DEF TifmCardEvent, CardIs, DriverHas
  <2>7. OneAsked'
    BY <1>3, <2>3 DEF TifmCardEvent, TifmReady, LockFree, OneAsked, Active, Waits, Intact
  <2>8. TifmEnds' /\ Counted'
    BY <1>3, <2>3 DEF TifmCardEvent, TifmReady, Awake, Exists, LockFree, Active, Waits,
                      Intact, TifmEnds, Counted, Due, FreshRetries
  <2> QED BY <2>5, <2>6, <2>7, <2>8
<1>4. CASE TifmDataEvent
  <2>1. Types'
    <3>1. host' \in Hosts
      BY <1>4 DEF TifmDataEvent, core, Awake, Exists, TifmReady, LockFree, Finish, Types,
                  Hosts
    <3> QED BY <1>4, <3>1 DEF TifmDataEvent, core, Awake, Exists, TifmReady, LockFree,
                              Finish, Types
  <2>2. CardIs' /\ DriverHas'
    BY <1>4 DEF TifmDataEvent, core, Awake, Exists, TifmReady, LockFree, Finish, CardIs,
                DriverHas
  <2>3. OneAsked'
    BY <1>4 DEF TifmDataEvent, core, Awake, Exists, TifmReady, LockFree, Finish, OneAsked,
                Active, Waits, Intact
  <2>4. TifmEnds' /\ Counted'
    BY <1>4 DEF TifmDataEvent, core, Awake, Exists, TifmReady, LockFree, Finish, TifmEnds,
                Counted, Active, Waits, Intact, Due, FreshRetries
  <2> QED BY <2>1, <2>2, <2>3, <2>4 DEF IInv
<1>5. CASE TifmSilence
  <2>1. Types'
    BY <1>5 DEF TifmSilence, core, Types
  <2>2. CardIs' /\ DriverHas'
    BY <1>5 DEF TifmSilence, core, CardIs, DriverHas
  <2>3. OneAsked'
    BY <1>5 DEF TifmSilence, core, OneAsked, Active, Waits, Intact
  <2>4. TifmEnds' /\ Counted'
    BY <1>5 DEF TifmSilence, core, TifmEnds, Counted, Active, Waits, Intact, Due,
                FreshRetries
  <2> QED BY <2>1, <2>2, <2>3, <2>4 DEF IInv
<1>6. CASE TifmAbort
  <2>1. Types'
    <3>1. host' \in Hosts
      BY <1>6 DEF TifmAbort, core, Awake, Exists, TifmReady, LockFree, Types, Hosts
    <3> QED BY <1>6, <3>1 DEF TifmAbort, core, Awake, Exists, TifmReady, LockFree, Types
  <2>2. CardIs' /\ DriverHas'
    BY <1>6 DEF TifmAbort, core, Awake, Exists, TifmReady, LockFree, CardIs, DriverHas
  <2>3. OneAsked'
    BY <1>6 DEF TifmAbort, core, Awake, Exists, TifmReady, LockFree, OneAsked, Active,
                Waits, Intact
  <2>4. TifmEnds' /\ Counted'
    BY <1>6 DEF TifmAbort, core, Awake, Exists, TifmReady, LockFree, TifmEnds, Counted,
                Active, Waits, Intact, Due, FreshRetries
  <2> QED BY <2>1, <2>2, <2>3, <2>4 DEF IInv
<1>7. CASE TifmTasklet
  <2>1. Types'
    <3>1. host' \in Hosts
      BY <1>7 DEF TifmTasklet, core, Awake, Exists, LockFree, Types, Hosts
    <3> QED BY <1>7, <3>1 DEF TifmTasklet, core, Awake, Exists, LockFree, Types
  <2>2. CardIs' /\ DriverHas'
    BY <1>7 DEF TifmTasklet, core, Awake, Exists, LockFree, CardIs, DriverHas
  <2>3. OneAsked'
    BY <1>7 DEF TifmTasklet, core, Awake, Exists, LockFree, OneAsked, Active, Waits, Intact
  <2>4. TifmEnds' /\ Counted'
    BY <1>7 DEF TifmTasklet, core, Awake, Exists, LockFree, TifmEnds, Counted, Active,
                Waits, Intact, Due, FreshRetries
  <2> QED BY <2>1, <2>2, <2>3, <2>4 DEF IInv
<1>8. CASE TifmRemove
  <2>1. Types'
    <3>1. life' \in Lives
      BY <1>8 DEF TifmRemove, core, Awake, Exists, Types, Lives
    <3> QED BY <1>8, <3>1 DEF TifmRemove, core, Awake, Exists, Types
  <2>2. CardIs' /\ DriverHas'
    BY <1>8 DEF TifmRemove, core, Awake, Exists, CardIs, DriverHas
  <2>3. OneAsked'
    BY <1>8 DEF TifmRemove, core, Awake, Exists, OneAsked, Active, Waits, Intact
  <2>4. TifmEnds' /\ Counted'
    BY <1>8 DEF TifmRemove, core, Awake, Exists, TifmEnds, Counted, Active, Waits, Intact,
                Due, FreshRetries
  <2> QED BY <2>1, <2>2, <2>3, <2>4 DEF IInv
<1>9. CASE TifmDrain
  <2>1. CASE host.req = None
    <3>1. host' \in Hosts /\ UNCHANGED mrq
      BY <1>9, <2>1 DEF TifmDrain, Types, Hosts
    <3>2. Types'
      BY <1>9, <3>1 DEF TifmDrain, Types, Lives
    <3>3. CardIs' /\ DriverHas'
      BY <1>9 DEF TifmDrain, CardIs, DriverHas
    <3>4. host'.req = None /\ host'.lock = host.lock /\ host'.tasklet = host.tasklet
          /\ host'.eject /\ ~host'.tasklet /\ life'.rm = "flush" /\ life'.chip = life.chip
      BY <1>9, <2>1 DEF TifmDrain, Types, Hosts
    <3>5. OneAsked'
      BY <1>9, <2>1, <3>4 DEF TifmDrain, LockFree, OneAsked, Active, Waits
    <3>6. TifmEnds' /\ Counted'
      BY <1>9, <2>1, <3>4 DEF TifmDrain, LockFree, Active, Waits, Intact, TifmEnds, Counted,
                              Due, FreshRetries
    <3> QED BY <3>2, <3>3, <3>5, <3>6
  <2>2. CASE host.req # None
    <3>1. /\ host' = [host EXCEPT !.eject = TRUE, !.armed = FALSE, !.lock = "next"]
          /\ mrq' = [mrq EXCEPT ![host.req].error = TRUE]
      BY <1>9, <2>2 DEF TifmDrain
    <3>2. host' \in Hosts /\ mrq' \in Mrqs
      BY <3>1 DEF Types, Hosts, Mrqs
    <3>3. Types'
      BY <1>9, <3>2 DEF TifmDrain, Types, Lives
    <3>4. CardIs' /\ DriverHas'
      BY <1>9 DEF TifmDrain, CardIs, DriverHas
    <3>5. host'.req = host.req /\ host'.lock = "next" /\ host'.tasklet = host.tasklet
          /\ host'.eject /\ ~host'.tasklet /\ life'.rm = "flush" /\ life'.chip = life.chip
      BY <1>9, <3>1 DEF TifmDrain, Types, Hosts
    <3>6. OneAsked'
      BY <1>9, <2>2, <3>5 DEF TifmDrain, LockFree, OneAsked, Active, Waits, Intact
    <3>7. TifmEnds' /\ Counted'
      BY <1>9, <2>2, <3>5 DEF TifmDrain, LockFree, Active, Waits, Intact, TifmEnds, Counted,
                              Due, FreshRetries
    <3> QED BY <3>3, <3>4, <3>6, <3>7
  <2> QED BY <2>1, <2>2
<1>10. CASE TifmGone
  <2>1. CASE card = None
    BY <1>10, <2>1 DEF TifmGone, RemoveHost, core, CardIs, DriverHas, OneAsked, Active,
                       Waits, Intact, TifmEnds, Counted, Due, FreshRetries, Types, Lives
  <2>2. CASE card # None
    <3>1. Unregister
      BY <1>10, <2>2 DEF TifmGone, RemoveHost
    <3>2. Types'
      <4>1. drv' \in Drvs
        BY <3>1 DEF Unregister, Drvs
      <4>2. life' \in Lives
        BY <1>10 DEF TifmGone, RemoveHost, Types, Lives
      <4> QED BY <1>10, <3>1, <4>1, <4>2 DEF TifmGone, RemoveHost, Unregister, Types, Place
    <3>3. ~drv'.has_request /\ drv'.queue = "off"
      BY <3>1 DEF Unregister
    <3>4. CardIs' /\ DriverHas'
      BY <1>10, <3>1, <3>3 DEF TifmGone, RemoveHost, Unregister, CardIs, DriverHas
    <3>5. OneAsked'
      BY <1>10, <3>1, <3>3 DEF TifmGone, RemoveHost, LockFree, Unregister, OneAsked, Active,
                               Waits, TifmEnds, Due, FreshRetries
    <3>6. TifmEnds' /\ Counted'
      BY <1>10, <3>1 DEF TifmGone, RemoveHost, Unregister, Active, Waits, Intact, TifmEnds,
                         Counted, Due, FreshRetries
    <3> QED BY <3>2, <3>4, <3>5, <3>6
  <2> QED BY <2>1, <2>2
<1> QED BY <1>1, <1>2, <1>3, <1>4, <1>5, <1>6, <1>7, <1>8, <1>9, <1>10 DEF Tifm

\* jmb38x_ms.c: the same, with a timer that may come late and ends whatever request it
\* finds.
LEMMA JmbInv == IInv /\ ~SlowTasklet /\ Jmb => IInv'
<1> SUFFICES ASSUME IInv, ~SlowTasklet, Jmb PROVE IInv'
  OBVIOUS
<1> USE DEF IInv
<1>1. CASE JmbIssueFails
  <2>1. Types'
    <3>1. mrq' \in Mrqs
      BY <1>1 DEF JmbIssueFails, IsJmb, Types, Mrqs
    <3>2. host' \in Hosts
      BY <1>1 DEF JmbIssueFails, IsJmb, Types, Hosts
    <3> QED BY <1>1, <3>1, <3>2 DEF JmbIssueFails, IsJmb, Types
  <2>2. CardIs' /\ DriverHas'
    BY <1>1 DEF JmbIssueFails, IsJmb, CardIs, DriverHas
  <2>3. OneAsked'
    BY <1>1 DEF JmbIssueFails, IsJmb, OneAsked, Active, Waits, Intact, IsTifm
  <2>4. TifmEnds' /\ Counted'
    BY <1>1 DEF JmbIssueFails, IsJmb, OneAsked, TifmEnds, Counted, Active, Waits, Intact,
                IsTifm, Due, FreshRetries, Types
  <2> QED BY <2>1, <2>2, <2>3, <2>4 DEF IInv
<1>2. CASE JmbIssue
  <2>1. Types'
    <3>1. mrq' \in Mrqs
      BY <1>2 DEF JmbIssue, IsJmb, Types, Mrqs
    <3>2. host' \in Hosts
      BY <1>2 DEF JmbIssue, IsJmb, Types, Hosts
    <3> QED BY <1>2, <3>1, <3>2 DEF JmbIssue, IsJmb, Types
  <2>2. CardIs' /\ DriverHas'
    BY <1>2 DEF JmbIssue, IsJmb, CardIs, DriverHas
  <2>3. OneAsked'
    BY <1>2 DEF JmbIssue, IsJmb, OneAsked, Active, Waits, Intact, IsTifm
  <2>4. TifmEnds' /\ Counted'
    BY <1>2 DEF JmbIssue, IsJmb, OneAsked, TifmEnds, Counted, Active, Waits, Intact, IsTifm,
                Due, FreshRetries, Types
  <2> QED BY <2>1, <2>2, <2>3, <2>4 DEF IInv
<1>3. CASE JmbRaise
  <2>1. Types'
    BY <1>3 DEF JmbRaise, core, IsJmb, Awake, Exists, Types
  <2>2. CardIs' /\ DriverHas'
    BY <1>3 DEF JmbRaise, core, IsJmb, Awake, Exists, CardIs, DriverHas
  <2>3. OneAsked'
    BY <1>3 DEF JmbRaise, core, IsJmb, Awake, Exists, OneAsked, Active, Waits, Intact,
                IsTifm
  <2>4. TifmEnds' /\ Counted'
    BY <1>3 DEF JmbRaise, core, IsJmb, Awake, Exists, TifmEnds, Counted, Active, Waits,
                Intact, IsTifm, Due, FreshRetries
  <2> QED BY <2>1, <2>2, <2>3, <2>4 DEF IInv
<1>4. CASE JmbMediaChange
  <2>1. Types'
    BY <1>4 DEF JmbMediaChange, core, IsJmb, Awake, Exists, Types
  <2>2. CardIs' /\ DriverHas'
    BY <1>4 DEF JmbMediaChange, core, IsJmb, Awake, Exists, CardIs, DriverHas
  <2>3. OneAsked'
    BY <1>4 DEF JmbMediaChange, core, IsJmb, Awake, Exists, OneAsked, Active, Waits, Intact,
                IsTifm
  <2>4. TifmEnds' /\ Counted'
    BY <1>4 DEF JmbMediaChange, core, IsJmb, Awake, Exists, TifmEnds, Counted, Active,
                Waits, Intact, IsTifm, Due, FreshRetries
  <2> QED BY <2>1, <2>2, <2>3, <2>4 DEF IInv
<1>5. CASE JmbIsr
  <2>1. /\ check' \in Checks /\ check'.at = check.at
        /\ check'.new = check.new /\ check'.old = check.old
    BY <1>5 DEF JmbIsr, Types, Checks
  <2>2. CardIs' /\ DriverHas'
    BY <1>5, <2>1 DEF JmbIsr, CardIs, DriverHas
  <2>3. CASE host.req = None
    BY <1>5, <2>1, <2>2, <2>3 DEF JmbIsr, IsJmb, OneAsked, Active, Waits, Intact, IsTifm,
                                  TifmEnds, Counted, Due, FreshRetries, Types
  <2>4. CASE host.req # None
    <3> DEFINE error == "ERR" \in hw.irq
               flags == host.flags \cup Flags(hw.irq)
               over  == error \/ {"CMD", "FIFO"} \subseteq flags
    <3>1. /\ flags \in SUBSET {"RDY", "FIFO", "MSINT", "CMD"}
          /\ over \in BOOLEAN /\ error \in BOOLEAN
          /\ host' = [host EXCEPT !.flags = IF over THEN {} ELSE flags, !.armed = @ /\ ~over,
                                  !.lock = IF over THEN "next" ELSE @]
          /\ mrq' = [mrq EXCEPT ![host.req].error = error]
      BY <1>5, <2>4 DEF JmbIsr, Flags, Types, Hosts
    <3> HIDE DEF error, flags, over
    <3>2. host' \in Hosts /\ host'.lock \in {"next", host.lock} /\ host'.req = host.req
          /\ host'.tasklet = host.tasklet /\ host'.eject = host.eject
      BY <3>1 DEF Types, Hosts
    <3>3. mrq' \in Mrqs
      BY <3>1 DEF Types, Mrqs
    <3>4. Types'
      BY <1>5, <2>1, <3>2, <3>3 DEF JmbIsr, Types
    <3>5. OneAsked'
      BY <1>5, <2>1, <2>4, <3>2 DEF JmbIsr, IsJmb, LockFree, OneAsked, Active, Waits,
                                    Intact, IsTifm
    <3>6. TifmEnds' /\ Counted'
      BY <1>5, <2>1, <2>4, <3>2 DEF JmbIsr, IsJmb, LockFree, Active, Waits, Intact, IsTifm,
                                    TifmEnds, Counted, Due, FreshRetries
    <3> QED BY <2>2, <3>4, <3>5, <3>6
  <2> QED BY <2>3, <2>4
<1>6. CASE JmbExpire
  <2>1. Types'
    <3>1. host' \in Hosts
      BY <1>6 DEF JmbExpire, core, IsJmb, Awake, Exists, Types, Hosts
    <3> QED BY <1>6, <3>1 DEF JmbExpire, core, IsJmb, Awake, Exists, Types
  <2>2. CardIs' /\ DriverHas'
    BY <1>6 DEF JmbExpire, core, IsJmb, Awake, Exists, CardIs, DriverHas
  <2>3. OneAsked'
    BY <1>6 DEF JmbExpire, core, IsJmb, Awake, Exists, OneAsked, Active, Waits, Intact,
                IsTifm
  <2>4. TifmEnds' /\ Counted'
    BY <1>6 DEF JmbExpire, core, IsJmb, Awake, Exists, TifmEnds, Counted, Active, Waits,
                Intact, IsTifm, Due, FreshRetries
  <2> QED BY <2>1, <2>2, <2>3, <2>4 DEF IInv
<1>7. CASE JmbAbort
  <2>1. CASE host.req = None
    <3>1. host' \in Hosts /\ UNCHANGED mrq
      BY <1>7, <2>1 DEF JmbAbort, Types, Hosts
    <3>2. Types'
      BY <1>7, <3>1 DEF JmbAbort, Types, Lives
    <3>3. CardIs' /\ DriverHas'
      BY <1>7 DEF JmbAbort, CardIs, DriverHas
    <3>4. host'.req = None /\ host'.lock = host.lock /\ host'.tasklet = host.tasklet
          /\ host'.eject = host.eject /\ life' = life
      BY <1>7, <2>1 DEF JmbAbort, Types, Hosts
    <3>5. OneAsked'
      BY <1>7, <2>1, <3>4 DEF JmbAbort, LockFree, IsJmb, OneAsked, Active, Waits, Intact,
                              IsTifm
    <3>6. TifmEnds' /\ Counted'
      BY <1>7, <2>1, <3>4 DEF JmbAbort, LockFree, IsJmb, Active, Waits, Intact, IsTifm,
                              TifmEnds, Counted, Due, FreshRetries
    <3> QED BY <3>2, <3>3, <3>5, <3>6
  <2>2. CASE host.req # None
    <3>1. /\ host' = [host EXCEPT !.expired = FALSE, !.armed = FALSE, !.lock = "next"]
          /\ mrq' = [mrq EXCEPT ![host.req].error = TRUE]
      BY <1>7, <2>2 DEF JmbAbort
    <3>2. host' \in Hosts /\ mrq' \in Mrqs
      BY <3>1 DEF Types, Hosts, Mrqs
    <3>3. Types'
      BY <1>7, <3>2 DEF JmbAbort, Types, Lives
    <3>4. CardIs' /\ DriverHas'
      BY <1>7 DEF JmbAbort, CardIs, DriverHas
    <3>5. host'.req = host.req /\ host'.lock = "next" /\ host'.tasklet = host.tasklet
          /\ host'.eject = host.eject /\ life' = life
      BY <1>7, <3>1 DEF JmbAbort, Types, Hosts
    <3>6. OneAsked'
      BY <1>7, <2>2, <3>5 DEF JmbAbort, LockFree, IsJmb, OneAsked, Active, Waits, Intact,
                              IsTifm
    <3>7. TifmEnds' /\ Counted'
      BY <1>7, <2>2, <3>5 DEF JmbAbort, LockFree, IsJmb, Active, Waits, Intact, IsTifm,
                              TifmEnds, Counted, Due, FreshRetries
    <3> QED BY <3>3, <3>4, <3>6, <3>7
  <2> QED BY <2>1, <2>2
<1>8. CASE JmbTasklet
  <2>1. Types'
    <3>1. host' \in Hosts
      BY <1>8 DEF JmbTasklet, core, IsJmb, Awake, Exists, LockFree, Types, Hosts
    <3> QED BY <1>8, <3>1 DEF JmbTasklet, core, IsJmb, Awake, Exists, LockFree, Types
  <2>2. CardIs' /\ DriverHas'
    BY <1>8 DEF JmbTasklet, core, IsJmb, Awake, Exists, LockFree, CardIs, DriverHas
  <2>3. OneAsked'
    BY <1>8 DEF JmbTasklet, core, IsJmb, Awake, Exists, LockFree, OneAsked, Active, Waits,
                Intact, IsTifm
  <2>4. TifmEnds' /\ Counted'
    BY <1>8 DEF JmbTasklet, core, IsJmb, Awake, Exists, LockFree, TifmEnds, Counted, Active,
                Waits, Intact, IsTifm, Due, FreshRetries
  <2> QED BY <2>1, <2>2, <2>3, <2>4 DEF IInv
<1>9. CASE JmbRemove
  <2>1. Types'
    <3>1. life' \in Lives
      BY <1>9 DEF JmbRemove, core, IsJmb, Awake, Exists, Types, Lives
    <3>2. host' \in Hosts
      BY <1>9 DEF JmbRemove, core, IsJmb, Awake, Exists, Types, Hosts
    <3> QED BY <1>9, <3>1, <3>2 DEF JmbRemove, core, IsJmb, Awake, Exists, Types
  <2>2. CardIs' /\ DriverHas'
    BY <1>9 DEF JmbRemove, core, IsJmb, Awake, Exists, CardIs, DriverHas
  <2>3. OneAsked'
    BY <1>9 DEF JmbRemove, core, IsJmb, Awake, Exists, OneAsked, Active, Waits, Intact
  <2>4. TifmEnds' /\ Counted'
    BY <1>9 DEF JmbRemove, core, IsJmb, Awake, Exists, TifmEnds, Counted, Active, Waits,
                Intact, IsTifm, Due, FreshRetries
  <2> QED BY <2>1, <2>2, <2>3, <2>4 DEF IInv
<1>10. CASE JmbRemoved
  <2>1. CASE card = None
    BY <1>10, <2>1 DEF JmbRemoved, RemoveHost, core, IsJmb, CardIs, DriverHas, OneAsked,
                       Active, Waits, Intact, IsTifm, TifmEnds, Counted, Due, FreshRetries,
                       Types, Lives
  <2>2. CASE card # None
    <3>1. Unregister
      BY <1>10, <2>2 DEF JmbRemoved, RemoveHost
    <3>2. Types'
      <4>1. drv' \in Drvs
        BY <3>1 DEF Unregister, Drvs
      <4>2. life' \in Lives
        BY <1>10 DEF JmbRemoved, RemoveHost, Types, Lives
      <4> QED BY <1>10, <3>1, <4>1, <4>2 DEF JmbRemoved, RemoveHost, Unregister, Types,
                                             Place
    <3>3. ~drv'.has_request /\ drv'.queue = "off"
      BY <3>1 DEF Unregister
    <3>4. CardIs' /\ DriverHas'
      BY <1>10, <3>1, <3>3 DEF JmbRemoved, RemoveHost, IsJmb, Unregister, CardIs, DriverHas
    <3>5. OneAsked'
      BY <1>10, <3>1, <3>3 DEF JmbRemoved, RemoveHost, LockFree, IsJmb, Unregister,
                               OneAsked, Active, Waits, Intact, IsTifm, Due, FreshRetries
    <3>6. TifmEnds' /\ Counted'
      BY <1>10, <3>1 DEF JmbRemoved, RemoveHost, IsJmb, Unregister, Active, Waits, Intact,
                         IsTifm, TifmEnds, Counted, Due, FreshRetries
    <3> QED BY <3>2, <3>4, <3>5, <3>6
  <2> QED BY <2>1, <2>2
<1>11. CASE JmbGone
  <2>1. Types'
    <3>1. life' \in Lives
      BY <1>11 DEF JmbGone, core, IsJmb, Types, Lives
    <3> QED BY <1>11, <3>1 DEF JmbGone, core, IsJmb, Types
  <2>2. CardIs' /\ DriverHas'
    BY <1>11 DEF JmbGone, core, IsJmb, CardIs, DriverHas
  <2>3. OneAsked'
    BY <1>11 DEF JmbGone, core, IsJmb, OneAsked, Active, Waits, Intact, IsTifm
  <2>4. TifmEnds' /\ Counted'
    BY <1>11 DEF JmbGone, core, IsJmb, TifmEnds, Counted, Active, Waits, Intact, IsTifm,
                 Due, FreshRetries
  <2> QED BY <2>1, <2>2, <2>3, <2>4 DEF IInv
<1> QED BY <1>1, <1>2, <1>3, <1>4, <1>5, <1>6, <1>7, <1>8, <1>9, <1>10, <1>11 DEF Jmb

\* The driver of the card asks only when it has a queue that runs, and sleep leaves a
\* request where it is.
LEMMA RestInv == IInv /\ ~SlowTasklet /\ Rest => IInv'
<1> SUFFICES ASSUME IInv, ~SlowTasklet, Rest PROVE IInv'
  OBVIOUS
<1> USE DEF IInv
<1>1. CASE IoSubmit
  <2>1. Types'
    <3>1. host' \in Hosts
      BY <1>1 DEF IoSubmit, Awake, Exists, Types, Hosts
    <3>2. next_request' \in Nexts
      BY <1>1 DEF IoSubmit, Awake, Exists, Types, Nexts
    <3>3. mrq_complete' \in Ends
      BY <1>1 DEF IoSubmit, Awake, Exists, Types, Ends
    <3>4. drv' \in Drvs
      BY <1>1 DEF IoSubmit, Awake, Exists, Types, Drvs
    <3> QED BY <1>1, <3>1, <3>2, <3>3, <3>4 DEF IoSubmit, Awake, Exists, Types
  <2>2. CardIs' /\ DriverHas'
    BY <1>1 DEF IoSubmit, Awake, Exists, CardIs, DriverHas
  <2>3. OneAsked'
    BY <1>1 DEF IoSubmit, Awake, Exists, DriverHas, OneAsked, Active, Waits, Intact, IsTifm
  <2>4. TifmEnds' /\ Counted'
    BY <1>1 DEF IoSubmit, Awake, Exists, DriverHas, OneAsked, TifmEnds, Counted, Active,
                Waits, Intact, IsTifm, Due, FreshRetries, Types, Hosts
  <2> QED BY <2>1, <2>2, <2>3, <2>4 DEF IInv
<1>2. CASE Suspend
  <2>1. Types'
    <3>1. life' \in Lives
      BY <1>2 DEF Suspend, core, Awake, Exists, LockFree, Types, Lives
    <3>2. drv' \in Drvs
      BY <1>2 DEF Suspend, core, Awake, Exists, LockFree, Types, Drvs
    <3> QED BY <1>2, <3>1, <3>2 DEF Suspend, core, Awake, Exists, LockFree, Types
  <2>2. CardIs' /\ DriverHas'
    BY <1>2 DEF Suspend, core, Awake, Exists, LockFree, CardIs, DriverHas
  <2>3. OneAsked'
    BY <1>2 DEF Suspend, core, Awake, Exists, LockFree, OneAsked, Active, Waits, Intact
  <2>4. TifmEnds' /\ Counted'
    BY <1>2 DEF Suspend, core, Awake, Exists, LockFree, TifmEnds, Counted, Active, Waits,
                Intact, Due, FreshRetries
  <2> QED BY <2>1, <2>2, <2>3, <2>4 DEF IInv
<1>3. CASE Resume
  <2>1. Types'
    <3>1. life' \in Lives
      BY <1>3 DEF Resume, core, Types, Lives
    <3>2. drv' \in Drvs
      BY <1>3 DEF Resume, core, Types, Drvs
    <3>3. check' \in Checks
      BY <1>3 DEF Resume, core, Types, Checks
    <3> QED BY <1>3, <3>1, <3>2, <3>3 DEF Resume, core, Types
  <2>2. CardIs' /\ DriverHas'
    BY <1>3 DEF Resume, core, CardIs, DriverHas
  <2>3. OneAsked'
    BY <1>3 DEF Resume, core, OneAsked, Active, Waits, Intact, IsTifm
  <2>4. TifmEnds' /\ Counted'
    BY <1>3 DEF Resume, core, TifmEnds, Counted, Active, Waits, Intact, IsTifm, Due,
                FreshRetries
  <2> QED BY <2>1, <2>2, <2>3, <2>4 DEF IInv
<1> QED BY <1>1, <1>2, <1>3 DEF Rest

\* Every step, and a step that changes nothing.
LEMMA StepInv == IInv /\ ~SlowTasklet /\ [Next]_vars => IInv'
<1> SUFFICES ASSUME IInv, ~SlowTasklet, [Next]_vars PROVE IInv'
  OBVIOUS
<1>1. CASE NextReq
  BY <1>1, NextReqInv
<1>2. CASE Check
  BY <1>2, CheckInv
<1>3. CASE Tifm
  BY <1>3, TifmInv
<1>4. CASE Jmb
  BY <1>4, JmbInv
<1>5. CASE Rest
  BY <1>5, RestInv
<1>6. CASE UNCHANGED vars
  <2>1. UNCHANGED <<check, drv, host, life, mrq, next_request, mrq_complete, alloc, card,
                    regd, request, retries, tries>>
    BY <1>6 DEF vars
  <2>2. Types' /\ CardIs' /\ DriverHas'
    BY <2>1 DEF IInv, Types, CardIs, DriverHas
  <2>3. OneAsked' /\ TifmEnds' /\ Counted'
    BY <2>1 DEF IInv, OneAsked, TifmEnds, Counted, Active, Waits, Intact, IsTifm, Due
  <2> QED BY <2>2, <2>3 DEF IInv
<1> QED BY <1>1, <1>2, <1>3, <1>4, <1>5, <1>6 DEF Next, Tifm, Jmb, Rest

\* The invariant holds in every state the system reaches.
THEOREM MsInv == ASSUME ~SlowTasklet PROVE Spec => []IInv
<1>1. Init => IInv
  BY InitInv
<1>2. IInv /\ [Next]_vars => IInv'
  BY StepInv
<1> QED BY <1>1, <1>2, PTL DEF Spec

-----------------------------------------------------------------------------
(* What it says about the system.                                          *)

\* The request the host works on belongs to a card that is allocated: it is that of the
\* one who waits, and memstick_check() frees no card while somebody waits for it.
THEOREM MsReqAlive == ASSUME ~SlowTasklet PROVE Spec => []ReqAlive
<1>1. IInv => ReqAlive
  <2> SUFFICES ASSUME IInv, Intact, host.req # None PROVE host.req \in alloc
    BY DEF ReqAlive
  <2>1. host.req = card /\ Waits
    BY DEF IInv, OneAsked, Active
  <2> QED BY <2>1 DEF IInv, CardIs, Waits
<1> QED BY <1>1, MsInv, PTL

\* While the card's driver has a request on its way, host->card is its card: no check of
\* the media puts another one there before the request has ended.
THEOREM MsOwnCard == ASSUME ~SlowTasklet PROVE Spec => []OwnCard
<1>1. IInv => OwnCard
  BY DEF IInv, OwnCard, CardIs, DriverHas
<1> QED BY <1>1, MsInv, PTL

\* A request is given to the hardware at most once more than it has retries, and the
\* state has its types.
THEOREM MsTriesBounded == ASSUME ~SlowTasklet PROVE Spec => []TriesBounded
<1>1. IInv => TypeOK
  BY DEF IInv, Types, TypeOK, Checks, Drvs, Hosts, Lives, Mrqs, Nexts, Ends, CheckAts, Place
<1>2. IInv => TriesBounded
  BY <1>1 DEF IInv, Counted, TriesBounded
<1> QED BY <1>2, MsInv, PTL
=============================================================================
