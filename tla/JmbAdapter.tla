------------------------------ MODULE JmbAdapter ------------------------------
(* driver/jmb38x_ms.c, the PCI function: its slots come up one after the other,    *)
(* each step may fail, and what was taken has to be given back. The slots share     *)
(* one register of clock delays, which set_param() reads, changes and writes.        *)
EXTENDS Naturals, FiniteSets

CONSTANTS MaxSlots,      \* memory regions the function may have
          OneThread,     \* set_param() of all slots is called from the work queue only
          MaxSets

VARIABLES
  at,             \* "unbound", the step probe() is at, "bound", "remove", "failed", "gone"
  why,            \* it failed
  host_cnt, cnt,
  held,           \* what the driver has taken, of the function or of a slot
  pins,           \* slots with the bits of PCI_CTL_POWER_ADDR_* set
  mode, delay,    \* of a slot: the interface of HOST_CONTROL; PCI_CTL_CLOCK_DLY_ADDR
  seen,           \* what set_param() of a slot has read of it, or nothing
  asleep, sets
jmbVars == <<at, why, host_cnt, cnt, held, pins, mode, delay, seen, asleep, sets>>

Slots == 0..(MaxSlots - 1)
Fn(x) == <<MaxSlots, x>>           \* of the function, which is above all slots
Unread == <<>>
Of(s) == {<<s, "host">>, <<s, "regs">>, <<s, "irq">>, <<s, "added">>}

Init ==
  /\ at = "unbound" /\ why = "none" /\ host_cnt = 0 /\ cnt = 0 /\ held = {} /\ pins = {}
  /\ mode = [s \in Slots |-> "off"] /\ delay = [s \in Slots |-> 0]
  /\ seen = [s \in Slots |-> Unread] /\ asleep = FALSE /\ sets = 0

paramVars == <<mode, delay, seen, asleep, sets>>

\* A step of probe(): it takes one thing, or fails and gives some back.
Takes(from, thing, to, back, reason) ==
  /\ at = from
  /\ \/ held' = held \cup {thing} /\ at' = to /\ UNCHANGED why
     \/ held' = held \ back /\ at' = "failed" /\ why' = reason
  /\ UNCHANGED <<host_cnt, cnt, pins, paramVars>>

-----------------------------------------------------------------------------
Enable  == Takes("unbound", Fn("enabled"), "regions", {}, "enable")
Regions == Takes("regions", Fn("regions"), "count", {}, "busy")

\* Without slots the regions stay, and the function stays enabled.
CountSlots ==
  /\ at = "count"
  /\ \E n \in 0..MaxSlots :
       /\ host_cnt' = n /\ cnt' = 0
       /\ IF n = 0 THEN at' = "failed" /\ why' = "no_slots"
          ELSE at' = "memory" /\ UNCHANGED why
  /\ UNCHANGED <<held, pins, paramVars>>

Memory == Takes("memory", Fn("jm"), "host", {Fn("regions"), Fn("enabled")}, "memory")

\* alloc_host(): once the pins are powered nothing powers them off if the rest fails.
AllocHost ==
  /\ at = "host" /\ cnt < host_cnt
  /\ \/ /\ pins' = pins \cup {cnt} /\ at' = "add"
        /\ held' = held \cup (Of(cnt) \ {<<cnt, "added">>})
     \/ pins' \in {pins, pins \cup {cnt}} /\ at' = "end" /\ UNCHANGED held
  /\ UNCHANGED <<why, host_cnt, cnt, paramVars>>

\* memstick_add_host(), which starts a check of the media; or free_host()
AddHost ==
  /\ at = "add"
  /\ \/ /\ held' = held \cup {<<cnt, "added">>} /\ cnt' = cnt + 1 /\ at' = "host"
        /\ UNCHANGED pins
     \/ /\ held' = held \ Of(cnt) /\ pins' = pins \ {cnt} /\ at' = "end"
        /\ UNCHANGED cnt
  /\ UNCHANGED <<why, host_cnt, paramVars>>

\* One slot is enough.
ProbeEnds ==
  /\ at = "end" \/ (at = "host" /\ cnt = host_cnt)
  /\ IF cnt > 0 THEN at' = "bound" /\ UNCHANGED <<why, held>>
     ELSE at' = "failed" /\ why' = "no_host" /\ held' = held \ {Fn("jm"), Fn("regions"), Fn("enabled")}
  /\ UNCHANGED <<host_cnt, cnt, pins, paramVars>>

Removed(s) == <<s, "host">> \notin held

\* remove(): memstick_remove_host() waits for a check that is running, and then powers
\* the slot off; free_host() gives back the rest.
RemoveHost ==
  /\ at \in {"bound", "remove"} /\ ~asleep
  /\ \E s \in Slots :
       /\ ~Removed(s) /\ \A r \in 0..(s - 1) : Removed(r)
       /\ seen[s] = Unread
       /\ held' = held \ Of(s) /\ pins' = pins \ {s} /\ mode' = [mode EXCEPT ![s] = "off"]
  /\ at' = "remove"
  /\ UNCHANGED <<why, host_cnt, cnt, delay, seen, asleep, sets>>

RemoveEnds ==
  /\ at = "remove" /\ \A s \in Slots : Removed(s)
  /\ held' = held \ {Fn("jm"), Fn("regions"), Fn("enabled")} /\ at' = "gone"
  /\ UNCHANGED <<why, host_cnt, cnt, pins, paramVars>>

-----------------------------------------------------------------------------
Usable(s) == <<s, "added">> \in held /\ ~asleep
Idle == \A s \in Slots : seen[s] = Unread
MaySet(s) == Usable(s) /\ seen[s] = Unread /\ sets < MaxSets /\ (OneThread => Idle)

\* Power on: the controller may not come back from its reset, and nothing is changed.
PowerOn ==
  /\ \E s \in Slots :
       /\ MaySet(s) /\ mode[s] = "off"
       /\ mode' \in {mode, [mode EXCEPT ![s] = "serial"]}
  /\ sets' = sets + 1
  /\ UNCHANGED <<at, why, host_cnt, cnt, held, pins, delay, seen, asleep>>

PowerOff ==
  /\ \E s \in Slots : MaySet(s) /\ mode[s] # "off" /\ mode' = [mode EXCEPT ![s] = "off"]
  /\ sets' = sets + 1
  /\ UNCHANGED <<at, why, host_cnt, cnt, held, pins, delay, seen, asleep>>

\* MEMSTICK_INTERFACE: the delays of all slots are read,
ReadDelay ==
  /\ \E s \in Slots : MaySet(s) /\ mode[s] # "off" /\ seen' = [seen EXCEPT ![s] = delay]
  /\ sets' = sets + 1
  /\ UNCHANGED <<at, why, host_cnt, cnt, held, pins, mode, delay, asleep>>

\* and written, with that of this slot changed.
DelayOf(m) == IF m = "par4" THEN 4 ELSE 0
SetInterface ==
  /\ \E s \in Slots, m \in {"serial", "par4", "par8"} :
       /\ seen[s] # Unread
       /\ mode' = [mode EXCEPT ![s] = m]
       /\ delay' = [seen[s] EXCEPT ![s] = DelayOf(m)]
       /\ seen' = [seen EXCEPT ![s] = Unread]
  /\ UNCHANGED <<at, why, host_cnt, cnt, held, pins, asleep, sets>>

\* suspend(), which powers the slots off, and resume(); if the function cannot be enabled
\* again, it stays as it is.
Suspend ==
  /\ at = "bound" /\ ~asleep /\ Idle /\ sets < MaxSets
  /\ asleep' = TRUE /\ held' = held \ {Fn("enabled")}
  /\ sets' = sets + 1 /\ mode' = [s \in Slots |-> "off"]
  /\ UNCHANGED <<at, why, host_cnt, cnt, pins, delay, seen>>

Resume ==
  /\ asleep
  /\ \E ok \in BOOLEAN : asleep' = ~ok /\ held' = IF ok THEN held \cup {Fn("enabled")} ELSE held
  /\ UNCHANGED <<at, why, host_cnt, cnt, pins, mode, delay, seen, sets>>

Next ==
  \/ Enable \/ Regions \/ CountSlots \/ Memory \/ AllocHost \/ AddHost \/ ProbeEnds
  \/ RemoveHost \/ RemoveEnds
  \/ PowerOn \/ PowerOff \/ ReadDelay \/ SetInterface \/ Suspend \/ Resume

-----------------------------------------------------------------------------
\* What a probe() that fails leaves behind: the function is enabled if its regions are
\* another driver's, and has its regions too if it has no slots.
Excused == CASE why = "busy" -> {Fn("enabled")}
             [] why = "no_slots" -> {Fn("enabled"), Fn("regions")}
             [] OTHER -> {}

\* Nothing else is left when the driver is gone, and powered pins only of a slot whose
\* host could not be allocated.
GivenBack == /\ at \in {"failed", "gone"} => held \subseteq Excused
             /\ \A s \in pins : <<s, "host">> \in held \/ s = cnt

\* A driver that is bound has all of the slots below cnt, and nothing of one above.
AllOrNothing ==
  at = "bound" => /\ \A s \in Slots : IF s < cnt THEN Of(s) \subseteq held
                                      ELSE Of(s) \cap held = {}
                  /\ {Fn("jm"), Fn("regions")} \subseteq held

\* A slot that works has the delay of its own interface, whatever the other one does.
DelaysApart == \A s \in Slots : mode[s] \in {"par4", "par8"} => delay[s] = DelayOf(mode[s])

AdapterRight == GivenBack /\ AllOrNothing /\ DelaysApart
=============================================================================
