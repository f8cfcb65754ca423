------------------------------ MODULE MsproInit ------------------------------
(* mspro_block.c outside of a request: how a card is identified, by probe() and   *)
(* again by resume(), and how the driver's data live until the last user is gone. *)
(* One step is one transfer card->next_request finished; its pages are MsproBlock. *)
EXTENDS Naturals, Sequences

CONSTANTS Media,           \* [sys, signed, ro, attrs |-> Seq([id, addr, size])]
          HostCaps, PageSize, MaxAttributes, MaxErrors, MaxOpens, MaxSleeps,
          Unknown          \* what memory holds that no transfer has filled

\* Of the hosts and of the cards there are.
MediaAssumption ==
  /\ HostCaps \subseteq {"par4", "par8"} /\ PageSize \in Nat \ {0} /\ MaxAttributes \in Nat
  /\ \A m \in Media : m.attrs \in Seq([id : STRING, addr : Nat, size : Nat])

VARIABLES
  stage,        \* the transfer that is waited for, or "idle"
  caller,       \* "probe", "resume"
  medium,       \* the card in the slot
  state,        \* "none", "bound", "asleep", "removed"
  system, host_if, card_if, caps,
  attrs, buffer,
  disk,         \* of the data of the disk: the card's information, and the mode
  read_only, active,
  usage_count, openers, refused, freed,
  transfers,    \* of this identification
  errors, opens, sleeps
iniVars == <<stage, caller, medium, state, system, host_if, card_if, caps, attrs, buffer,
             disk, read_only, active, usage_count, openers, refused, freed, transfers, errors, opens,
             sleeps>>

Init ==
  /\ stage = "idle" /\ caller = "probe" /\ state = "none"
  /\ medium \in Media
  /\ system = "serial" /\ host_if = "serial" /\ card_if = "serial" /\ caps = {}
  /\ attrs = <<>> /\ buffer = [page |-> 0, read |-> 0, count |-> 0] /\ disk = [sys |-> Unknown, system |-> "serial", caps |-> {}]
  /\ read_only = FALSE /\ active = FALSE
  /\ usage_count = 0 /\ openers = 0 /\ refused = 0 /\ freed = FALSE
  /\ transfers = 0 /\ errors = 0 /\ opens = 0 /\ sleeps = 0

\* The slot and the disk, which a transfer does not touch.
outside == <<medium, usage_count, openers, refused, freed, opens, sleeps>>

\* A card in another mode than the host never answers; one in the same mode may fail.
Good == host_if = card_if /\ transfers' = transfers + 1 /\ UNCHANGED errors
Bad  == /\ transfers' = transfers + 1
        /\ IF host_if = card_if THEN errors < MaxErrors /\ errors' = errors + 1
           ELSE UNCHANGED errors

\* The identification ends with an error: probe() gives the data back, resume() only
\* leaves the disk inactive, and starts its queue.
Fails ==
  /\ stage' = "idle" /\ attrs' = <<>>
  /\ state' = IF caller = "probe" THEN "none" ELSE "bound"
  /\ UNCHANGED <<caller, system, host_if, card_if, caps, buffer, disk, read_only, active>>

-----------------------------------------------------------------------------
\* The core has powered the card, in serial mode.
Starts(who) ==
  /\ stage' = "rw_addr" /\ caller' = who
  /\ system' = "serial" /\ host_if' = "serial" /\ card_if' = "serial"
  /\ attrs' = <<>> /\ transfers' = 0
  /\ read_only' = IF who = "probe" THEN FALSE ELSE read_only

Probe ==
  /\ stage = "idle" /\ state = "none"
  /\ Starts("probe")
  /\ UNCHANGED <<state, caps, buffer, disk, active, errors, outside>>

\* init_card(): the registers' window is set, the caps are the host's, CED is waited for.
SetRwAddr ==
  /\ stage = "rw_addr"
  /\ \/ /\ Good /\ stage' = "ced" /\ caps' = HostCaps
        /\ UNCHANGED <<caller, state, system, host_if, card_if, attrs, buffer, disk,
                       read_only, active>>
     \/ Bad /\ Fails
  /\ UNCHANGED outside

WaitForCed ==
  /\ stage = "ced"
  /\ \/ /\ Good /\ stage' = IF "par4" \in caps THEN "par4" ELSE "get_ro"
        /\ UNCHANGED <<caller, state, system, host_if, card_if, caps, attrs, buffer, disk,
                       read_only, active>>
     \/ Bad /\ Fails
  /\ UNCHANGED outside

\* Refused, the mode is not taken by the host; the card may have taken it all the same.
\* Of 4 bits refused nobody says more; of 8 refused the interrupt is asked for.
SetInterface(mode, next, else) ==
  /\ stage = mode
  /\ \/ Good /\ system' = mode /\ host_if' = mode /\ card_if' = mode /\ stage' = next
     \/ Bad /\ card_if' \in {card_if, mode} /\ stage' = else /\ UNCHANGED <<system, host_if>>
  /\ UNCHANGED <<caller, state, caps, attrs, buffer, disk, read_only, active, outside>>

SetPar4 == SetInterface("par4", IF "par8" \in caps THEN "par8" ELSE "int", "get_ro")
SetPar8 == SetInterface("par8", "int", "int")

\* The first answer in the new mode; without it the card is powered again.
CheckInt ==
  /\ stage = "int"
  /\ \/ Good /\ stage' = "get_ro" /\ UNCHANGED <<system, host_if, card_if>>
     \/ /\ Bad /\ stage' = "rw_again"
        /\ system' = "serial" /\ host_if' = "serial" /\ card_if' = "serial"
  /\ UNCHANGED <<caller, state, caps, attrs, buffer, disk, read_only, active, outside>>

\* Falling back to serial, and from there to 4 bits if 8 was the trouble.
FallBack ==
  /\ stage \in {"rw_again", "serial", "ced_again"}
  /\ \/ /\ Good
        /\ stage' = CASE stage = "rw_again" -> "serial"
                      [] stage = "serial" -> "ced_again"
                      [] OTHER -> IF "par8" \in caps THEN "par4" ELSE "get_ro"
        /\ caps' = IF stage = "ced_again" THEN caps \ {"par8"} ELSE caps
        /\ UNCHANGED <<caller, state, system, host_if, card_if, attrs, buffer, disk,
                       read_only, active>>
     \/ Bad /\ Fails
  /\ UNCHANGED outside

\* Of a new card only what probe() asked about is kept: resume() has data of its own.
GetRo ==
  /\ stage = "get_ro"
  /\ \/ /\ Good /\ stage' = "first"
        /\ caps' = IF system # "serial" THEN caps \cup {"auto_get_int"} ELSE caps
        /\ read_only' = IF caller = "probe" THEN medium.ro ELSE read_only
        /\ UNCHANGED <<caller, state, system, host_if, card_if, attrs, buffer, disk, active>>
     \/ Bad /\ Fails
  /\ UNCHANGED outside

-----------------------------------------------------------------------------
\* read_attributes(): the directory is page 0.
FirstPage ==
  /\ stage = "first"
  /\ \/ /\ Good /\ medium.signed
        /\ stage' = "attr" /\ attrs' = <<>>
        /\ buffer' = [page |-> 0, read |-> 1, count |-> 1]
        /\ UNCHANGED <<caller, state, system, host_if, card_if, caps, disk, read_only, active>>
     \/ Good /\ ~medium.signed /\ Fails
     \/ Bad /\ Fails
  /\ UNCHANGED outside

AttrCount == IF Len(medium.attrs) > MaxAttributes THEN MaxAttributes ELSE Len(medium.attrs)
Entry     == medium.attrs[Len(attrs) + 1]

\* Mutant: the end of the attribute is not looked at.
InBufferBegins(e) == e.addr \div PageSize = buffer.page

InBuffer(e) == e.addr \div PageSize = buffer.page
               /\ (e.addr + e.size - 1) \div PageSize = buffer.page

\* Bytes are named by their addresses.
Copied(buf, e) ==
  [k \in 1..e.size |->
     LET i == (e.addr % PageSize) + k - 1
     IN IF i < buf.read * PageSize THEN (buf.page * PageSize) + i ELSE Unknown]

PagesFor(e) == (e.size \div PageSize) + 1
Filled(buf, e) ==
  [buf EXCEPT !.page = e.addr \div PageSize, !.read = PagesFor(e),
              !.count = IF @ <= e.size \div PageSize THEN PagesFor(e) ELSE @]

\* An attribute that is empty, or in the page at hand, takes no transfer; any other takes
\* one, into a buffer made larger if it has to be.
ReadAttribute ==
  /\ stage = "attr" /\ Len(attrs) < AttrCount
  /\ \E e \in {Entry} :
       LET add(buf) == /\ buffer' = buf
                       /\ attrs' = Append(attrs, [id |-> e.id, data |-> Copied(buf, e)])
                       /\ UNCHANGED <<stage, caller, state, system, host_if, card_if, caps,
                                      disk, read_only, active>>
       IN \/ (e.size = 0 \/ InBuffer(e)) /\ add(buffer) /\ UNCHANGED <<transfers, errors>>
          \/ e.size # 0 /\ ~InBuffer(e) /\ Good /\ add(Filled(buffer, e))
          \/ e.size # 0 /\ ~InBuffer(e) /\ Bad /\ Fails
  /\ UNCHANGED outside

Attribute(list, id) == SelectSeq(list, LAMBDA a : a.id = id /\ a.data # <<>>)

\* init_disk() wants two of the attributes; the disk counts as its own first user.
ReadyToBind ==
  /\ stage = "attr" /\ Len(attrs) = AttrCount /\ caller = "probe"
  /\ IF Attribute(attrs, "devinfo") # <<>> /\ Attribute(attrs, "sysinfo") # <<>>
     THEN /\ state' = "bound" /\ active' = TRUE /\ usage_count' = 1 /\ stage' = "idle"
          /\ disk' = [sys |-> medium.sys, system |-> system, caps |-> caps]
          /\ UNCHANGED <<caller, system, host_if, card_if, caps, attrs, buffer, read_only>>
     ELSE Fails /\ UNCHANGED usage_count
  /\ UNCHANGED <<medium, openers, refused, freed, transfers, errors, opens, sleeps>>

\* resume(): the system information tells whether it is the same card; the queue is
\* started either way. The mode found stays with the data that are given back.
Recognised ==
  /\ stage = "attr" /\ Len(attrs) = AttrCount /\ caller = "resume"
  /\ stage' = "idle" /\ state' = "bound"
  /\ active' = (active \/ (Attribute(attrs, "sysinfo") # <<>> /\ medium.sys = disk.sys))
  /\ UNCHANGED <<caller, system, host_if, card_if, caps, attrs, buffer, disk, read_only,
                 transfers, errors, outside>>

-----------------------------------------------------------------------------
Suspend ==
  /\ stage = "idle" /\ state = "bound" /\ sleeps < MaxSleeps
  /\ state' = "asleep" /\ active' = FALSE /\ sleeps' = sleeps + 1
  /\ \E m \in Media : medium' = m
  /\ UNCHANGED <<stage, caller, system, host_if, card_if, caps, attrs, buffer, disk,
                 read_only, usage_count, openers, refused, freed, transfers, errors, opens>>

\* Without CONFIG_MEMSTICK_UNSAFE_RESUME the card is not looked at.
Resume ==
  /\ stage = "idle" /\ state = "asleep"
  /\ \/ Starts("resume") /\ UNCHANGED state
     \/ /\ state' = "bound"
        /\ UNCHANGED <<stage, caller, system, host_if, card_if, attrs, transfers, read_only>>
  /\ UNCHANGED <<caps, buffer, disk, active, errors, outside>>

\* Nobody releases what an open that is refused has counted.
BdOpen ==
  /\ opens < MaxOpens /\ opens' = opens + 1
  /\ state \in {"bound", "asleep"}
  /\ usage_count' = usage_count + 1
  /\ \E write \in BOOLEAN :
       IF write /\ read_only
       THEN refused' = refused + 1 /\ UNCHANGED openers
       ELSE openers' = openers + 1 /\ UNCHANGED refused
  /\ UNCHANGED <<stage, caller, medium, state, system, host_if, card_if, caps, attrs, buffer,
                 disk, read_only, active, freed, transfers, errors, sleeps>>

\* The data go with the last user.
DiskRelease ==
  /\ usage_count' = IF usage_count > 0 THEN usage_count - 1 ELSE 0
  /\ freed' = (freed \/ usage_count' = 0)

BdRelease ==
  /\ openers > 0 /\ openers' = openers - 1
  /\ DiskRelease
  /\ UNCHANGED <<stage, caller, medium, state, system, host_if, card_if, caps, attrs, buffer,
                 disk, read_only, active, refused, transfers, errors, opens, sleeps>>

\* remove(): at any time but while the machine sleeps; the core asks for it when check()
\* finds the disk inactive. msb->card becomes NULL, so nobody opens it any more.
RemoveDisk ==
  /\ stage = "idle" /\ state = "bound"
  /\ state' = "removed" /\ active' = FALSE
  /\ DiskRelease
  /\ UNCHANGED <<stage, caller, medium, system, host_if, card_if, caps, attrs, buffer, disk,
                 read_only, openers, refused, transfers, errors, opens, sleeps>>

Identify == SetRwAddr \/ WaitForCed \/ SetPar4 \/ SetPar8 \/ CheckInt \/ FallBack \/ GetRo
            \/ FirstPage \/ ReadAttribute \/ ReadyToBind \/ Recognised
Next == Probe \/ Identify \/ Suspend \/ Resume \/ BdOpen \/ BdRelease \/ RemoveDisk

-----------------------------------------------------------------------------
\* An identified card is in the mode the host is in. The driver puts into each request's
\* registers, and expects interrupts by, the mode it has found when the disk was made:
\* this is another one if a transfer failed, then or in the resume().
ModesAgree ==
  (state = "bound" /\ active) =>
    /\ card_if = host_if /\ host_if = system
    /\ "auto_get_int" \in caps <=> system # "serial"
    /\ (sleeps = 0 \/ errors = 0) => (disk.system = host_if /\ disk.caps = caps)

\* The data of an attribute are its bytes of the card, unless it reaches into a page more
\* than its size alone would take.
AttributesTrue ==
  (state = "bound" /\ active) =>
    \A i \in DOMAIN attrs :
      \E e \in {medium.attrs[i]} :
        \/ attrs[i].data = [k \in 1..e.size |-> e.addr + k - 1]
        \/ (e.addr % PageSize) + e.size > PagesFor(e) * PageSize

\* Awake, an active disk is that of the card it was made for.
SameMedium == (state = "bound" /\ active) => disk.sys = medium.sys

\* The data live as long as somebody has the disk open, and go with the last one unless
\* an open for writing was refused.
DataLive == /\ freed => (state = "removed" /\ openers = 0)
            /\ (state = "removed" /\ openers = 0 /\ refused = 0) => freed

\* An identification, once begun, goes on, and it ends: falling back to serial, it tries
\* 4 bits again once only.
GoesOn == stage # "idle" => ENABLED Identify
Ends   == transfers <= 15 + MaxAttributes

IdentityKept == ModesAgree /\ AttributesTrue /\ SameMedium /\ DataLive /\ Ends
=============================================================================
