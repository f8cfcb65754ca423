# TLA+ models of the tifmxx card reader drivers

The repository (`src/trunk`) holds Linux drivers for flash card readers: TI
FlashMedia (`tifm_*`) and JMicron (`jmb38x_*`) adapters, the card protocols
(SD, MemoryStick, xD/SmartMedia) and two generations of flash translation
layers. This directory holds TLA+ specifications of them, TLC runs on
small instances, and proofs that TLAPS checks.

`driver/` is what gets built; `mtdx_adv/` is a redesign with exchangeable
translation layers and allocators that is tested in user space. `reveng/`,
`linrev/`, `winbin/` and `linbin/` are notes on, and binaries of, other drivers.

## 1. Inventory

| component | source | state | operations | talks to | hard behaviours |
|---|---|---|---|---|---|
| flash_bd maps | driver/flash_bd.c 74-285, 482-511 | free_cnt, data_map, erase_map, block_table | mark_used, mark_erased, set_empty, set_full, get_free | its handlers, the mount scan of xd_card_blk | three maps kept in step by hand; geometry limits |
| flash_bd handlers | driver/flash_bd.c 288-863 | the request in progress, `cmd_handler` | start_reading, start_writing, next_req | xd_card_blk | continuation passing, every command may fail, no free block left |
| xd_card_blk | driver/xd_card_blk.c | card, request, queue, format thread, disk | media check, mount scan, request loop, format, sleep, removal | flash_bd, jmb38x_xd, block layer | power loss, conflicts, three users of one request slot |
| xd_card_ecc | driver/xd_card_ecc.c | none | ecc_step, fix | xd_card_blk | bits of a code at their places |
| jmb38x_xd, jmb38x_ms | driver/jmb38x_*.c | host, current request, flags; slots of the function | issue, isr, abort timer, tasklet; probe, sleep, remove | card driver core | interrupt, timer and tasklet race for one request |
| tifm_core, tifm_7xx1 | driver/tifm_core.c, tifm_7xx1.c | sockets[], change_set, finish_me, work item | isr, switch_media, eject, suspend, resume, remove | tifm_sd, tifm_ms | five parties interleave; lock, work queue, completion |
| tifm_sd | driver/tifm_sd.c | request, cmd_flags, place in the data | request, card and data events, end tasklet, abort | mmc core, tifm_core | events in any order; bounce buffer; removal |
| tifm_ms | driver/tifm_ms.c | request, cmd_flags, FIFO | submit_req, events, abort, remove | memstick core, tifm_core | as above; dummy submit at removal |
| memstick core | driver/memstick.c | host->card, card->current_mrq | new_req, next_req, check, alloc_card, remove_host | hosts, mspro_block | retries, media check against removal |
| mspro_block | driver/mspro_block.c | place in the segments, interface mode, attributes | transfer handlers, stop, identification, sleep | memstick core, block layer | stop after an error, identification repeated at resume |
| ms_block | mtdx_adv/ms_block.c (driver/ms_block.c is not built) | handler, flags, register window | TPC handlers, format, stop, start | memstick core, ftl_simple | one command for many pages, read-ahead, errors told late |
| rand_peb_alloc | mtdx_adv/rand_peb_alloc.c | two free maps, erase map, zone map | get_peb, put_peb, reset | ftl_simple | two maps change roles |
| ftl_simple | mtdx_adv/ftl_simple.c | zone tables, function stack, current write | read, write, scan, merge, resolve, notify | allocator, long_map, card | crash between selecting and writing a block |
| long_map | mtdx_adv/long_map.c | tree of page maps, spare nodes | get, insert, move, erase, prealloc | ftl_simple | nodes used again; allocation without the lock |
| mtdx_bus, mtdx_data | mtdx_adv/mtdx_bus.c, mtdx_data.c | device queue; none | queue, pop, bitmap regions, iterators | everything in mtdx_adv | word, segment and bio boundaries |
| mtdx_block | mtdx_adv/mtdx_block.c | queue, block_req, usage count | open, request, end, sleep, remove | block layer, ftl_simple | last request against empty queue; removal |

What makes each correct: a translation layer is an array of sectors, whatever
fails; its maps describe the card. An allocator gives a block to one user at a
time, tells the truth about erases, and spreads wear. An adapter notices every
change of its cards, never uses a device that has gone, and can always be
removed. A host completes every request exactly once, whichever of interrupt,
timer and tasklet gets there first. A protocol driver ends every request, the
failed ones too, and what it ends as good has been moved.

Calls across components are function pointers: `card_event` and `data_event`
from the adapter to a host, `fm->eject` back; `request` and `next_req` between
protocol core and host; `get_peb` and `put_peb` from translation layer to
allocator; `new_request`, `get_request` and `end_request` between the devices of
mtdx; `flash_bd_next_req` from the xD driver into the translation layer, where
`cmd_handler` is a continuation.

`PROJECT.json` lists the components with their state of work, and the hazards
at their lines, each with the properties that cover it or the reason why none
does.

## 2. Modules

| module | models | source |
|---|---|---|
| `FlashLut` | the maps of flash_bd as one record, each C function an operator on it | flash_bd.c |
| `FlashBd` | flash_bd's handlers, driven by xd_card_blk: mount scan, execution of the commands, failures, power loss, remount | flash_bd.c, parts of xd_card_blk.c |
| `LogicalStore` | what a translation layer promises: an array of sectors | abstract |
| `XdCard`, `Jmb38xXd` | the driver around flash_bd, and its host; `Jmb38xXd` extends `XdCard` and has `XdNext` | xd_card_blk.c, jmb38x_xd.c |
| `XdFormat` | what is calculated: error correction, extra data, addresses, disk sizes, places in a list of segments | xd_card_ecc.c, xd_card_blk.c |
| `Tifm7xx1` | the TI adapter: interrupt handler, work item, eject, suspend and resume, removal | tifm_7xx1.c, tifm_core.c |
| `Memstick`, `TifmMs`, `Jmb38xMs`, `MemstickHosts` | the MemoryStick core; each of its hosts; their composition, fairness and properties | memstick.c, tifm_ms.c, jmb38x_ms.c |
| `MsFifo` | how those hosts move data by the processor | tifm_ms.c, jmb38x_ms.c |
| `JmbAdapter` | probe, slots, clock delays, sleep and removal of the JMicron function | jmb38x_ms.c |
| `MsproBlock` | block requests of a MemoryStick Pro | mspro_block.c |
| `MsproInit` | identification of such a card, its disk, sleep and removal | mspro_block.c |
| `MsBlock` | reads and erases of an old MemoryStick | mtdx_adv/ms_block.c |
| `TifmSd` | the SD host: requests, events, DMA and FIFO, timer, removal | tifm_sd.c |
| `RandPebAlloc` | the allocator of mtdx, with a user that keeps to its interface | rand_peb_alloc.c, peb_alloc.h |
| `FtlSimple` | the translation layer of mtdx over a flash that survives a restart | ftl_simple.c |
| `MtdxBlock` | block devices that share a translation layer, and the queue of devices between them | mtdx_block.c, mtdx_bus.c, ftl_simple.c |
| `LongMap` | the map of partly written blocks, and its store of nodes | long_map.c |
| `MtdxData` | iterators, bitmap regions, page lists and zones, as operators | mtdx_data.c, mtdx_bus.c, mtdx_common.h |
| `CardsParts`, `MtdxParts` | components that have nothing in common, side by side, for a run and for the proofs about them | |
| `MC...` | the small instances, which EXTEND the module of a component that has an assumption, or take it by INSTANCE; `MCXdCard`, `MCCards` and `MCFtlSimple` also state, as assumptions, what the calculating operators return | |
| `FlashBdProofs`, `Tifm7xx1Proofs`, `MemstickProofs`, `MtdxBlockProofs`, `XdCardProofs`, `FtlSimpleProofs` (owners and marks of blocks), `FtlDataProofs` (their data), `CardsProofs` (mspro_block, the slots of jmb38x_ms and the allocator) | lemmas, theorems | |

A definition whose name is that of another with a slip added
(`HEraseSrcBlind`, `SwitchTakeAgain`, ...) is that other one with a plausible
bug in it. No run uses it as it stands; put in the place of the right one it
shows that a property can fail.

### FlashBd

`io` is the part of `struct flash_bd` a request uses; `io.handler` is
`cmd_handler`. `req` is the `struct flash_bd_request` a handler returns,
`ret` the count and error its caller hands to the next call. `phase` says whose
turn it is: `mount` (`xd_card_fill_lut`), `idle`, `exec` (the caller executes
`req`), `call` (the caller enters `flash_bd_next_req`). Each handler is one
action, an early return a disjunct of it. Handlers that call another handler
at their end (`h_flash_bd_fill_tmp` calls `h_flash_bd_erase_dst`,
`h_flash_bd_write_inc` and both of the source-block handlers call
`h_flash_bd_write`) are composed of shared operators (`EraseDst`, `WriteNext`), which
take the maps and the request as arguments.

`media` is the card: per block a bad mark, per page the logical address in the
extra data and, per sector, what was stored. A sector programmed twice without
an erase reads `JUNK`; the address of such a page becomes `GARBLED` unless both
agree. A write programs pages in order and can be cut short after, or within,
each of them. A command fails with the card's status (`EFAULT`) or an error of
the host (`EIO`), having done nothing, everything or part of its work.

Sizes are in sectors, requests are start and length, a written value is one
of a few constants. The position in the scatter list, which the xD driver
advances with the commands, is replaced by the request's value.

`StoresData` is `LogicalStore!Spec` under the mapping `store` = what the mapped
(or, during a scan, the claiming) block holds, `job` = what remains of the
request. A write of several blocks takes effect one block at a time, at
`Commit`.

### XdCard and Jmb38xXd

`media[c]` is a `struct xd_card_media`, `xd_host` the host with its current
request, its explicit spin lock and `short` (the address size an erase uses),
`mutex` is `host->lock`, and `xd_check`, `xd_del`, `fmt` and `store` are program
counters of the media check, the deletion of a card it begins, the format thread and the
sysfs file that starts it. `next_request[0]` is a pair: the first is the
handler installed, the second what `init` turns into. A handler runs when the
host asks for the next request (`Handler`, under its lock); an answer comes from
`Isr`, `Abort` or a failing `Issue`. What flash_bd asks for is chosen
freely here; `FlashBd` is the other half, and the run takes the two in turn.

### Memstick and its hosts

`memstick_check` is cut where it waits for an answer. `host.lock` is the host's
spin lock: the loop `do memstick_next_req() while (!issue_cmd())` is one action
for each call, and nobody else may have the lock between them. `alloc` are the
cards not yet freed; `regd` is the registered one, which differs from `card`
while another is identified. `tries` counts how often one request was given to
the hardware. The interrupt status of the JMicron controller keeps what is not
taken; an abort that waits for the lock may find a later request.

### MsproBlock, MsproInit, MsBlock

`MsproBlock` has the segments of a request and the place in them; the card counts the
pages it has moved. `MsproInit` is everything else: each step is one transfer
the driver waits for; bytes are named by their positions on the card, so that an
attribute is right if it is the run of positions its entry names.

`MsBlock` has, for each handler of ms_block.c, an operator that makes the next
state of the driver of the present one and the answer (`ReadStatus`, `CmdGetInt`,
...), and an action that lets the card answer and applies it. Handlers call one another, and so
do the operators. `drv.win` is `card->reg_addr`, `chip.win` what the card has
been told; `got` and `extras` are the pages whose data and extra data have
arrived where the request wants them.

### TifmSd, MsFifo, JmbAdapter

`TifmSd` has the controller's status latch, mask and DMA registers (`chip`,
`dma`), the handler's `cmd_flags`, and the place in the segments; with the DMA
data are counted in bytes that went over the wire, through the FIFO in words.
Each event is an action with what `tifm_sd_check_status` decides of it.
`MsFifo` names bytes by their positions in the request: a buffer that was read in order
is the sequence 1, 2, 3. `JmbAdapter` keeps in `held` what probe has taken and
what is left to give back.

### FtlSimple, MtdxBlock, LongMap

`fsd.req_fn` is the function stack, each `Fn` action one iteration of
`ftl_simple_get_request`, each `End` action the end function of the command
that came back. `lut` is in memory and lost by `Crash`; `flash` is not.
`store` is what has been acknowledged, or `Either` where a write failed or
was lost. `flaws` records that one of the code's own slips has happened (a block
programmed that was not erased; a rewrite in place cut short; a restart with
labels that are not true); properties on data hold until then, and `MarkIsTrue`, `DataKept`
and `ReadsRight` say so with `Excused`. A block programmed that was not erased excuses them only after
a command that failed, or where blocks are written upwards (ftl_upwards): otherwise it must not happen.

`MtdxBlock` takes the same layer as a server of devices: `ftl.at` says where
`get_request` is, since the lock of the device's queue and the lock of the layer are taken
at different moments. `LongMap` has a program counter for each caller of
`long_map_prealloc`, which allocates without the lock.

### RandPebAlloc

Bitmaps are the sets of their 1 bits (a 0 bit in `map_a`, `map_b` is a free
block, as in the code). `GetPeb` is `rand_peb_alloc_get` with the random start
as an existential; `Preferred` is the search from there round the zone, and
`GiveOut` what is left of the function. `held`, `dirty`, `given` describe the
user and are no part of the code: the blocks it has, those that need an erase,
those handed out since the zone's maps changed roles.

### Tifm7xx1

`card`, `pend`, `ev`, `ev_mask`, `irq_on` and `powering` are the chip;
`sockets`, `change_set`, `finish_me`, `eject` are fields of `struct
tifm_adapter`; `reg` is which devices are registered. The work item is split at
every point where it drops the lock, sleeps or calls out (`SwitchTake` ...
`SwitchEnd`), so are suspend and resume, and removal. The interrupt handler
reads the status and acknowledges it in two steps, since the chip does not
take the lock; everything else under `fm->lock` is one step, and
`LockFree` keeps it out of the handler. A call of `tifm_eject` fetches the
function pointer in one step and calls it in another.

## 3. Runs

| run | instance | shows |
|---|---|---|
| bd_store | 2 zones of 3 blocks, pages of 2 sectors, remounts | `StoresData` without failures |
| bd_faults | 1 zone of 4 blocks, one failure of any command but one | `StoresData`, `TmpIsFilled`, `LossNeedsFault` |
| bd_worn | 3 blocks, two failures of any kind, power loss | `TypeOK`, `MapsAgree`, `RequestEnds` |
| xd_card | flash_bd on 4 blocks with power loss and remounts; or xd_card_blk with its host: 3 places for a card, 1 retry, 1 block request, 2 events | `CleanIsErased`, `WriteTargetErased`; `XdAlive`, `XdOneAtATime`, `XdComesToRest` |
| memstick | 2 places for a card, 2 tries, 2 requests, 1 media change, removal, either host | `ReqAlive`, `OwnCard`, `TriesBounded`, `MemstickAnswers` |
| cards | one of: the allocator (2 zones of 2 blocks), mspro_block's requests, its identification, ms_block, tifm_sd, the FIFOs, the slots of jmb38x_ms, the TI adapter asleep (2 sockets, a shared line) | `TypeOK`, `FreeOnce`, `EraseStateTrue`, `OncePerRound`; `PagesInStep`; `IdentityKept`; `PartsRight`; `KeepsDevice`; `EveryRequestEnds` |
| ftl | ftl_simple on a zone of 3 blocks; or 2 block devices; or a map with 3 nodes | `OneUser`, `MarkIsTrue`, `DataKept`, `ReadsRight`; `DevicesServed`; `MapKept`; `RequestsEnd` |
| tifm | 2 sockets, 2 changes, 1 eject, 1 sleep, 1 event; cards in one socket and everything allowed to happen, or in both and nothing that makes the adapter deaf | `TypeOK`, `SlotRegistered`, `IrqComesBack`, `ChangeQueued`, `CompletionLives`, `NothingLeft`; `LiveCardSeen`, `LiveRemoveEnds` |
| bd_rewrite, bd_conflict, ftl_clean, ftl_upwards | see section 6 | each shows one disagreement of code and documentation |

A run of several components (xd_card, cards, ftl), or of one under two sets of
options (tifm), has a variable `part` that says which; the others stay where they began, so that the states of the
run are the sum and not the product of theirs.

The properties, in terms of the code:

- `StoresData`: between mount and removal, whatever fails, the translation
  layer is the array `LogicalStore`. `CleanIsErased`, `WriteTargetErased`,
  `TmpIsFilled`: its maps and its buffer are what its handlers take them for.
- `XdAlive`, `ReqAlive`: nobody uses a card that has been freed. `XdAlive` names one exception,
  `Forgotten`: when `xd_card_check` has had a card removed, `host->card` points to it until the next
  store (xd_card_blk.c:2781-2783, 2791-2792), and a tasklet that is still pending looks at it (jmb38x_xd.c:402-408);
  the model reaches this. `XdOneAtATime`, `OwnCard`: one
  slot for a request is shared by the queue, the media check and (xD) the format
  thread, and none of them has it taken away. `XdComesToRest`: while anything has not
  ended something of the system can move, and at rest the power is on just if
  there is a card. `TriesBounded`: a request whose end several parties see is retried
  as often as it should.
- `PagesInStep`, `PartsRight`: the place the driver has reached is the place the
  card has reached, segment for segment; what is ended as good was moved.
  For ms_block these are `WindowKnown`, `PagesRight`, `ErrorTold` and `Ends` of `MsBlock`. The
  slots of jmb38x_ms hold what they need, and give it back on each path of failure; an
  identification does not stop halfway.
- `IdentityKept`: the mode of the host, of the card and of the driver agree, attributes
  are the bytes of the card, the disk's data live as long as its last user.
- `OneUser`, `MarkIsTrue`, `DataKept`, `ReadsRight`: blocks of ftl_simple have one owner
  between table, allocator and write in progress; pages believed unwritten hold
  nothing; acknowledged data survive failures and restarts.
- `DevicesServed`: until the card goes, no request waits in a queue that runs without anybody
  knowing; no device is called without a reference; one that has gone has no request left and
  is not called. `KeepsDevice`: a card that is left alone keeps its device over a sleep, as long as no
  power-up is taken for a change. `EveryRequestEnds`: a request of tifm_sd ends whatever the card does, one of
  mspro_block if the card is not busy for ever. `MapKept`: nodes are neither lost nor shared.

What calculates is checked as assumptions, which TLC evaluates at the start of the
run whose module has them, over small or sampled inputs against a definition by
sets: in `MCXdCard` `EccLocates` (one wrong bit of a page is found), `EccIsNotCompared`,
`AddrSurvives` (the codec of the logical address), `ExtraComesRound`,
`DiskSizesFit`, `AddressIsOnePage`, `AdvanceIsSum`, `CopyNeedsPages`; in `MCFtlSimple` `PlacesAgree`,
`TakesSome`, `BufferKept`, `EntryKept` (iterators), `RegionsRight`,
`PageListRight`, `ZonesCover`, `TreeTakenApart`; in `MCCards` `ClockNotFaster`.
`EccIsNotCompared`, `RegionsRight` and `CopyNeedsPages` say where the function does not
do what it seems meant to.

### Bounds

*flash_bd.* The maps keep zones apart, so one zone shows what happens
within it; bd_store has two, for requests that cross from one to the next. A
zone starts with the block of the card information, which is reserved, so 4
blocks with 1 logical block are two spares beside the mapped block; 3 blocks
are one. Two pages give a page before and a page after a cut; two sectors to a
page (bd_store) make requests that begin or end inside one. The requests name
a single sector, an unaligned run across blocks, a whole block, and a run past
the end of the device. Two values tell new data from old; in bd_worn data does
not matter and there is one.

bd_faults keeps `StoresData` because there is a spare block more than there are
failures. With one less, as in bd_rewrite, a zone runs out of free blocks and
the rewrite in place breaks it. The failure left out of bd_faults is an erase of the
old block that fails with EIO (section 6). With two failures, bd_worn gets to a zone with no
free block and checks what holds there.

*xD driver.* Three places for a card let one be freed, one be in use and one be
identified. A block request of two commands of two pages makes handlers install
each other and a command be retried in its middle; two events are a
failure or late answer together with a media change, sleep or format.
`ThreadFails` is off: where the format thread cannot be created, the queue stays
stopped and the card marked as being formatted, and `XdComesToRest` does not hold.

*MemoryStick core.* Two places: the registered card and the one being
identified. Two tries tell one count of retries from two; one
media change can come at any step of two requests. `SlowTasklet` is off: a tasklet
that was scheduled while the loop that issues requests had the lock finds that loop
done with the request; if it may come later still, `ReqAlive` does not hold.

*mspro_block.* One or two segments of one or two pages, every way in which a
segment ends before or after the card does; two faults are an error and
another one in the handling of it; one busy answer (`MaxBusy`: see Fairness). The queue is stopped by
the media check, which waits for the request, by a sleep and by a removal, which do not. Identification has pages of three bytes
and attributes that lie inside one, end one, cross one, are empty, or are out of
order; two errors make the fallback to serial mode fail too.

*ms_block.* Blocks of three pages, so that a read of all has a first, a middle and
a last; reads of one, of two and of all three; one error and two waits per request. Two requests show what one
leaves for the next (the window, the count of waits). `SlowPages` is off:
a page that comes after the driver has asked for it is taken though it is not there, because
`h_ms_block_data_get_int_r` sets its count back where it should ask again.
`HalfDone` is off: a command that fails does nothing; with it, the driver does
not know which registers the card shows.

*SD.* Segments of 3 and 3, or 1 and 7 bytes with blocks of 2 leave a block in
two segments and one byte to be carried; DMA runs of at most 2 blocks make a
transfer of more than one run. `LateTasklet` is off: the tasklet
takes the lock before another event can schedule it once more.

*FIFO.* Eight lists of pieces, of whole words or not, a FIFO of two words.
`WordInBetween` is off: a word that arrives between the last look at the EMPTY flag
and the read behind it is lost. *Slots.* Two, the least that share a register; `OneThread` is on:
the core calls `set_param` from its single work queue, and nothing else keeps
two of them apart.

*ftl_simple.* Two logical blocks on three physical ones: one to write to while both
are mapped, and none where two are special. Three pages, so that there is a page
between the first and the last. One trouble, at any point of two requests: a page, a whole
block, the end of one block and the beginning of the next. `BITS_PER_LONG` is 1:
`bitmap_region_empty` is wrong for a region inside one word (section 6), which with words
of one bit there is not, so run ftl shows what the layer keeps when the answer is right. With
longer words `DataKept` fails in the mode in which pages are written in any order, which only the
device of `test/test_ftl.c` has: a page is written twice without an erase. *Block devices.* Two that share the layer, two requests, one sleep. *Map.* Two keys, three nodes, two callers.

*Allocator.* Two blocks are enough for a zone's selected map to run out while the
other has a block, and for the maps to change roles with blocks held in
between; two zones show that one does not disturb the other.

*TI adapter.* Two sockets make the loop of the work item take one after the other,
with changes between, and let good and bad sockets meet in a resume. One
eject, sleep and event each, all interleaved; two changes, for one that arrives while
the last one is served. With cards in both sockets and everything else as well the states are too
many: the one part of run tifm has them in one socket, the safety properties being
proved for any number (section 4). Options that are off, and why:

- `SharedLine`, `RegisterFails`, `ChangeOnResume` in part `live` of tifm. On a shared line the
  handler can acknowledge a change it has not recorded, a device may fail to
  register, and a change during resume is taken for a power-up:
  in each case the code does not bring cards and devices together until the
  next change. Nothing in the repository says otherwise. The safety
  properties are checked with all three on.
- None where `KeepsDevice` is checked (run cards): two sockets, a shared line, power-ups as late as
  they like. But a power-up event later than the wait is taken for a change and the device is
  replaced; and the wait may end early, with the event of another good socket or an interrupt of
  another device of the line (tifm_7xx1.c:70-71). The run follows the behaviours in which this does not happen,
  `PowerUpsSeen`: when a resume takes the good sockets out of the change set, each of them has reported.
- `EjectOnRemove`: `tifm_eject` reads `fm->eject` without the lock; `NothingLeft` does not
  hold with it.

The MemoryStick and SD type are one model value in these runs; a device of the
wrong type is a change of `card` between types, which takes two changes, and
whose effect on the code is the same as removal and insertion.

`CHECK_DEADLOCK FALSE` is set for all but the runs of flash_bd alone: once the bounded
environment has used up cards, requests and sleeps, an idle driver has nothing to
do, and a removed one does nothing. flash_bd never stops.

### Fairness

All is weak fairness: nothing that is enabled for ever is passed over for ever.
What users, cards and the system do of their own accord (requests, errors,
media changes, sleep, power loss, the start of a removal) is never fair.

- `FlashBd!FairSpec`: the caller runs a request to its end
  (`xd_card_try_next_req` loops until `flash_bd_next_req` ends it) and a mounted
  card is scanned by a loop.
- `Tifm7xx1!FairSpec`: a level triggered interrupt is served, the work queue runs
  its work, a call that has begun returns, a resume follows a sleep, a powered-up
  socket reports.
- `MemstickHosts!Fairness`: one condition on all that the system does: holders of
  spin locks go on, interrupts, tasklets and timers are served, the work queue runs. Some of
  it happens while any can; since all of it is finite between two events from
  outside, that is enough. `MemstickAnswers` is stated for the JMicron host; the TI host replaces
  its submit function before the work queue is flushed, and a check in between waits
  for ever.
- `MsproBlock!Fairness`: driver, host and queue go on. Of the card it is assumed that it is not busy for ever: the code
  asks for INT as often as it answers neither BREQ nor CED (mspro_block.c:564-565, 623-626), each answer ends a
  command in time, and no timer counts them. `MaxBusy` is this assumption, and with it `EveryRequestEnds` holds; `TifmSd!Fairness`: tasklet, timer and the
  adapter, which removes the card it was asked to eject; nothing is asked of the
  card. `MtdxBlock!MbFairness`: the device below asks when woken, a queue that is to run does, sleep ends.
  `FtlSimple!Fairness`: the device below asks and ends what it was given, the work item runs.

Where a cycle of single steps would make liveness costly, the run
checks invariants that come to the same for a bounded activity: that something of
the system is enabled while work is left (`XdGoesOn`, `GoesOn` of `MsproInit`, `Ends` of `MsBlock`), and
that the number of transfers is bounded (`Ends` of both). `XdGoesOn` alone does not exclude
that the system goes round for ever.

## 4. What is proved

All for every value of the constants that satisfies the named assumptions
(`GeometryAssumption`, `PageAssumption`, `MediaAssumption`, `ZoneAssumption`, `InvalidAssumption`,
`MemstickAssumption`, `XdAssumption`, `NotADevice`, `FtlAssumption`, `ShapesAssumption`, `MapAssumption`: sizes and the number of tries
are positive, sentinels are no blocks and no cards, at most as many logical blocks as physical ones, and
mtdx_block.c asks for nothing that is not on the device).

- The lemmas at the start of `FlashBdProofs`: what each operation on the maps does to free_cnt, data_map,
  erase_map and block_table (types, and that `LutOK` is kept). The hard part is
  cardinality: `free_cnt` is the number of free blocks of a zone, and each lemma adds or
  removes one block of a finite set.
- `BdMapsAgree`: `FlashBd` keeps the maps in agreement: free_cnt counts, no two
  logical blocks share a block, none is mapped and free, whatever fails.
- `BdCleanIsErased`: if an erase of the old block that fails with EIO is not among `Faults`, a block
  the maps call clean is erased on the card.
- `BdTypeOK`, `BdWriteTargetErased`: positions, counts and commands of flash_bd's handlers stay in their
  ranges, for any geometry and any failures; a block is erased when it is written, with two exceptions.
  One is again that erase. The other is `InPlace`: with no free block in the zone a logical
  block is written over where it is (see bd_rewrite).
- `BdWritesErased`, `BdTmpIsFilled`, `BdLossNeedsFault`, and the refinement `BdStoresData`: with `Reliable`
  (below), `WriteTargetErased` without exception, the other invariants of flash_bd, and that `FlashBd`
  implements `LogicalStore`.
- `BdNoConflictSeen`: in no scan does `flash_bd_set_full` meet a used block, so
  that `xd_card_resolve_conflict` cannot be reached (see bd_conflict).
- `AllocTypeOK`, `AllocFreeOnce`, `AllocEraseStateTrue`, `AllocOncePerRound`: all
  properties of the allocator in run cards.
- `AdapterTypeOK`, `AdapterSlotRegistered`, `AdapterIrqComesBack`,
  `AdapterChangeQueued`, `AdapterCompletionLives`, `AdapterNothingLeft`: all
  invariants of run tifm, for any finite set of sockets; the last one if
  `EjectOnRemove` is false.
- `AdapterKeepsDevice`: the action property `KeepsDevice` of run cards, for any set of sockets, on a shared line or
  not, with any sleeps, events, failing registrations and a removal, in every behaviour in which no power-up is
  taken for a change: `Spec /\ []PowerUpsSeen => KeepsDevice`.
- `MsReqAlive`, `MsOwnCard`, `MsTriesBounded`: all invariants of run memstick, for any
  number of cards, tries, requests, media changes and sleeps and with either host, if
  `SlowTasklet` is false.
- `MbDevicesServed`: the invariant `DevicesServed` of run ftl, for any set of block devices,
  requests and suspends, and a removal that starts at any point and goes on between any two steps of submits and
  of commands that end.
- `FtlOneUser`: the invariant `OneUser` of run ftl, for any zones, blocks, pages and requests, in
  every mode of writing, with commands that fail and with restarts and formattings at any point.
- `FtlMarkIsTrue`: `MarkIsTrue` of run ftl, for any zones, blocks, pages and requests, in the two modes of
  writing the card drivers have, upwards and a block at once. In the third, any order, it is false for words
  of more than a bit (section 6): a region that holds all marks of a word is taken for an empty one, and
  its pages are copied, filled and not marked; run ftl checks it with words of one bit.
- `FtlDataKept`, `FtlReadsRight`: `DataKept` and `ReadsRight` of run ftl, for any zones, blocks, pages and
  requests, where pages are written upwards, the mode that merges, copies and marks pages, as long as no
  command has failed and nothing was restarted or formatted. What failures and restarts leave, and the mode in
  which a block is written all at once, run ftl checks.
- `LongMapKept`: `MapKept` of run ftl, for any keys, nodes and callers of `long_map_prealloc` that allocate
  at the same time.
- `ProPagesInStep`: of a block request of mspro_block, `PagesInStep` of run cards, for any lists of segments and
  of errors, busy answers, with stops, sleep and removal.
- `IniIdentityKept`: the identification of a MemoryStick Pro, `IdentityKept` of run cards: for any card, host,
  attributes, errors, users of the disk and sleeps. That it takes a bounded number of transfers is part of it.
- `JmAdapterRight`: for any number of slots of jmb38x_ms, `AdapterRight`, the part of `PartsRight` that is about them,
  if `OneThread` is true.
- `XdUsersAlive`, `XdOneAsker`: the invariants `XdAlive` and `XdOneAtATime` of run xd_card, for any
  set of cards, any kinds of requests and numbers of retries, pages, events and blocks, with ejections,
  sleeps and a removal at any point. The first says of the host's request, `host->card`, the cards of the media check, of a
  removal, of the format thread and of its file that they are allocated, but for the window `Forgotten`. As in the run, memory for a card is found while a place for one is left.

`MapsAgree` is not inductive. `FlashBdProofs!IInv` adds what the handlers rely
on from one to the next: where a handler or command is in progress, its
destination is taken (in `data_map`) and mapped by nobody but the logical block
being written, its source is what that logical block maps to until the block is
committed and mapped by nobody after; and in a scan the blocks not reached
yet are in no map. Each handler establishes this for the one it installs. For
the allocator `AllocInv` adds `GivenIsNotSelectable` (a block handed out is not in
the map searched next) and that held blocks have their erase bit set.

`FlashBdProofs!Sized` is a second invariant, for `BdTypeOK`: what the handler in progress has asked
for (`Asked`: which command, of which block, for how much), what an answer then means (`Answered`), and that the
part of the request at hand (`AtWork`) lies within one block and one zone. Without it the
counts that a handler adds up from answers have no bound. `Erasable` follows a new
destination from the moment it is chosen: it is erased, or an erase of it is the
command at work, until it has been written.

`FlashBdProofs!Reliable` says of which cards and failures the rest is proved:

- the power stays on, an erase of an old block does not fail with EIO (both are hazards
  that break the array, see section 6), and a card on which commands have failed is not mounted again: after a failed
  erase two blocks claim one logical block, and a scan may take the older one;
- a zone has a block for each logical one, one to write to, and one for each bad or reserved
  block and each failure there may be (`MaxFaults`). With fewer, a block gets rewritten in place;
- a new card has been written by a driver that did not lose power: no two blocks claim a
  logical block, and none that claims one was written in part.

The instances of bd_store and bd_faults satisfy it. Under it `Kept` is inductive with `Sized`, `IInv` and
`Erasable`. `Sound` is about the maps: `Fine`, what is mapped was written in full, for that logical
block; `Found`, what claims a logical block is mapped to it, so that a scan finds the same again;
`Counted`, the blocks wasted so far do not exceed the failures so far, of which `HasFree` makes a free block
wherever a handler looks for one: this is the argument on cardinality that the whole proof hangs on. A block held by
the request at work (`Held`), and a failure that has been told but has not cost its block yet
(`Pend`), are counted apart. `Ready` and `Result` say what `t_buf` holds when a command is issued and
when it is answered: the old block, then the old block with the request's sectors in it. During a scan the
same is said of the part that has been scanned.

In the refinement, a step is seen in the array in two places only: a command that hands pages
to the request is a read (`ExecuteSeen`), and the handler that maps a block it has written is
a write of that block's part of the request (`CommitSeen`). `RunPlace` and `SectorOfRun` take the sectors of a request to their blocks and
back. All other steps are not seen (`NotSeen`); of a step of the scan that is so because `Home`,
the block that claims a sector, is what the scan will map (`ScanSeen`, `RemountSeen`).

For the adapter, `IInv` says where the work item is when a device and its slot
differ (`SlotEmptied`, `DeviceHasSlot`), that a masked interrupt with an idle
work item leaves a change set that is not empty (`IrqHeld`: an empty one would
make the work item return without unmasking it), and what each stage of the
removal has shut down (`ShutDown`). The loop over the change set takes the least
socket first; that it exists follows from the well-foundedness of `<` on the
naturals (`MinExists`).

`KeepsDevice` needs a second invariant, `Settled`, for as long as no card has been touched. What is known
of a socket is in one place (`KnownOnce`): its power-up is to come, the chip has latched it, `change_set` has it,
or the work item does. A socket whose card has its device is known in none of them, except from
the start of a resume until `tifm_7xx1_resume` takes the good sockets out of `change_set` (`SettledKnown`); and
by then its power-up must have been reported. This last is the hypothesis `PowerUpsSeen`: with
two good sockets the first power-up completes the wait, on a shared line or with a slow power-up the
wait ends before it, and what comes later is taken for a change. The device is then replaced: the
hypothesis is what the code relies on. It says nothing of devices or of who registers them; that
these are kept when it holds, through the work item, the handler and the stages of sleep, is the proof.

For the MemoryStick core, `MemstickProofs!IInv` says whose turn it is. `CardIs` says which card
`host->card` is at each step of `memstick_check` and that `DriverHas` no request then;
`OneAsked` says that a host which has been asked, holds a request or runs the loop of
`memstick_next_req` does it for the one who waits for `host->card`, so that a check that
is answered, and frees the card, finds the host done with it; `Counted` adds up tries made, tries
left and the one to come. A timer that is late is harmless because it finds either no request
or the one of whoever waits now. `TifmEnds` is needed because `tifm_ms_remove` frees the cards
while the host is still there: it has drained the request and the tasklet before. With `SlowTasklet` a
tasklet scheduled from the end of one request may still be pending when the next is over: the host then
asks for nobody, and `OneAsked` does not hold.

For the block devices of mtdx, `MtdxBlockProofs!IInv` adds to what is proved: `InHand`, where
`get_request` is says what it has, and the request it has is the first in the queue of its device
(without that `mtdx_block_end_request` would end another one); no device is in the queue of devices
twice (`NoTwice`: `mtdx_dev_queue_pop_front` gives back one reference); `OwnRefs`, whose references
`usage` counts; and `Drained`, what each stage of the removal has put an end to, from which
`RemovedIdle` follows. The removal has six stages (`ftl.rm`): `ms_block_remove` forbids the device below to ask
(`stop`), `ftl_simple_remove` puts the dummy in the place of `new_request` and empties the queue (`wait`), waits
until the layer has no request (`drop`), and the children are removed one at a time (`Eject`, `CleanUp`) before the data
are freed (`gone`). No lock keeps a submit out that has fetched `new_request` before: it may put its device in the
queue at any stage, and what ends it is that the block layer lets a request function finish
before a queue is cleaned up. The end of a command and the next `get_request` are two steps (`ended`), and
the wait can pass between them; the device below then does not ask again, which is all that `RemovedIdle` needs.

For the translation layer, `OneUser` says nothing of the functions that `ftl_simple` has yet to
call, and is not inductive: that the destination of a write is nobody else's when it is mapped, and the old block no
longer mapped when it is given back, depends on the order in which they stand on the stack.
`FtlSimpleProofs!IInv` says which stacks there are (`Stacked`): functions that leave the table alone (`Early`),
then the one after which the block is mapped (`Commits`), then, when the old block is to go, its erase
(`Body`, `Copying`), or a function alone (`Single`). Under a stack that is still to commit, `Fresh` holds:
the destination is in nobody's hands and the source is what the table has; when only the erase is left,
`Gone`: the source is in no entry. `Waiting` says that a write which waits for a node of the page map keeps
both, with an empty stack. In a scan (`Scanning`) what has been entered so far bears the label it is entered
under, and a block not reached is neither free nor mapped; so a block that is looked at is
nobody's, and a conflict is between two blocks with one label, of which either may go. Restarts need nothing
more than that a fresh table is empty.

`MarkIsTrue` needs more of the stack than that, its order (`InOrder`): the end of a block is read before the
block is erased, nothing is copied into it or written before that, and what is copied is copied before the old block
goes. With it `WorkRight` says what the write in progress may count on: the pages of the destination after
those written are erased or fill, unless its erase is still to come (`High`), and what the buffer holds for
pages nobody has marked is fill (`Buffered`). `MarksTrue` is `MarkIsTrue` for all blocks but the destination;
`MapsRight`, that no block with marks is free, is why a new destination has none, and that its zone is
valid is why a scan frees none. `Good`, that nothing has failed, excuses it as `MarkIsTrue` does. Where blocks are written all
at once there are no marks (`NoMaps`): a node is asked for by a write that is suspended, and none is.

`DataKept` and `ReadsRight` say nothing while a write is on its way, and the data of one are in three places: the old
block, the buffer and the new block. `FtlDataProofs!DInv` takes the invariants above and adds `Kept`, which
is `DataKept` without the logical block being written, and for that one `WorkData`, which goes through the stacks
of a write, from whole to empty (`MergeData1`, `WriteData1`, `CopyData1`): up to which point the source has all
pages (`SrcRight`), from which on the buffer those before or behind the new ones (`BufFirst`, `BufLast`), and
from which on the destination (`FirstDone`, `DataDone`, `LastDone`); `FirstComes` is for the command on its way
that writes the first pages from the buffer. The marks are used here: the code leaves out reading what
nobody has marked (`NoMarks`, `NoneAfter`), and `NothingIn` says that nothing was written there. For a zone not yet
scanned `Pristine` says that each logical block has at most one labelled block, which holds its data, and
`Entered` that the scan has put in the table all it has come by: with no failure there has been no write to
the zone, so no two labels agree. `ReadRight` ties a read in progress to the table, and `GotRight` what was returned
to what was written; a write from above forgets what was returned before (`Asked`). The assumption is
`FtlAssumption`, with a natural number as `MaxRequests`, as the content a page has from before the first
request is told apart from what the requests write by a number.

For the xD driver, `XdCardProofs!IInv` is about the one request slot of a card that three parties use.
Its heart is `AskedFor`: a card that is asked for something is `host->card`, the host has no request of
another one, and behind it is just one of a block request, the format thread and the media check.
`Serving` says the same from the host's side, while it has its lock and runs handlers. Who may
free a card is in `Removing` (where `xd_card_remove_media` has got to, and that the queue and the format thread
have stopped before the card goes), `Counted` (opens and the registered disk are references; the last one
to go finds no request) and `Formatting` (the thread has the mutex, or is being waited for, and its card
stays until it ends). `CardKnown` ties these together: a card that has been ejected and is still there is
the one being removed. `ShortAddr` is the second half of `XdOneAtATime`, with
the step in which `init` hands an erase to its handler.

For `long_map`, `MapInv` adds to `MapKept` what makes a lookup safe: every node in the tree, and the one used
last, bears the key it is found under (`KeysTrue`), and a caller has nodes in hand only while it allocates
(`HandsEmpty`), so that two callers never hold one node. Moving a key to one that is in use, and taking
the tree apart, are the steps where a node could be lost; `MapKept` says none is, with the nodes of the
tree, the retired ones and those in hands as three sets that do not meet.

For mspro_block, `ProPlace` says which function stands in `handler` while which command is with the host, and that
driver and card are then at the same page (`Place`). The driver counts pages by segments and the card by pages of the
request; that both agree needs the sum of the segments before one of them, a recursive function, whose existence
is proved from the well-foundedness of `<` (`AddsExists`, `AddsUnique`). For the identification,
`IniPath` says in which stage the card has been told which mode, `IniAttrs` how far the attributes read are those
of the card, `IniUse` who counts as a user of the disk, and `IniCount` bounds the transfers by the
stage: this is why falling back to serial mode ends. For the slots, `JmStage` says what probe and
removal hold at each of their steps, on the paths of failure as well, and `JmDelays` that a delay which has been
read is still the register's when it is written back; that is where one thread is needed.

What is not proved, and stays with TLC:

- liveness (`RequestEnds`, `EveryRequestEnds`, `MemstickAnswers`, `RequestsEnd`, `LiveCardSeen`,
  `LiveRemoveEnds`), and what is about ENABLED: `XdComesToRest`, `GoesOn` of `MsproInit`, `Ends` of `MsBlock`;
- what the operators of `XdFormat` and `MtdxData` calculate: their definitions recurse over data;
- the data of ftl_simple (`DataKept`, `ReadsRight`) after failures and restarts and where a block is written all
  at once, `MarkIsTrue` where pages are written in any order, and
  what `PartsRight` says of the SD host, ms_block and the FIFOs.

## 5. What is not modelled

`PROJECT.json` gives the reason per component. In short:

- `mtdx_adv/ms_block.c`: writing and copying. After the last page of a write page by page,
  `h_ms_block_cmd_get_int` ends the request and goes on with it (line 1216), and a write of several pages asks
  for the interrupt for ever: a model of it would be one of a driver that is not finished. Formatting, and how
  it and `stop` wait for requests: nobody wakes them (line 2214). Identification.
- `driver/ms_block.c` and `driver/flash_bd-pp.c` are not built; `mtdx_adv/xd_card.c` is a
  stub; the user space tests, `reveng/` and `linrev/` are no part of the program.
- Register accesses, power sequences and DMA set-up appear as what they do. Probes of
  drivers whose module begins with a bound driver are initial states (`Tifm7xx1`, `TifmSd`, `Memstick`, `XdCard`).
- sysfs attributes that only read; registration and matching of drivers on a bus, which the driver
  model does.
- Memory that cannot be allocated while a card is identified: it ends as a transfer that fails does, except
  for the `struct xd_card_media` itself, whose failed allocation hands NULL to `xd_card_free_media`
  (xd_card_blk.c:2601, 2720, 2587).
- Opening a disk in `xd_card_bd_open` before its mutex is taken.
- Identification within a resume. The repository's own Makefile (driver/Makefile:15) defines
  `CONFIG_MEMSTICK_UNSAFE_RESUME` and `CONFIG_XD_CARD_UNSAFE_RESUME`; without them, which is what `Memstick!Resume` and
  `XdCard!Resume` model, resume only starts the queue and has the media checked. With them mspro_block_resume
  (mspro_block.c:1376-1417) and xd_card_resume_host (xd_card_blk.c:2860-2872) identify the card at once. What
  the identification of mspro_block does then is in `MsproInit`; what it does to a
  request that was on its way, whose handler it replaces so that `has_request` stays set, is not modelled, nor is the
  check that xd_card_blk leaves out if the card is the same.
- What follows once the program reads through a bad pointer. `TifmSd!Abort`: a timer that fires when its request has
  just ended reads through NULL (tifm_sd.c:783). `XdCard!NewReq`: between the two stores of xd_card_blk.c:1776-1777 a pending
  tasklet may call the handler without a request (733-736). `XdCard!KStop`: the format thread may have
  left by itself, and be freed, when it is told to stop (2738, 2746, 2143-2150).
- A mount that fails because a page holds a logical address the zone does not have (flash_bd.c:273,
  xd_card_blk.c:2041).
- The composition of `XdCard` with `FlashBd`, and of `MsproBlock` with `Memstick`: each takes what the
  other does as chosen freely, since they share one variable, the request.

## 6. Disagreements of code and documentation

With a run that shows them:

- bd_rewrite: the erase bit of a written block stays set; rewritten in place for
  want of a free block, it is not erased first.
- bd_conflict: `flash_bd_set_full` tests the physical block where the logical one is
  meant, so a conflict left by a power loss is neither seen nor resolved.
- ftl_clean: a block written in part is put back as an erased one, since the flag
  `ftl_simple_end_abort` passes on is inverted.
- ftl_upwards: of a block that must be written upwards the map keeps how far it has been. A write below
  that moves the block and fills it to its end, and the mark stays: the next write above the mark
  programs pages that have been programmed.

Without one, each recorded in the model where it happens:

- flash_bd.c:629: a full block written to a zone without a free block is written
  from the temporary buffer, which nobody has filled. flash_bd.c:664: an erase of an old
  block that fails with EIO leaves the block recorded as clean.
- xd_card_ecc.c:131: the code read and the code calculated are compared with bits above their
  three bytes, and are never equal. xd_card_blk.c:831: `xd_card_copy_tmp` does not
  look for the end of a segment inside a page.
- ftl_simple.c:1159: a write of part of a block that continues the last one returns before its
  label is made. ftl_simple.c:262: a bad block found again by a scan becomes
  unmapped. ftl_simple.c:1434: after a formatting the zones stay valid.
- mtdx_bus.c:476: a region inside one word of a bitmap is looked for outside of itself (`RegionsRight`
  says what the answer is). `ftl_simple_can_merge` believes it.
- ftl_simple.c:1400: a submit that comes after the queue has been emptied leaves its reference and its place in the queue;
  the reference held for `req_dev` is never given back by a removal; and a device that is in the queue already gets another
  reference, for which there is one place (mtdx_bus.c:419-433). Cards that go leave devices behind.
- ftl_simple.c:1641: if the device below stops asking while a request is half done (ms_block.c:880), nobody ends it, and
  the removal waits for ever. ms_block.c:1694: after the wait has passed, `h_ms_block_req_init` looks at `msb`,
  which may be freed by then (`ended` with `rm` = `gone`).
- xd_card_blk.c:193-195: a user whose write is refused has been counted, and the card is never freed.
- ms_block.c:986: a read page by page ends without its error; only the count tells. ms_block.c:1381: see the bounds.

## 7. What is left

In this order:

1. `MsBlock`: stop, start and formatting, as a model of who waits for whom; then writing, once the
   code decides how it ends.
2. Theorems: `DataKept` of `FtlSimple` after a failure; `DataInPlace` and `GoodIsMoved` of `TifmSd`.
3. Liveness of the xD driver under the fairness of its host, in place of `XdGoesOn`.
4. `XdCard` with the handlers of `FlashBd` in place of free choice, on a card of two blocks.
