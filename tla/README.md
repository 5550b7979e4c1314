# A TLA+ development of EbbRT

EbbRT (`src/sys`) is a bare-metal library OS: an event-driven kernel in C++ for
multicore virtual machines. The repository has no documentation of its own and no
tests; what it says about itself is in comments, `kassert`s (checked in debug
builds) and `kbugon`s (always checked). This directory models the parts with
state that several cores, interrupts, a device or the hypervisor work on, checks
them with TLC, shows that the event loop implements an abstract scheduler, and proves
with TLAPS, for instances of any size, that refinement and every safety property of the
passing runs: of the event loop, the early, page and slab allocators, the start of the
cores, the virtio ring, the timers, the network manager and the clock.

## The system

| Component | State | Operations | Hard because |
| --- | --- | --- | --- |
| **EventManager** (`event_manager.*`, `stack.S`, `isr.S`, event gates of `idt.cpp`) | per core: `stack_`, `free_stacks_`, `tasks_`, `vector_map_`, the interrupt stack entry | `SpawnLocal`, `SaveContext`, `ActivateContext`, `AllocateVector`, the loop `Process`, `ProcessInterrupt` | stacks change hands between events and cores; interrupts never return; halt must not miss a task |
| **PageAllocator** (`page_allocator.*`) | per node: lists of free blocks by order; usage and order in the memory map | `Init`, `Alloc`, `Free` | coalescing trusts marks that are never cleared; any node frees any block |
| **SlabAllocator** (`slab_allocator.*`, `slab_object.hpp`) | per cpu and per node caches, remote lists, slab headers | `Alloc`, `Free`, flushes, remote frees, the root's destructor | objects freed by other cpus go home in batches over shared lists |
| **Slab roots, general purpose allocator** (`slab_allocator.*`, `general_purpose_allocator.hpp`) | the numbers of each object size; a slot for each cpu's and each node's allocator; representatives | `slab_init`, `Construct`, `HandleFault`, `get_cpu_allocator`, `get_node_allocator`, `Init`, `Alloc`, `Free` | allocators are objects of allocators; two cpus construct a node's at once; sizes at the boundaries of orders and batches |
| **ApicTimer** (`timer.*`) | the ordered `timers_`, the one-shot timer | `Start`, the interrupt handler, `SetTimer` | time passes during callbacks; rounding; late and early interrupts |
| **Vring / VirtioNet** (`virtio.hpp`, `virtio_net.*`) | descriptors, available and used rings, event indices | adding buffers, processing used ones, kicks, interrupts | the device runs beside the driver |
| **Clock** (`clock.*`) | the hypervisor's versioned time structure | `clock_init`, `clock_time` | updates during the read |
| **VMemAllocator**, page tables (`vmem*`, the stack fault handler of `event_manager.cpp`, `pci_bar::map`) | `regions_` under one lock, a top-level page table per core | `Alloc`, `HandlePageFault`, `map_memory` | faults while the lock is held; stacks move between cores whose tables differ |
| **SMP start, Ebb translation** (`smp.cpp`, `boot.S`, `trans.*`, `spinlock.hpp`, `multicore_ebb_static.hpp`) | list of boot stacks, translation page of each core, barrier counters | `smp_init`, `smp_main`, `EbbRef`, `spin_barrier` | cores start beside each other on shared tables |
| **Early allocation** (`early_page_allocator.*`, `main.cpp`, `numa`, `mem_map`, `e820`) | tree of free page ranges | free, allocate, set node, hand over | unaligned regions; ranges split between nodes |
| **NetworkManager** (`net.*`, handlers of `virtio_net.cpp`) | interfaces, the context waiting for an address, `Tcp_pcb`s | `Init`, `NewInterface`, `AcquireIPAddress`, `eth_output`, `ReceivePacket`, `Tcp_pcb`'s operations, lwIP's callbacks | a callback wakes a saved context; lwIP, the driver and the device share counted pbufs; pointers both ways between `Tcp_pcb` and lwIP |
| gthread, newlib glue, console, ACPI, PCI, NUMA, boot code | mostly written once at boot | | |

They interact by calls: the slab allocator takes and returns blocks of the page
allocator; `AllocateStack` takes regions from VMemAllocator; timer and virtio
handlers are events of EventManager (which is why `ApicTimer` and `Vring` may treat
a handler as uninterrupted by other events of its core); `NetworkManager` waits by
`SaveContext`. `PROJECT.json` lists every component with its status, and under
"hazards" what is hard to test in this code, with the properties aimed at it.

## Modules

Definitions carry the source's names; `PROJECT.json` "map" gives the lines each one
stands for. Definitions named after a mistake (`...Skipped`, `...Late`,
`...Not`) are the mutants of the definition below them: each property is shown
to fail when that definition is replaced.

**EventManager**. One variable per member of the class, as a function of the core.
The control state `pc` of a core is where `Process` is: the `sti;nop;cli` window
("process"), past it ("checked"), in an event ("run"), at `sti;hlt` ("halt").
Interrupts are pending per vector in `irr` and are delivered only in the window and
at the `hlt`, onto the stack `ist` names, as IST entries are. An event is an
identity whose life is `phase`. `frames`
records whose live frames are on each stack; the machine knows this only as bytes
of memory, and the properties are about it. A context is activated once, by
any core, as its holders do. The workload is endless (identities are reused)
or ends (`Endless`).

**EventScheduler** is what the event loop promises, without stacks, contexts, vectors or
interrupt tables: sets of ready events, what each core runs, what is saved. `EventManager`
instantiates it. The mapping does not read the bookkeeping (`phase`) but the machine: what
a core runs is what has its frames on the stack the core is on, what is saved is what has its
frames on the stacks the contexts name. So a stack used by two events, or a context that
returns into another event's frames, is a step the scheduler does not have.

**PageAllocator**. The lists, the usage and order of each page, and the blocks that are off
the lists. `Init` computes the split of the ranges by the code's two loops. A node's lock admits one
operation at a time; `op` says which and where it stands: `Alloc` takes a block off its list, then `Split`
gives halves back and marks the page; `Free` is, for each order, `Test` (the buddy's marks) and `Erase`
(unlink it, raise the order), and at last `Push`. The steps of different nodes interleave, and the
buddy that one tests and erases may be on a list of the other, whose lock it does not hold. When an erase
finds the buddy on no list, or another node at work in that list, the outcome is undefined: it may go
through or fault, `raced` is set, and the model ends. A step is as fine as one access to what nodes share:
`Test`'s two loads and the stores of one push, pop or erase are together, since a state between them only shows to
another node's `Test`, and what that reads of half-written marks leads to nothing but an erase that
races. Callers free what they were given.

**EarlyPageAllocator**. The boot core alone, so an operation is a step; what matters is
the arithmetic and the long sequence. A machine (what the firmware says) is drawn in
`EarlyInit`; the loops of `kmain`, `numa_init` and `mem_map_init` visit their entries
in the code's order. Addresses are finer than pages, so that unaligned ends occur. How
many pages `early_map_memory` takes for tables is left open up to a bound.

**BootMemory** (MCBootMemory) composes the two: `PageAllocator::Init` receives the ranges the early
allocator really ends with. MCPageAllocator has the page allocator alone, over every range of one node, or
over two adjacent ranges of two.

**VMemAllocator**. The regions, the frames the fault handlers keep, and the page
tables as the code shares them: a core's `cr3` names a top-level table, whose entry for
this part of the address space names what is below it. A stack grows into its next page
(`Touch`) at any moment, in `Alloc` too. The fault handler itself runs on another stack. Each `kbugon`
and `kassert` that ends an operation is a value of `aborted`.

**SmpStart** (MCSmpStart) extends it with the start of the other cores, from the trampoline's
compare-and-swap to the barrier, and with events that make stacks move. Which stacks may
move is `EventManager`'s business; here any stack no core runs on may go to any core. Of
the Ebbs only `event_manager` is followed: it is the one whose construction allocates.

**SlabAllocator** (MCSlabAllocator). One object size. A cpu stands for its own cache, a node for the
node's. Steps are cut at accesses to what is shared: the remote lists,
`remote_check`, and the node caches under their lock. Lists are sets. The root's destructor
(`Destroy`) runs when no cpu is in an operation, over all caches in the order of its loops. An object's slab
is a component of the object: that `addr_to_slab_pfn` finds it by alignment holds only of aligned blocks
(`pages_alignment`). The batch may be 0, as it is for objects above 64 pages.

**SlabRoot** (MCSlabRoot). The roots, with the real arithmetic of `calculate_order` and
`calculate_freebatch` on real sizes, and who constructs which allocator when. An allocator is
known by its `root_`; a node's allocator lives in a block of memory, which a delete
gives back to be used for another. `got` remembers what the last operation of each cpu
allocated, and from which root; `lost` that a compare-and-swap failed. Allocations fail at any point:
`operator new` throws, or the constructor of a representative does, where `operator delete` aborts.

**NetworkManager**. One core, whose events follow one another: `running` says which event has
it, and the steps of the device come in between. lwIP is external: it sends what it
has, again if it likes, drops its references, calls the callbacks. `undefined` is set by a
use of freed memory, and the model ends there; `odd` notes the events from which on the
code is known to get there (see the observations). A message for which the send queue has no room
aborts the kernel. Frames and pbufs are as long as the property
needs: a first pbuf of 4 bytes, others of 5, in place of 1500 and 1516.

**ApicTimer**. Due times are relative to the present, in units of the clock, of which `Us` make a
microsecond; `SetTimer` is given microseconds, truncated. `truncated` is a history variable: the handler
last truncated its remainder to 0, so that a timer left stopped for another reason is told apart. `MaxCount` stands for the 32-bit count register, so that the divider
is used with small numbers. The DCR encodings the timer has are those the code
itself relies on (`0xb` is 1, `0x3` is 16); others fault. The check
`divider > 7` also admits 4 to 7, which set a reserved bit of the register: such a timeout
ends in the abort, like a longer one.

**Vring**. One queue, in either role (`receive`), with the driver's handlers of
`virtio_net.cpp`. Every load or store of an index the other side reads or writes
is a step. The device is external: it takes chains, arms, looks again and sleeps;
gives chains back in any order; signals by the event-index rule. Reading an entry
beyond the used ring yields an arbitrary descriptor.

**Clock**. The loop both functions share. A field's value is the number of the
update that wrote it. The loads between the fences may come in any order.

**EventManagerProofs**, **PageAllocatorProofs**, **BootMemoryProofs**, **SlabAllocatorProofs**,
**SlabRootProofs**, **SmpStartProofs**, **NetworkManagerProofs**, and **HostProofs** for `Vring`,
`ApicTimer` and `Clock`, whose definitions have names of their own for this (`TimerNext`,
`ClockNext`): theorems, below.

**MCCore** puts `EventManager`, `ApicTimer` and `Clock` beside each other for one run. They share no state,
so a behaviour is one of the three (`part`), with its own fairness, while the others stay as they began.

## Runs

Passing:

| Run | Instance | Shows |
| --- | --- | --- |
| `core` | 2 cores, 2 events, 4 stacks, 1 usable vector that wraps, ending workload; 2 timers, a clock of 2 units to the microsecond, timeouts 1, 2, 3 and 16, callbacks of up to 2 units; 3 clock updates of 2 fields; fair | `StacksPartitioned`, `ContextsIntact`, `InterruptStackSafe`, `ImplementsScheduler`, `EveryEventRuns`, `ArmedForFirst`, `CallsSpaced`, `OnlyTruncationStops`, `EvenReadsConsistent` |
| `pages` | 11 pages of 2 units, 72 machines: regions with every alignment of their ends, with and without holes, kernel end aligned or not, 1 or 2 nodes in and against the order of their memory; orders 0-2 | `EarlyPagesDisjoint`, `NoPageLost`, `NodesOwnTheirPages`, `PagesPartitioned`, `CoalescesOnlyFreeBlocks` |
| `slab` | 2 nodes, 2 cpus, 2 slabs of 2 objects, batches of 1, fair | `ObjectsPartitioned`, `SlabAccounting`, `RemoteObjectsGoHome`, `WatermarkSetsCheck`, `DestructorDrains`, `FlushingFreeReturns` |
| `slab_root` | 2 cpus of a node that ask for the memory of another, 2 general purpose classes and a root of any of 16 sizes (one too large), 2 blocks for node allocators | `NodeAllocatorsSound`, `ObjectsLargeEnough`, `RootConstantsFit` |
| `vring` | 4 descriptors, indices modulo 8; receiving for one lap of the used ring, sending messages of 1 to 3 buffers that come back in any order; fair | `DescriptorsPartitioned`, `NoLostWakeup`, `RingsDrain` |
| `cores` | machines of 2 and 3 cores, 7 virtual pages, stacks of 2, one BAR, fair | `RegionsTile`, `StackPagesAgree`, `BootStacksDistinct`, `OwnRepresentative`, `BarrierHolds`, `MappingsStay`, `AllCoresUp` |
| `net` | 2 pbufs in chains of 1 or 2, 3 messages in the send queue, frames of up to 8 bytes, 2 `Tcp_pcb`s over 3 pcbs, up to 2 interfaces and 2 status changes | `ContextUsedOnce`, `PbufsCounted`, `FramesIntact`, `HandlerArgsAlive` |

Violated, each stating what a comment or check in the code says:

| Run | What TLC finds |
| --- | --- |
| `pages_alignment` | `Free` raises the order but never moves to the lower half, so a coalesced block is handed out under its upper half's address (`page_allocator.cpp:118`; `newlib.cpp:116` and `addr_to_slab_pfn` rely on alignment) |
| `pages_race` | `Free` tests and erases a buddy on another node's list under its own node's lock; the other node's `Alloc` may have taken it off, and marks it last (`page_allocator.cpp:128`; the comment at 125 says the buddy is free) |
| `slab_spin` | `remote_check` is never reset: `Alloc` with both lists empty retries for ever (`slab_allocator.cpp:135`) |
| `timer_truncation` | the handler truncates the time to the next timer to microseconds; 0 stops the APIC timer with timers due (`timer.cpp:32`; the comment at 21 says timers repeat) |
| `vring_lap` | the used ring is indexed without `% qsize_` (`virtio.hpp:247`, `290`) |

**Bounds.** Two cores and two events suffice for a stack to travel from one core's
event to the other core's free list while the other event runs; with four stacks the
pool never runs out (two current, one per suspended event). Two units to the microsecond make the
handler's truncation, and its 0, happen; the counter holds one unit, so that longer timeouts are halved, and
16 microseconds are more than the divider reaches. The proofs
cover every other size, and the endless workload. Of eleven pages
the kernel, the memory map and the translation take four or more: what is left reaches every
alignment of a range of up to seven pages against orders 0 to 2, on both sides of a boundary between nodes,
and buddies that belong to two nodes.
Seven virtual pages hold three stacks and a BAR: a stack each for three cores, or a
spare one that moves between two; a fourth finds no space. Batches of one and
slabs of two make flushes, watermarks, full and empty slabs happen within few steps.
Two cpus are enough to race for a slot, and two blocks for a deleted allocator's memory to be
used again under another root; the sizes are those around every change of the order or the batch.
Two pbufs and three messages let one pbuf be sent again while the driver has it and another be
reused; with three pcbs a `Listen` and another object's `Connect` compete for memory. `TypeOK` of
`EventManager` is a property of its own, for the wrap of the vectors; the types of `ApicTimer`, `SlabAllocator`, `Vring`,
`SmpStart` and `BootMemory` are a conjunct of one of their properties.
One lap of the used ring is all that `Vring` can pass, given `vring_lap`; the available ring
goes round, and its indices wrap. Deadlock is checked except where the
instance ends: an ending workload, a kernel that aborts, a destroyed root, a used-up bound.

**Fairness.** Weak fairness of the core's own loop, since a processor executes; of
an event's leaving the core, since events run to completion or save their context;
of time passing and of a pending interrupt being taken, since the loop opens the window
before every task; of the device's side of the ring protocol, but not of
its giving a buffer back; of each starting core and of a core's fault being handled. No fairness is assumed for spawns, interrupts, packets,
calls of `Start`, or the growth of a stack. `EveryEventRuns` needs the workload to end: `tasks_` is a stack,
so under an endless one the bottom task may wait for ever.

## Proofs

`EventManagerProofs` proves, for any sets of cores, events and stacks and any
number of vectors, from the assumptions of `EventManager` (there is a vector that
is not an exception's; `None` is no event and no stack):
`EventManagerTypes`, `StackSafety`, `ContextSafety`, `InterruptSafety`.
None of them is inductive alone. `IndInv` adds: what each core's `pc` says of its
stacks (`CoreInv`: on a started core `rsp`, `ist` and `stack_` agree, and the stack
carries the frames of the running event or none); an event runs on at most
one core (`RunsOnce`); a task is queued once, on one core, in the matching phase
(`TaskInv`), likewise an interrupt (`IrrInv`); a suspended event's context names an
allocated stack that holds its frames (`CtxInv`); free and unallocated stacks carry no
frames (`FreeInv`). With these, an activation finds exactly the stack it saved:
without `TaskInv`, for instance, one context could be activated twice. There is one
lemma per action; `AllocateStackFacts` says what a
new stack is and `StartEvent` what both ways to start an event have in common.

It also proves `SchedulerRefinement`, `Spec => ImplementsScheduler`, under the
same assumptions and over the same `IndInv`: the initial states map to the scheduler's, and
each action maps to the step its name suggests or to none (`NextMaps`). `StacksTellTruth` and `PhaseTells`
connect the frames the mapping reads with the phases `IndInv` speaks of; `PushReady`, `PopReady`
and `TakeReady` say how the set of ready events changes with `tasks_` and `irr`; `LeaveCore` is shared
by a core's ways out of an event. The abstract `Run` removes its event from what is saved, so the
proof needs that an activation's stack carries the frames of exactly that event.

`PageAllocatorProofs` proves `PagesPartitioned` and `CoalescesOnlyFreeBlocks` for any number of pages,
orders and nodes, and any disjoint ranges of any alignment (`PageAssumption`), after each step of the
nodes' interleaved operations. Both properties say what holds until two nodes have met in one list
(`raced`), which `pages_race` shows to happen; `OneNodeNeverRaces` proves that it does not on a machine of
one node, so that there they hold of everything the allocator does. `Free` trusts
marks in the memory map that nobody clears: a page keeps the mark of a block it once began. `MarksInv`
says why a stale mark is harmless: a page marked free lies in a block that exists, and differs from the
page that block is known by in the bit of the mark's order and in no lower one (`Mirror`), so it is never the buddy that
`Free` looks at when the orders agree. `PartitionInv` and `PlacesInv` say that the blocks cover the memory without
overlap and that a block is on one list once or in one operation's hands, `StateInv` the types. `Init`'s two loops are followed as a
chain of splits. The buddies' arithmetic is proved, not assumed: the library knows powers of
two only as numbers of subsets, from which `PowerFacts` takes `2^(k + 1) = 2 * 2^k`.

`SlabAllocatorProofs` proves `ObjectsPartitioned`, `SlabAccounting`, `RemoteObjectsGoHome`,
`WatermarkSetsCheck` and `DestructorDrains` for any cpus, nodes, slabs, objects and batch. The run counts an object's places; `SlabInv` says the
same without counting: the places exclude each other (`Apart`), an object of a slab in use has one
(`Somewhere`), and the list of a node's cache has only its own objects (`NodeListsHome`). To these it adds
the two properties themselves, the types, and that the destructor runs alone (`ControlInv`).
`DrainInv` follows the destructor's loops: after a cache's turn its lists are empty, but for what a cpu
owns itself or the destroying cpu has still to send.

`SlabRootProofs` proves `NodeAllocatorsSound`, `ObjectsLargeEnough` and, as an action property,
that a node's slot is written once (`SlotsWrittenOnce`), for any cpus, nodes, roots and sizes.
`RootInv` adds what is there during boot (`BootInv`), that every root's objects are as large as
those it is asked for (`SizesInv`), which allocators a cpu with a representative has (`CpuInv`), what a
`get_node_allocator` under way knows (`CallInv`, `SlotInv`) and, until a
compare-and-swap is lost (`UntilLost`), that a constructed node allocator is in its slot or with the one
cpu that is about to put it there. Without the last part two cpus could carry the same block.
`ConstantsAlwaysFit` proves `RootConstantsFit` from what `calculate_order` and `calculate_freebatch` find
among the powers of two (`BootRootsFit`: no root constructed while booting is larger than a block of
`MAX_ORDER`).

`NetworkManagerProofs` proves `HandlerArgsAlive`, `ContextUsedOnce`, `PbufsCounted` and
`FramesIntact` for any pbufs, messages, pcbs and frame lengths. Each rests on an invariant of its own:
`TcpInv` (lwIP's pcbs and the `Tcp_pcb`s point to each other), `BootInv` (the context has been activated as
often as the status has changed), `SendInv` (in the middle of `eth_output`, where the count is one short, the
pbuf is in the last message and lwIP still holds it), `FrameIn` and `FramesOut` (what a received and a sent frame contain).

`SmpStartProofs` proves `RegionsTile`, `BootStacksDistinct`, `OwnRepresentative`, `BarrierHolds` and the
action property `MappingsStay` for any number of cores, pages and BARs, and `StackPagesAgree`
with at most one BAR that is smaller than a stack (`OneSmallBar`): a BAR's
region counts as free, so more or larger ones are handed out again (see the observations). `FaultServed`
says that no fault is outside the regions. `SmpInv`
is `TypeOK` and what a core's place says of its tables, its stack and its fault (`CoreInv`); that the regions
are intervals without overlap or gap, each stack is one, and no fault handler keeps all pages of its region
(`RegionInv`); that the list of boot stacks is as long as there are cores yet to pop it (`PopInv`); and that the
barrier counts, releases, or is done (`BarrierInv`). `SmallBarInv` adds that a core has mapped only what the
handlers keep, and the BAR.

`BootMemoryProofs` proves `NodesOwnTheirPages`, `NoPageLost` and `EarlyRangesDisjoint`, the first part
of `EarlyPagesDisjoint`, for any firmware map, any nodes and any page size. `EarlyInv` relates the tree to how far
`kmain` has come: ranges are disjoint and not taken (`RangesInv`), what is free or taken lies in a
region that has been visited (`PlacedInv`), what has been visited is free or taken (`FoundInv`, which says
nothing where nodes are out of order), and a range is inside a block that `numa_init` has visited, or outside
(`OwnInv`). Only with `PlacedInv` is a range that is freed known to be new, which `WithRangeFacts` needs to show that
coalescing adds exactly its pages; only with `OwnInv` can it be shown that, in order, no range reaches over
both ends of the next block, the one case where `SplitAt` drops pages. `BootInv` joins it with `PageInv` over the
hand-over (`HandedOver`): `ReleasedLayout` shows that the ranges the early allocator ends with are
ranges `PageAllocator::Init` may be given, so that all of `EarlyPagesDisjoint` follows, and
`PagesPartitioned` and `CoalescesOnlyFreeBlocks` from the firmware's map on. `BootAssumption` says that the memory
map has a page for each page of the memory blocks, as `mem_map_init` allocates it.

`HostProofs` proves `DescriptorsPartitioned` and `NoLostWakeup` of `Vring` for any
queue size, range of indices and number of buffers, while the device goes round the used ring at most
once (`OneLap`): on the second lap the driver takes an arbitrary descriptor for a used one, as `vring_lap` shows.
Where a descriptor is depends on following links, a recursive function; `StepsExist` and `StepsAgree` make a walk along `next` a function on `0 .. n`, after which `TakeOne`, `TakeAll` and `PutBack` say
what taking a chain from the free list and putting it back do to the partition, and `Room` counts that as long as heads differ
the rings have room. `VringInv` adds to `Partition` that a head is in one place (`HeadsInv`), what
the indices are in each place of the handler (`RingInv`), and why neither side sleeps through the other's store:
between the store of `avail_idx` and the load of `avail_event` a sleeping device can only be
at the first new entry or past the last (`NotifyInv`), and what was signalled without an interrupt is not past
`used_event` (`WakeInv`).

It proves `CallsSpaced` and `ArmedForFirst` of `ApicTimer` for any timers, timeouts, count register and
clock. `ArmedForFirst` allows for one way to leave a timer behind, which is what `timer_truncation` shows: the
handler has just stopped the timer, with less than a microsecond to go (`StoppedByTruncation`). `TimerInv` says that the list is in order, has each timer
once, and that the time since a timer's call and the time to its next make up its interval; `EmplaceFacts` is what an
insertion at the upper bound does, and `ShiftsFacts` that halving the ticks ends with at least one left.

It proves `EvenReadsConsistent` of `Clock` for any fields and any number of updates;
the strengthening says what the fields hold in the middle of an update and that what has
been loaded is of the loaded version for as long as that is the current one.

The theorems hold under the named `ASSUME`s of the modules, which TLC evaluates on the
instances. They are types of constants, model values that are no others' (`None`), and for the
boot what the firmware says: `EarlyAssumption` has usable regions that do not
overlap, each page in one memory block, a kernel that ends in what boot.S has mapped, and
no region for which the early allocator computes an end below its start. The inductive invariants were
checked by TLC on the instances of the runs before they were proved, except those that quantify
over all numbers (`PageInv`). Some theorems have a hypothesis that the code needs and does not
check, each true of the run's instance: `OneLap`, `OneSmallBar` (of `StackPagesAgree`), and nodes in the order of their
memory (within `NoPageLost`). Some properties end with an event after which the code is known to fail, and say so:
`raced`, a lost compare-and-swap, the events that set `odd`.

Only model-checked is all liveness (`EveryEventRuns`, `FlushingFreeReturns`, `OnlyTruncationStops`, `RingsDrain`,
`AllCoresUp`): fairness is outside of the prover's reach. Every safety and action property of the
passing runs is stated by a theorem.

## Observations

Met while modelling; they have no run of their own.

- `Alloc` holds the lock that `HandlePageFault` takes. An event whose stack grows into a new page
  inside `Alloc` waits for itself, and every core that faults then waits with it.
  `AllCoresUp` names this case (`WaitsForItself`) and shows that it is the only one.
- `continue` in the do-while of `clock.cpp` goes to the test at its end, where an odd version equals
  itself: a read that meets an update in progress ends, with locals never assigned
  (`clock.cpp:55` says "retry").
- `early_free_memory_range` subtracts the distance to the first page boundary at the end too
  (`early_page_allocator.cpp:47`): the last page may be lost, and for a region shorter than twice that
  distance the page count wraps. So it does for a longer region that begins within the last
  page before `initial_map_end`: the first loop frees the part before that address, which is short.
  `EarlyAssumption` excludes both; the second case showed in the proof of `FreeRangeFacts`.
- `early_set_nid_range` drops what lies above a block that a range contains
  (`early_page_allocator.cpp:97`). It happens when nodes are not numbered in the order of their memory;
  `NoPageLost` holds for the others.
- `get_node_allocator`: the loser of the compare-and-swap deletes `allocator`, which by then is the
  winner's (`slab_allocator.cpp:477`), uses it, and forgets its own. The slot goes on pointing to freed
  memory, which the next node allocator of any root is constructed in. `NodeAllocatorsSound` is stated
  up to the first such loss.
- Objects of more than 64 pages have a batch and a watermark of 0 (`slab_allocator.cpp:45`): what is
  freed is never flushed, and what is freed on another node is never claimed. `RootConstantsFit` gives the
  number, and `WatermarkSetsCheck` excepts it.
- The destructor of a root cannot free what its first loop flushes into the `remote_list_` of the
  destroying cpu after that cpu's turn; `DestructorDrains` names the case.
- A region without a fault handler counts as free, and BARs are mapped without one: a second device
  gets the first one's pages (`vmem_allocator.cpp:36`, `pci.cpp:245`), and `map_memory` finds them present,
  which `vmem.cpp:72` asserts they are not. With two BARs the kernel stops there (`aborted = "present"`); the run has one.
- A second status change of the interface, as when a lease is lost, activates the deleted context
  (`net.cpp:109`).
- `interfaces_` is a vector: a second interface moves the first, to which the driver and lwIP keep
  pointers (`net.cpp:41`).
- `ReceivePacket` advances by the length of the first pbuf with its padding (`net.cpp:152`): a frame that needs
  a second pbuf (more than 1498 bytes in this configuration) arrives there two bytes off.
- `eth_output` builds its list from the front (`net.cpp:66`): a chain of pbufs is sent in reverse.
- No `tcp_err` callback is set: after a reset a `Tcp_pcb` holds a freed pcb, and its destructor aborts
  whatever is there now. `Accept_Handler` destroys two `Tcp_pcb`s of the new pcb, each aborting it
  (`net.cpp:232`). Destroying a listening one runs into lwIP's assertion.
- A `Start` with a timeout of 0 would keep the handler of the timer in its loop (`timer.cpp:20`), and
  `divider > 7` admits a divider the comment does not (`timer.cpp:67`); no caller does either.
- A representative whose constructor throws is given to `operator delete`, which is `UNIMPLEMENTED`
  (`general_purpose_allocator.hpp:92`): the kernel stops.
- `HandleFault` of `EventManager` and `multicore_ebb_static` stores the representative in a copy
  of the map. The translation entry is never evicted, so it is not missed.

## Not modelled

Parsing of firmware tables (ACPI, multiboot, PCI), the console and the register set-up of a
core: straight-line code without concurrent state. `gthread`'s once, mutex and recursive mutex, which
are spin locks used by the C++ runtime. lwIP, newlib,
boost and TBB are external. Within the modelled parts: contents of page tables below the entry that
cores share or replace,
`add_writable_buffers` returning early (its only caller cannot make it), contents of buffers.

## Plan

1. `gthread`: once, mutex, recursive mutex and condition variable; `EbbAllocator`.
2. Device set-up: `pci` and the virtio status handshake, MSI-X entries and `AllocateVector`.
3. Abstract specifications: an allocator of disjoint objects implemented by
   `PageAllocator` and `SlabAllocator`; a barrier implemented by `spin_barrier`.
4. Proofs of what these would promise; everything the passing runs check now has its theorem,
   liveness excepted.
