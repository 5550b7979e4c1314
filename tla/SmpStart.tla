------------------------------ MODULE SmpStart ------------------------------
(***************************************************************************)
(* How the other cores come up (src/sys/smp.cpp, the trampoline smpboot of *)
(* boot.S, vmem_ap_init, trans.cpp, spin_barrier of spinlock.hpp), and how *)
(* a core finds its own EventManager (EbbRef of trans.hpp,                 *)
(* EventManager::HandleFault), composed with the virtual memory of         *)
(* VMemAllocator.                                                          *)
(*                                                                         *)
(* The boot core sends the start-up interrupts and waits at a barrier; the *)
(* other cores start beside each other.  Each takes a boot stack from a    *)
(* shared list, switches to the runtime page table, copies its top level,  *)
(* replaces the entry of the translation page, constructs its EventManager *)
(* (which allocates a stack) and waits at the barrier in its first event.  *)
(* A core that is up runs events: they save contexts, and stacks move from *)
(* core to core.                                                           *)
(***************************************************************************)
EXTENDS VMemAllocator

CONSTANT CpuSets  \* the sets of cores a machine may have

ASSUME SmpAssumption ==
  \A s \in CpuSets : Boot \in s /\ s \subseteq Cores /\ IsFiniteSet(s)

VARIABLES
  cpus,           \* cpus: the cores of the machine; never changes
  at,             \* [Cores -> where it is in smp_init or smp_main]
  smp_stack_free, \* the list of boot stacks: n stands for n, n-1, .. 1
  rax,            \* [Cores -> the list's head as loaded]
  rsp,            \* [Cores -> the boot stack it took, or 0]
  ref,            \* [Cores -> the event_manager entry of the translation
                  \*  frame: the core whose representative it is, or None]
  waiters_, completed_, step   \* spin_barrier, and the local of wait

startVars == <<at, smp_stack_free, rax, rsp, ref, waiters_, completed_, step>>
barrierVars == <<waiters_, completed_, step>>
smpVars == <<vmVars, cpus, startVars>>

Places == {"smp_init", "ipi", "off", "pop", "cmpxchg", "main", "root", "trans",
           "deref", "construct", "wait", "arrive", "release", "spin", "up"}

TypeOK ==
  /\ VMTypeOK
  /\ cpus \in CpuSets
  /\ at \in [Cores -> Places]
  /\ smp_stack_free \in 0 .. Cardinality(cpus)
  /\ rax \in [Cores -> 0 .. Cardinality(cpus)]
  /\ rsp \in [Cores -> 0 .. Cardinality(cpus)]
  /\ ref \in [Cores -> Cores \cup {None}]
  /\ waiters_ \in 0 .. Cardinality(cpus) - 1 /\ completed_ \in 0 .. 1
  /\ step \in [Cores -> 0 .. 1]

Init ==
  /\ VMInit
  /\ cpus \in CpuSets
  /\ at = [c \in Cores |-> IF c = Boot THEN "smp_init" ELSE "off"]
  /\ smp_stack_free = 0
  /\ rax = [c \in Cores |-> 0]
  /\ rsp = [c \in Cores |-> 0]
  /\ ref = [c \in Cores |-> IF c = Boot THEN Boot ELSE None]
  /\ waiters_ = 0 /\ completed_ = 0
  /\ step = [c \in Cores |-> 0]

Go(c, place) == at' = [at EXCEPT ![c] = place]

-----------------------------------------------------------------------------
(* smp_init *)

\* One boot stack for each other core, linked through their first words; the
\* trampoline is copied with the head of the list in it.
SmpInit ==
  /\ Executes(Boot)
  /\ at[Boot] = "smp_init"
  /\ smp_stack_free' = Cardinality(cpus) - 1
  /\ Go(Boot, "ipi")
  /\ UNCHANGED <<vmVars, cpus, rax, rsp, ref, barrierVars>>

\* INIT and STARTUP for one core: it starts while the loop goes on.
SendIpi(c) ==
  /\ Executes(Boot)
  /\ at[Boot] = "ipi"
  /\ at[c] = "off"
  /\ Go(c, "pop")
  /\ UNCHANGED <<vmVars, cpus, smp_stack_free, rax, rsp, ref, barrierVars>>

AllSent ==
  /\ Executes(Boot)
  /\ at[Boot] = "ipi"
  /\ \A c \in cpus : at[c] # "off"
  /\ Go(Boot, "wait")
  /\ UNCHANGED <<vmVars, cpus, smp_stack_free, rax, rsp, ref, barrierVars>>

-----------------------------------------------------------------------------
(* The trampoline *)

\* The trampoline, from real mode to the head of the list of stacks:
\* mov smp_stack_free, %rax; mov (%rax), %rbx
LoadStack(c) ==
  /\ Executes(c)
  /\ at[c] = "pop"
  /\ rax' = [rax EXCEPT ![c] = smp_stack_free]
  /\ Go(c, "cmpxchg")
  /\ UNCHANGED <<vmVars, cpus, smp_stack_free, rsp, ref, barrierVars>>

\* A trampoline that stores the next stack without comparing.
ComparesNot(c) == TRUE

\* lock cmpxchg finds in the list's head what was loaded
Compares(c) == smp_stack_free = rax[c]

\* lock cmpxchg %rbx, smp_stack_free; jnz 1b
PopStack(c) ==
  /\ Executes(c)
  /\ at[c] = "cmpxchg"
  /\ IF Compares(c)
     THEN /\ smp_stack_free' = rax[c] - 1
          /\ rsp' = [rsp EXCEPT ![c] = rax[c]]
          /\ Go(c, "main")
     ELSE /\ Go(c, "pop")
          /\ UNCHANGED <<smp_stack_free, rsp>>
  /\ UNCHANGED <<vmVars, cpus, rax, ref, barrierVars>>

-----------------------------------------------------------------------------
(* smp_main *)

\* enable_runtime_page_table: the boot core's own top-level table
EnableRuntimePageTable(c) ==
  /\ Executes(c)
  /\ at[c] = "main"
  /\ cr3' = [cr3 EXCEPT ![c] = Boot]
  /\ Go(c, "root")
  /\ UNCHANGED <<regions_, mappings_, lock_, pml4, tree, stack, pc, req, fault,
                 vaddr_, aborted, cpus, smp_stack_free, rax, rsp, ref,
                 barrierVars>>

\* A vmem_ap_init that stays on the runtime page table.
CopiesRootNot(c) == UNCHANGED <<cr3, pml4>>

\* memcpy of the top-level table into a page of this node, and the switch to
\* it
CopiesRoot(c) ==
  /\ pml4' = [pml4 EXCEPT ![c] = pml4[cr3[c]]]
  /\ cr3' = [cr3 EXCEPT ![c] = c]

\* The rest of vmem_ap_init.
VmemApInit(c) ==
  /\ Executes(c)
  /\ at[c] = "root"
  /\ CopiesRoot(c)
  /\ Go(c, "trans")
  /\ UNCHANGED <<regions_, mappings_, lock_, tree, stack, pc, req, fault,
                 vaddr_, aborted, cpus, smp_stack_free, rax, rsp, ref,
                 barrierVars>>

\* A trans_ap_init that keeps the entry it was copied.
ReplacesEntryNot(c) == UNCHANGED <<pml4, tree>>

\* pt[idx].clear(); then tables of its own with one page, all zero
ReplacesEntry(c) ==
  /\ pml4' = [pml4 EXCEPT ![cr3[c]] = c]
  /\ tree' = [tree EXCEPT ![c] = [Nothing EXCEPT ![TransPage] = c]]

\* trans_ap_init, and the initializations that touch nothing shared.
TransApInit(c) ==
  /\ Executes(c)
  /\ at[c] = "trans"
  /\ ReplacesEntry(c)
  /\ Go(c, "deref")
  /\ UNCHANGED <<regions_, mappings_, lock_, cr3, stack, pc, req, fault,
                 vaddr_, aborted, cpus, smp_stack_free, rax, rsp, ref,
                 barrierVars>>

\* event_manager->: the entry of the translation page, or else HandleFault,
\* which constructs a representative.  (It looks in the map of
\* representatives first, and misses: what it stores there it stores in a
\* copy that any_cast returned.)
EbbDeref(c) ==
  /\ Executes(c)
  /\ at[c] = "deref"
  /\ IF ref[Translate(c, TransPage)] = None
     THEN /\ AllocCall(c, [npages |-> STACK_NPAGES, bar |-> None])
          /\ Go(c, "construct")
     ELSE /\ Go(c, "wait")
          /\ UNCHANGED <<req, pc>>
  /\ UNCHANGED <<regions_, mappings_, lock_, cr3, pml4, tree, stack, fault,
                 vaddr_, aborted, cpus, smp_stack_free, rax, rsp, ref,
                 barrierVars>>

\* The constructor returns: cache_ref, SpawnLocal, StartProcessingEvents.
Constructed(c) ==
  /\ Executes(c)
  /\ at[c] = "construct"
  /\ pc[c] = "out"
  /\ ref' = [ref EXCEPT ![Translate(c, TransPage)] = c]
  /\ Go(c, "wait")
  /\ UNCHANGED <<vmVars, cpus, smp_stack_free, rax, rsp, barrierVars>>

-----------------------------------------------------------------------------
(* spin_barrier::wait *)

WaitLoad(c) ==
  /\ Executes(c)
  /\ at[c] = "wait"
  /\ step' = [step EXCEPT ![c] = completed_]
  /\ Go(c, "arrive")
  /\ UNCHANGED <<vmVars, cpus, smp_stack_free, rax, rsp, ref, waiters_,
                 completed_>>

\* A barrier that counts the others only.
LastWaiterEarly == waiters_ = Cardinality(cpus) - 2

\* waiters_.fetch_add(1) == n_ - 1
LastWaiter == waiters_ = Cardinality(cpus) - 1

WaitArrive(c) ==
  /\ Executes(c)
  /\ at[c] = "arrive"
  /\ IF LastWaiter
     THEN waiters_' = 0 /\ Go(c, "release")
     ELSE waiters_' = waiters_ + 1 /\ Go(c, "spin")
  /\ UNCHANGED <<vmVars, cpus, smp_stack_free, rax, rsp, ref, completed_,
                 step>>

WaitRelease(c) ==
  /\ Executes(c)
  /\ at[c] = "release"
  /\ completed_' = completed_ + 1
  /\ Go(c, "up")
  /\ UNCHANGED <<vmVars, cpus, smp_stack_free, rax, rsp, ref, waiters_, step>>

\* A waiter that loops until the count is what it loaded.
ReleasedNot(c) == completed_ = step[c]

\* completed_.load() != step
Released(c) == completed_ # step[c]

WaitSpin(c) ==
  /\ Executes(c)
  /\ at[c] = "spin"
  /\ Released(c)
  /\ Go(c, "up")
  /\ UNCHANGED <<vmVars, cpus, smp_stack_free, rax, rsp, ref, barrierVars>>

-----------------------------------------------------------------------------
(* Events of a core that is up *)

Stacks == {r.begin : r \in {x \in regions_ : x.handler}}

\* SaveContext that has to allocate a stack.
SaveContext(c) ==
  /\ Executes(c)
  /\ at[c] = "up" /\ pc[c] = "out"
  /\ AllocCall(c, [npages |-> STACK_NPAGES, bar |-> None])
  /\ UNCHANGED <<regions_, mappings_, lock_, cr3, pml4, tree, stack, fault,
                 vaddr_, aborted, cpus, startVars>>

\* The core goes on on a stack that no core runs on: one of its free stacks,
\* or that of a context it activates (EventManager says which).
SwitchStack(c, s) ==
  /\ Executes(c)
  /\ at[c] = "up" /\ pc[c] = "out"
  /\ s \in Stacks /\ \A d \in cpus : stack[d] # s
  /\ stack' = [stack EXCEPT ![c] = s]
  /\ UNCHANGED <<regions_, mappings_, lock_, cr3, pml4, tree, pc, req, fault,
                 vaddr_, aborted, cpus, startVars>>

\* The boot core goes on with pci_load_drivers: msix_enable maps a BAR.
PciMap(bar) ==
  /\ Executes(Boot)
  /\ at[Boot] = "up" /\ pc[Boot] = "out"
  /\ vaddr_[bar] = None
  /\ AllocCall(Boot, [npages |-> BarPages, bar |-> bar])
  /\ UNCHANGED <<regions_, mappings_, lock_, cr3, pml4, tree, stack, fault,
                 vaddr_, aborted, cpus, startVars>>

-----------------------------------------------------------------------------

StartStep(c) ==
  \/ LoadStack(c) \/ PopStack(c)
  \/ EnableRuntimePageTable(c) \/ VmemApInit(c) \/ TransApInit(c)
  \/ EbbDeref(c) \/ Constructed(c)
  \/ WaitLoad(c) \/ WaitArrive(c) \/ WaitRelease(c) \/ WaitSpin(c)

VMStep(c) ==
  /\ AllocLock(c) \/ AllocReturn(c) \/ AllocAborts(c) \/ MapBar(c)
       \/ HandlePageFault(c)
  /\ UNCHANGED <<cpus, startVars>>

BootStep == SmpInit \/ AllSent \/ \E c \in cpus : SendIpi(c)

Next ==
  \/ BootStep
  \/ \E c \in cpus : StartStep(c)
  \/ \E c \in cpus : VMStep(c)
  \/ \E c \in cpus : SaveContext(c)
  \/ \E c \in cpus, s \in VPages : SwitchStack(c, s)
  \/ \E c \in cpus, p \in VPages : Touch(c, p) /\ UNCHANGED <<cpus, startVars>>
  \/ \E bar \in Bars : PciMap(bar)

Spec == Init /\ [][Next]_smpVars

\* Every core executes its code; no event has to happen.
FairSpec ==
  /\ Spec
  /\ WF_smpVars(BootStep)
  /\ \A c \in Cores : WF_smpVars(c \in cpus /\ (StartStep(c) \/ VMStep(c)))

-----------------------------------------------------------------------------
(* Properties *)

\* No two cores run on the same boot stack, however their pops of
\* smp_stack_free overlap (boot.S:154-160).
BootStacksDistinct ==
  \A c, d \in cpus : c # d /\ rsp[c] # 0 => rsp[c] # rsp[d]

\* On a core that runs events event_manager-> is the EventManager that core
\* constructed: no core ever sees the translation page of another
\* (trans_ap_init, EbbRef::operator->).
OwnRepresentative ==
  \A c \in cpus : at[c] \in {"wait", "arrive", "release", "spin", "up"} =>
    ref[Translate(c, TransPage)] = c

\* Nobody gets past the barrier before all cores have arrived, so kmain
\* goes on to start devices only when every core processes events.
BarrierHolds ==
  /\ TypeOK
  /\ (\E c \in cpus : at[c] = "up") =>
       \A c \in cpus : at[c] \in {"spin", "release", "up"} /\ stack[c] # None

\* What a core that runs events has mapped stays mapped, to the same frame:
\* no other core, starting late, changes the tables it uses (vmem_ap_init
\* comes before trans_ap_init clears an entry).
MappingsStay ==
  [][\A c \in cpus : stack[c] # None =>
       \A p \in VPages \cup {TransPage} :
         Translate(c, p) # None => Translate(c, p)' = Translate(c, p)]_smpVars

\* The stack of a core grew while it was in Alloc: HandlePageFault waits for
\* the lock its own core holds.
WaitsForItself == lock_ # None /\ fault[lock_] # None

\* All cores come up and every fault is served, unless a stack overflows, the
\* space is used up, or a core waits for itself, which stops every core that
\* faults after it: nothing else in the start-up, the barrier and the faults
\* can hang.
AllCoresUp ==
  /\ <>(aborted # "no" \/ WaitsForItself \/ \A c \in cpus : at[c] = "up")
  /\ \A c \in Cores :
       fault[c] # None ~> (aborted # "no" \/ WaitsForItself \/ fault[c] = None)
=============================================================================
