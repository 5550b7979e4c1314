---------------------------- MODULE EventManager ----------------------------
(***************************************************************************)
(* The per-core event loop of EbbRT (src/sys/event_manager.cpp,            *)
(* event_manager.hpp, stack.S, isr.S:98-118, idt.cpp:102-107).             *)
(*                                                                         *)
(* Every core runs one EventManager representative.  An event is a         *)
(* function run to completion with interrupts off on the core's current    *)
(* event stack `stack_'; entry 2 of the core's interrupt stack table       *)
(* (`ist') names the stack the hardware switches to when it delivers an    *)
(* interrupt, and ProcessInterrupt never returns to what it interrupted.   *)
(* An event that must wait saves its context, which hands its stack over   *)
(* to the context and gives the core another one; a later ActivateContext  *)
(* queues a task that puts the saved stack back.  What the model is about  *)
(* is this juggling of stacks, and that no event is lost in it.            *)
(*                                                                         *)
(* An event is an identity: the code it runs is any sequence of calls to   *)
(* the manager.  `frames' records whose live stack frames are on a stack,  *)
(* which the machine knows only as bytes in memory.                        *)
(***************************************************************************)
EXTENDS Naturals, Sequences

CONSTANTS
  Cores,          \* the cores that are started
  Events,         \* identities of events
  Stacks,         \* 8 MB regions vmem_allocator->Alloc can return
  None,           \* no event, no stack
  FirstVector,    \* 32: the first vector that is not an exception
  NumVectors,     \* 2^8: vector_idx_ is a uint8_t
  Endless,        \* TRUE: identities are used again, the workload never ends
  MayThrow        \* TRUE: an event may end with an uncaught exception

ASSUME VectorAssumption ==
  FirstVector \in Nat /\ NumVectors \in Nat /\ FirstVector < NumVectors
ASSUME FlagAssumption == Endless \in BOOLEAN /\ MayThrow \in BOOLEAN
ASSUME NoneAssumption == None \notin Events /\ None \notin Stacks

VARIABLES
  pc,             \* where the core is: see Locations
  stack_,         \* [Cores -> Stacks]  EventManager::stack_
  ist,            \* [Cores -> Stacks]  IST entry 2, as set by set_event_stack
  rsp,            \* [Cores -> Stacks]  the stack the core really executes on
  free_stacks_,   \* [Cores -> Seq(Stacks)], the top is the last element
  tasks_,         \* [Cores -> Seq(Events)], the top is the last element
  vector_idx_,    \* [Cores -> 0 .. NumVectors-1]
  vector_map_,    \* [Cores -> set of vectors that have a handler]
  irr,            \* the local APIC: [Cores -> [IrqVectors -> event to run]]
  cur,            \* the event the core is running
  phase,          \* where each event is in its life
  ctx,            \* the EventContext of each event that saved one
  allocated,      \* the stacks vmem_allocator->Alloc has handed out
  frames          \* the event whose frames are live on each stack

emVars == <<pc, stack_, ist, rsp, free_stacks_, tasks_, vector_idx_,
            vector_map_, irr, cur, phase, ctx, allocated, frames>>

Vectors == 0 .. NumVectors - 1
IrqVectors == FirstVector .. NumVectors - 1   \* event_entry starts at 32

\* "off": no representative yet; "boot": on the boot stack, interrupts off;
\* "process": at Process's sti;nop;cli window; "checked": past the cli;
\* "run": inside an event; "halt": at sti;hlt; "abort": in kabort.
Locations == {"off", "boot", "process", "checked", "run", "halt", "abort"}

\* "raised": the event is an interrupt pending in an APIC; "queued": a task;
\* "running": on a core for the first time; "saved": its context is saved;
\* "waking": a task that activates the context; "resumed": on a core again.
Phases == {"idle", "raised", "queued", "running", "saved", "waking",
           "resumed", "done"}

NoContext == [stack |-> None, rsp |-> None]
Contexts == [stack : Stacks, rsp : Stacks] \cup {NoContext}

Top(s) == s[Len(s)]
Pop(s) == SubSeq(s, 1, Len(s) - 1)

TypeOK ==
  /\ pc \in [Cores -> Locations]
  /\ stack_ \in [Cores -> Stacks \cup {None}]
  /\ ist \in [Cores -> Stacks \cup {None}]
  /\ rsp \in [Cores -> Stacks \cup {None}]
  /\ free_stacks_ \in [Cores -> Seq(Stacks)]
  /\ tasks_ \in [Cores -> Seq(Events)]
  /\ vector_idx_ \in [Cores -> Vectors]
  /\ vector_map_ \in [Cores -> SUBSET Vectors]
  /\ irr \in [Cores -> [IrqVectors -> Events \cup {None}]]
  /\ cur \in [Cores -> Events \cup {None}]
  /\ phase \in [Events -> Phases]
  /\ ctx \in [Events -> Contexts]
  /\ allocated \in SUBSET Stacks
  /\ frames \in [Stacks -> Events \cup {None}]

Init ==
  /\ pc = [c \in Cores |-> "off"]
  /\ stack_ = [c \in Cores |-> None]
  /\ ist = [c \in Cores |-> None]
  /\ rsp = [c \in Cores |-> None]
  /\ free_stacks_ = [c \in Cores |-> <<>>]
  /\ tasks_ = [c \in Cores |-> <<>>]
  /\ vector_idx_ = [c \in Cores |-> FirstVector]
  /\ vector_map_ = [c \in Cores |-> {}]
  /\ irr = [c \in Cores |-> [v \in IrqVectors |-> None]]
  /\ cur = [c \in Cores |-> None]
  /\ phase = [e \in Events |-> "idle"]
  /\ ctx = [e \in Events |-> NoContext]
  /\ allocated = {}
  /\ frames = [s \in Stacks |-> None]

-----------------------------------------------------------------------------
(* Stacks *)

\* What a forgetful set_event_stack would do.
SetEventStackSkipped(c, s) ==
  ist' = [ist EXCEPT ![c] = IF @ = None THEN s ELSE @]

\* cpu::set_event_stack
SetEventStack(c, s) == ist' = [ist EXCEPT ![c] = s]

\* AllocateStack returns s: the top of free_stacks_, or else a region that
\* vmem_allocator->Alloc has not handed out before.
AllocateStack(c, s) ==
  IF free_stacks_[c] # <<>>
  THEN /\ s = Top(free_stacks_[c])
       /\ free_stacks_' = [free_stacks_ EXCEPT ![c] = Pop(@)]
       /\ UNCHANGED allocated
  ELSE /\ s \notin allocated
       /\ allocated' = allocated \cup {s}
       /\ UNCHANGED free_stacks_

-----------------------------------------------------------------------------
(* Starting a core *)

\* The first use of event_manager on a core misses in the translation cache;
\* HandleFault constructs the representative, which allocates its stack.
HandleFault(c) ==
  /\ pc[c] = "off"
  /\ \E s \in Stacks :
       AllocateStack(c, s) /\ stack_' = [stack_ EXCEPT ![c] = s]
  /\ pc' = [pc EXCEPT ![c] = "boot"]
  /\ UNCHANGED <<ist, rsp, tasks_, vector_idx_, vector_map_, irr, cur, phase,
                 ctx, frames>>

\* set_event_stack, then switch_stack into CallProcess, which calls Process.
StartProcessingEvents(c) ==
  /\ pc[c] = "boot"
  /\ SetEventStack(c, stack_[c])
  /\ rsp' = [rsp EXCEPT ![c] = stack_[c]]
  /\ pc' = [pc EXCEPT ![c] = "process"]
  /\ UNCHANGED <<stack_, free_stacks_, tasks_, vector_idx_, vector_map_, irr,
                 cur, phase, ctx, allocated, frames>>

-----------------------------------------------------------------------------
(* Process and ProcessInterrupt *)

Pending(c) == \E v \in IrqVectors : irr[c][v] # None

Retired == IF Endless THEN "idle" ELSE "done"

\* Event e starts on the stack the core now uses.
Begin(c, e, s, p) ==
  /\ rsp' = [rsp EXCEPT ![c] = s]
  /\ cur' = [cur EXCEPT ![c] = e]
  /\ phase' = [phase EXCEPT ![e] = p]
  /\ pc' = [pc EXCEPT ![c] = "run"]

\* An interrupt is delivered in the one-instruction window of Process or at
\* its hlt, and nowhere else.  The hardware switches to the top of the IST
\* stack whatever is there; event_entry_common calls event_interrupt, hence
\* ProcessInterrupt: the handler if one is registered, then Process.
ProcessInterrupt(c) ==
  /\ pc[c] \in {"process", "halt"}
  /\ \E v \in IrqVectors :
       LET e == irr[c][v] IN
       /\ e # None
       /\ irr' = [irr EXCEPT ![c][v] = None]
       /\ IF v \in vector_map_[c]
          THEN /\ Begin(c, e, ist[c], "running")
               /\ frames' = [frames EXCEPT ![ist[c]] = e]
          ELSE /\ pc' = [pc EXCEPT ![c] = "process"]
               /\ rsp' = [rsp EXCEPT ![c] = ist[c]]
               /\ phase' = [phase EXCEPT ![e] = Retired]
               /\ frames' = [frames EXCEPT ![ist[c]] = None]
               /\ UNCHANGED cur
  /\ UNCHANGED <<stack_, ist, free_stacks_, tasks_, vector_idx_, vector_map_,
                 ctx, allocated>>

\* The window closes (cli) with no interrupt taken.
CloseWindow(c) ==
  /\ pc[c] = "process"
  /\ ~Pending(c)
  /\ pc' = [pc EXCEPT ![c] = "checked"]
  /\ UNCHANGED <<stack_, ist, rsp, free_stacks_, tasks_, vector_idx_,
                 vector_map_, irr, cur, phase, ctx, allocated, frames>>

\* Process pops the top of tasks_ and invokes it: a function that was
\* spawned runs on the current stack.
RunTask(c) ==
  /\ pc[c] = "checked"
  /\ tasks_[c] # <<>>
  /\ phase[Top(tasks_[c])] = "queued"
  /\ tasks_' = [tasks_ EXCEPT ![c] = Pop(@)]
  /\ Begin(c, Top(tasks_[c]), rsp[c], "running")
  /\ frames' = [frames EXCEPT ![rsp[c]] = Top(tasks_[c])]
  /\ UNCHANGED <<stack_, ist, free_stacks_, vector_idx_, vector_map_, irr,
                 ctx, allocated>>

\* The lambda of ActivateContext that forgets to give its own stack back.
ReleaseStackSkipped(c) == UNCHANGED free_stacks_

\* free_stacks_.push(stack_)
ReleaseStack(c) ==
  free_stacks_' = [free_stacks_ EXCEPT ![c] = Append(@, stack_[c])]

\* ... and the lambda of ActivateContext gives the current stack up and
\* returns into the saved context on the stack that context holds.
RunActivation(c) ==
  /\ pc[c] = "checked"
  /\ tasks_[c] # <<>>
  /\ LET e == Top(tasks_[c]) IN
     /\ phase[e] = "waking"
     /\ tasks_' = [tasks_ EXCEPT ![c] = Pop(@)]
     /\ ReleaseStack(c)
     /\ stack_' = [stack_ EXCEPT ![c] = ctx[e].stack]
     /\ SetEventStack(c, ctx[e].stack)
     /\ Begin(c, e, ctx[e].rsp, "resumed")
     /\ ctx' = [ctx EXCEPT ![e] = NoContext]
  /\ UNCHANGED <<vector_idx_, vector_map_, irr, allocated, frames>>

\* Process halts whether or not there is a task.
HaltGuardSkipped(c) == TRUE

\* tasks_.empty()
HaltGuard(c) == tasks_[c] = <<>>

\* Nothing to run: sti;hlt.
Halt(c) ==
  /\ pc[c] = "checked"
  /\ HaltGuard(c)
  /\ pc' = [pc EXCEPT ![c] = "halt"]
  /\ UNCHANGED <<stack_, ist, rsp, free_stacks_, tasks_, vector_idx_,
                 vector_map_, irr, cur, phase, ctx, allocated, frames>>

-----------------------------------------------------------------------------
(* What a running event, or the boot code, does *)

InCode(c) == pc[c] \in {"boot", "run"}

\* tasks_.emplace(func)
SpawnLocal(c) ==
  /\ InCode(c)
  /\ \E e \in Events :
       /\ phase[e] = "idle"
       /\ phase' = [phase EXCEPT ![e] = "queued"]
       /\ tasks_' = [tasks_ EXCEPT ![c] = Append(@, e)]
  /\ UNCHANGED <<pc, stack_, ist, rsp, free_stacks_, vector_idx_,
                 vector_map_, irr, cur, ctx, allocated, frames>>

\* An AllocateVector whose counter is wider than eight bits.
AllocateVectorWide(c) ==
  /\ InCode(c)
  /\ vector_idx_' = [vector_idx_ EXCEPT ![c] = @ + 1]
  /\ vector_map_' = [vector_map_ EXCEPT ![c] = @ \cup {vector_idx_[c]}]
  /\ UNCHANGED <<pc, stack_, ist, rsp, free_stacks_, tasks_, irr, cur, phase,
                 ctx, allocated, frames>>

\* vector_idx_.fetch_add(1) on eight bits; emplace keeps an older handler.
AllocateVector(c) ==
  /\ InCode(c)
  /\ vector_idx_' = [vector_idx_ EXCEPT ![c] = (@ + 1) % NumVectors]
  /\ vector_map_' = [vector_map_ EXCEPT ![c] = @ \cup {vector_idx_[c]}]
  /\ UNCHANGED <<pc, stack_, ist, rsp, free_stacks_, tasks_, irr, cur, phase,
                 ctx, allocated, frames>>

\* A SaveContext that keeps using the stack it has just given to the context.
SaveContextSameStack(c) ==
  LET e == cur[c] IN
  /\ pc[c] = "run"
  /\ Endless \/ phase[e] = "running"
  /\ ctx' = [ctx EXCEPT ![e] = [stack |-> stack_[c], rsp |-> rsp[c]]]
  /\ pc' = [pc EXCEPT ![c] = "process"]
  /\ cur' = [cur EXCEPT ![c] = None]
  /\ phase' = [phase EXCEPT ![e] = "saved"]
  /\ UNCHANGED <<stack_, ist, rsp, free_stacks_, tasks_, vector_idx_,
                 vector_map_, irr, allocated, frames>>

\* The context takes the current stack; the core goes on in Process on one
\* from AllocateStack.  (An ending workload saves each event at most once.)
SaveContext(c) ==
  LET e == cur[c] IN
  /\ pc[c] = "run"
  /\ Endless \/ phase[e] = "running"
  /\ ctx' = [ctx EXCEPT ![e] = [stack |-> stack_[c], rsp |-> rsp[c]]]
  /\ \E s \in Stacks :
       /\ AllocateStack(c, s)
       /\ stack_' = [stack_ EXCEPT ![c] = s]
       /\ SetEventStack(c, s)
       /\ rsp' = [rsp EXCEPT ![c] = s]
  /\ pc' = [pc EXCEPT ![c] = "process"]
  /\ cur' = [cur EXCEPT ![c] = None]
  /\ phase' = [phase EXCEPT ![e] = "saved"]
  /\ UNCHANGED <<tasks_, vector_idx_, vector_map_, irr, frames>>

\* Some event that holds a saved context activates it, on its own core.  The
\* callers activate a context once: the copy in the lambda is the only one.
ActivateContext(c) ==
  /\ pc[c] = "run"
  /\ \E e \in Events :
       /\ phase[e] = "saved"
       /\ phase' = [phase EXCEPT ![e] = "waking"]
       /\ tasks_' = [tasks_ EXCEPT ![c] = Append(@, e)]
  /\ UNCHANGED <<pc, stack_, ist, rsp, free_stacks_, vector_idx_,
                 vector_map_, irr, cur, ctx, allocated, frames>>

\* The event returns through invoke_function to Process.
Return(c) ==
  /\ pc[c] = "run"
  /\ phase' = [phase EXCEPT ![cur[c]] = Retired]
  /\ frames' = [frames EXCEPT ![rsp[c]] = None]
  /\ cur' = [cur EXCEPT ![c] = None]
  /\ pc' = [pc EXCEPT ![c] = "process"]
  /\ UNCHANGED <<stack_, ist, rsp, free_stacks_, tasks_, vector_idx_,
                 vector_map_, irr, ctx, allocated>>

\* invoke_function catches an exception and aborts.
Throw(c) ==
  /\ MayThrow
  /\ pc[c] = "run"
  /\ pc' = [pc EXCEPT ![c] = "abort"]
  /\ UNCHANGED <<stack_, ist, rsp, free_stacks_, tasks_, vector_idx_,
                 vector_map_, irr, cur, phase, ctx, allocated, frames>>

-----------------------------------------------------------------------------
(* The machine *)

\* A device or a timer asserts vector v: pending until the core takes it.
RaiseInterrupt(c) ==
  /\ pc[c] # "off"
  /\ \E v \in IrqVectors, e \in Events :
       /\ irr[c][v] = None
       /\ phase[e] = "idle"
       /\ irr' = [irr EXCEPT ![c][v] = e]
       /\ phase' = [phase EXCEPT ![e] = "raised"]
  /\ UNCHANGED <<pc, stack_, ist, rsp, free_stacks_, tasks_, vector_idx_,
                 vector_map_, cur, ctx, allocated, frames>>

\* The steps the core takes by itself, whatever its events do.
LoopStep(c) ==
  \/ ProcessInterrupt(c)
  \/ CloseWindow(c)
  \/ RunTask(c)
  \/ RunActivation(c)
  \/ Halt(c)

\* The steps of the code an event runs that leave it running.
EventStep(c) == SpawnLocal(c) \/ AllocateVector(c) \/ ActivateContext(c)

\* The ways a running event lets go of the core.
LeaveStep(c) == SaveContext(c) \/ Return(c) \/ Throw(c)

Next ==
  \E c \in Cores :
    \/ HandleFault(c)
    \/ StartProcessingEvents(c)
    \/ LoopStep(c)
    \/ EventStep(c)
    \/ LeaveStep(c)
    \/ RaiseInterrupt(c)

Spec == Init /\ [][Next]_emVars

\* The processor executes the loop; an event returns, or waits, in the end;
\* boot code reaches StartProcessingEvents.
Fairness ==
  \A c \in Cores :
    /\ WF_emVars(StartProcessingEvents(c))
    /\ WF_emVars(LoopStep(c))
    /\ WF_emVars(LeaveStep(c))

FairSpec == Spec /\ Fairness

-----------------------------------------------------------------------------
(* Properties *)

Started(c) == pc[c] # "off"
Suspended(e) == phase[e] \in {"saved", "waking"}
FreePositions(c) == 1 .. Len(free_stacks_[c])

\* A stack has one user at a time: no stack is the current stack of two
\* cores, held by two saved contexts, free twice, or two of these, and none
\* that AllocateStack took from vmem_allocator is lost.  (stack_,
\* free_stacks_ and EventContext::stack in SaveContext and ActivateContext.)
CurrentStacksApart ==
  \A c, d \in Cores : Started(c) /\ Started(d) /\ stack_[c] = stack_[d] => c = d
FreeStacksApart ==
  \A c, d \in Cores : \A i \in FreePositions(c), j \in FreePositions(d) :
    free_stacks_[c][i] = free_stacks_[d][j] => c = d /\ i = j
SavedStacksApart ==
  \A e, f \in Events :
    Suspended(e) /\ Suspended(f) /\ ctx[e].stack = ctx[f].stack => e = f
CurrentNotFree ==
  \A c, d \in Cores : \A i \in FreePositions(d) :
    Started(c) => stack_[c] # free_stacks_[d][i]
CurrentNotSaved ==
  \A c \in Cores, e \in Events :
    Started(c) /\ Suspended(e) => stack_[c] # ctx[e].stack
FreeNotSaved ==
  \A c \in Cores, e \in Events : \A i \in FreePositions(c) :
    Suspended(e) => free_stacks_[c][i] # ctx[e].stack
NoStackLost ==
  \A s \in allocated :
    \/ \E c \in Cores : Started(c) /\ stack_[c] = s
    \/ \E c \in Cores : \E i \in FreePositions(c) : free_stacks_[c][i] = s
    \/ \E e \in Events : Suspended(e) /\ ctx[e].stack = s

StacksPartitioned ==
  /\ CurrentStacksApart
  /\ FreeStacksApart
  /\ SavedStacksApart
  /\ CurrentNotFree
  /\ CurrentNotSaved
  /\ FreeNotSaved
  /\ NoStackLost

\* The frames a suspended event will return into are still on the stack its
\* context names: between SaveContext and activate_context_and_return
\* nothing has run on it, on any core.
ContextsIntact ==
  \A e \in Events :
    Suspended(e) => /\ ctx[e].rsp = ctx[e].stack
                    /\ frames[ctx[e].stack] = e

\* Wherever an interrupt can be delivered, the stack the hardware will start
\* on carries no live frames and no other core executes on it.
InterruptStackSafe ==
  \A c \in Cores :
    pc[c] \in {"process", "checked", "halt"} =>
      /\ frames[ist[c]] = None
      /\ \A d \in Cores \ {c} : rsp[d] # ist[c]

\* Each event that was spawned, raised as an interrupt on a started core, or
\* whose context was activated, gets to run (an interrupt without a handler
\* is dropped), unless a core aborts: the window before every task and the
\* hlt lose no wake-up, and a workload that ends leaves no task under others
\* on tasks_.
Waiting(e) == phase[e] \in {"raised", "queued", "waking"}
Aborted == \E c \in Cores : pc[c] = "abort"
EveryEventRuns ==
  \A e \in Events :
    Waiting(e) ~> (phase[e] \in {"running", "resumed", "done"} \/ Aborted)

\* What is ready on a core: its tasks and the interrupts pending for it.
ReadyOn(c) ==
  {tasks_[c][i] : i \in 1 .. Len(tasks_[c])}
    \cup ({irr[c][v] : v \in IrqVectors} \ {None})

\* What really executes on a core is whatever has its frames on the stack the
\* core is on; what a context really keeps is what is on the stack it names.
Executing(c) == IF pc[c] \in {"run", "abort"} THEN frames[rsp[c]] ELSE None
Kept == {frames[ctx[e].stack] : e \in {e \in Events : Suspended(e)}}

Scheduler ==
  INSTANCE EventScheduler WITH ready <- [c \in Cores |-> ReadyOn(c)],
                               running <- [c \in Cores |-> Executing(c)],
                               saved <- Kept

\* The event loop implements EventScheduler: with all the passing around of
\* stacks, a posted event runs once and on one core, a context that is
\* activated brings back the event that saved it and no other, and no step of
\* one core changes what another one executes or what a context keeps
\* (Process, ProcessInterrupt, SpawnLocal, SaveContext, ActivateContext).
ImplementsScheduler == Scheduler!Spec
=============================================================================
