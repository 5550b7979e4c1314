------------------------- MODULE EventManagerProofs -------------------------
(***************************************************************************)
(* Stack safety of the event loop, for any number of cores, events and     *)
(* stacks: the invariants of EventManager hold in every reachable state.   *)
(* They are not inductive as they stand; IndInv adds what ties a core's    *)
(* location to the three places that name its stack (stack_, the IST, the  *)
(* stack pointer), and that an event is in one place at a time.            *)
(***************************************************************************)
EXTENDS EventManager, TLAPS, SequenceTheorems

Running(c) == pc[c] \in {"run", "abort"}
InLoop(c) == pc[c] \in {"process", "checked", "halt", "run", "abort"}
Positions(c) == 1 .. Len(tasks_[c])

\* Once a core is in the loop its three stack pointers agree; the stack
\* carries exactly the frames of the event that runs, if one does.
CoreInv ==
  \A c \in Cores :
    /\ Started(c) => stack_[c] \in allocated
    /\ ~InLoop(c) => rsp[c] = None
    /\ InLoop(c) => ist[c] = stack_[c] /\ rsp[c] = stack_[c]
    /\ Running(c) => /\ cur[c] \in Events
                     /\ phase[cur[c]] \in {"running", "resumed"}
                     /\ frames[stack_[c]] = cur[c]
    /\ Started(c) /\ ~Running(c) => frames[stack_[c]] = None

\* No event runs on two cores.
RunsOnce ==
  \A c, d \in Cores : Running(c) /\ Running(d) /\ cur[c] = cur[d] => c = d

\* A task is a spawned event or an activation, and is on one queue once.
TaskInv ==
  /\ \A c \in Cores : \A i \in Positions(c) :
       phase[tasks_[c][i]] \in {"queued", "waking"}
  /\ \A c, d \in Cores : \A i \in Positions(c), j \in Positions(d) :
       tasks_[c][i] = tasks_[d][j] => c = d /\ i = j

\* So is an interrupt that is pending.
IrrInv ==
  /\ \A c \in Cores, v \in IrqVectors :
       irr[c][v] # None => phase[irr[c][v]] = "raised"
  /\ \A c, d \in Cores, v, w \in IrqVectors :
       irr[c][v] # None /\ irr[c][v] = irr[d][w] => c = d /\ v = w

\* A saved context names an allocated stack with its event's frames on it.
CtxInv ==
  \A e \in Events :
    Suspended(e) => /\ ctx[e].stack \in allocated
                    /\ ctx[e].rsp = ctx[e].stack
                    /\ frames[ctx[e].stack] = e

\* A free stack, or one not handed out yet, carries nobody's frames.
FreeInv ==
  /\ \A c \in Cores : \A i \in FreePositions(c) :
       free_stacks_[c][i] \in allocated /\ frames[free_stacks_[c][i]] = None
  /\ \A s \in Stacks \ allocated : frames[s] = None

\* The inductive invariant.
IndInv ==
  /\ TypeOK
  /\ CoreInv
  /\ RunsOnce
  /\ TaskInv
  /\ IrrInv
  /\ CtxInv
  /\ FreeInv
  /\ StacksPartitioned

-----------------------------------------------------------------------------
(* The sequences that stand for std::stack *)

\* top() and pop() of a nonempty stack.
LEMMA PopFacts ==
  ASSUME NEW S, NEW s \in Seq(S), s # <<>>
  PROVE  /\ Len(s) \in Nat
         /\ Len(s) \in 1 .. Len(s)
         /\ Top(s) \in S
         /\ Top(s) = s[Len(s)]
         /\ Pop(s) \in Seq(S)
         /\ \A i \in 1 .. Len(Pop(s)) :
              i \in 1 .. Len(s) /\ i # Len(s) /\ Pop(s)[i] = s[i]
         /\ \A i \in 1 .. Len(s) :
              i # Len(s) => i \in 1 .. Len(Pop(s)) /\ Pop(s)[i] = s[i]
<1>1. Len(s) \in Nat /\ Len(s) >= 1
  BY EmptySeq
<1>2. \A i \in 1 .. Len(s) : s[i] \in S
  BY ElementOfSeq
<1>3. \A i \in 1 .. Len(s) - 1 : s[i] \in S
  BY <1>1, <1>2
<1>4. /\ Pop(s) \in Seq(S)
      /\ Len(Pop(s)) = Len(s) - 1
      /\ \A i \in 1 .. Len(s) - 1 : Pop(s)[i] = s[i]
  <2> DEFINE n == Len(s) - 1
             p == SubSeq(s, 1, n)
  <2>1. n \in Nat /\ \A i \in 1 .. n : s[i] \in S
    BY <1>1, <1>3
  <2> HIDE DEF n
  <2>2. /\ p \in Seq(S)
        /\ Len(p) = IF 1 <= n THEN n - 1 + 1 ELSE 0
        /\ \A i \in 1 .. n - 1 + 1 : p[i] = s[1 + i - 1]
    BY <2>1, SubSeqProperties
  <2> HIDE DEF p
  <2>3. Len(p) = n
    BY <2>1, <2>2
  <2>4. \A i \in 1 .. n : p[i] = s[i]
    BY <2>1, <2>2
  <2> QED BY <2>2, <2>3, <2>4 DEF p, n, Pop
<1> QED BY <1>1, <1>2, <1>4 DEF Top

\* push().
LEMMA AppendFacts ==
  ASSUME NEW S, NEW s \in Seq(S), NEW x \in S
  PROVE  /\ Append(s, x) \in Seq(S)
         /\ Len(s) \in Nat
         /\ Len(Append(s, x)) = Len(s) + 1
         /\ Len(s) + 1 \in 1 .. Len(Append(s, x))
         /\ Append(s, x)[Len(s) + 1] = x
         /\ \A i \in 1 .. Len(Append(s, x)) :
              \/ i \in 1 .. Len(s) /\ Append(s, x)[i] = s[i]
              \/ i = Len(s) + 1 /\ Append(s, x)[i] = x
         /\ \A i \in 1 .. Len(s) :
              /\ i \in 1 .. Len(Append(s, x))
              /\ i # Len(s) + 1
              /\ Append(s, x)[i] = s[i]
  OBVIOUS

-----------------------------------------------------------------------------
\* What AllocateStack gives: a stack nobody uses, with nothing on it, taken
\* off the free list it was on.
Taken(s) ==
  /\ free_stacks_' \in [Cores -> Seq(Stacks)]
  /\ allocated' \in SUBSET Stacks
  /\ allocated \subseteq allocated'
  /\ allocated' \subseteq allocated \cup {s}
  /\ s \in allocated'
  /\ frames[s] = None
  /\ \A d \in Cores : Started(d) => stack_[d] # s
  /\ \A e \in Events : Suspended(e) => ctx[e].stack # s
  /\ \A d \in Cores : \A i \in FreePositions(d)' :
       /\ i \in FreePositions(d)
       /\ free_stacks_'[d][i] = free_stacks_[d][i]
       /\ free_stacks_'[d][i] # s
  /\ \A d \in Cores : \A i \in FreePositions(d) :
       \/ free_stacks_[d][i] = s
       \/ i \in FreePositions(d)' /\ free_stacks_'[d][i] = free_stacks_[d][i]

\* AllocateStack, whether it pops a free stack or asks vmem_allocator for a
\* new one, takes a stack no core, free list or saved context holds.
LEMMA AllocateStackFacts ==
  ASSUME IndInv, NEW c \in Cores, NEW s \in Stacks, AllocateStack(c, s)
  PROVE  Taken(s)
<1>0. /\ free_stacks_ \in [Cores -> Seq(Stacks)]
      /\ allocated \in SUBSET Stacks
  BY DEF IndInv, TypeOK
<1>1. CASE free_stacks_[c] # <<>>
  <2> DEFINE q == free_stacks_[c]
             n == Len(q)
  <2>1. /\ s = Top(q)
        /\ free_stacks_' = [free_stacks_ EXCEPT ![c] = Pop(q)]
        /\ allocated' = allocated
    BY <1>1 DEF AllocateStack
  <2>2. q \in Seq(Stacks) /\ q # <<>>
    BY <1>0, <1>1
  <2>3. /\ n \in FreePositions(c)
        /\ s = free_stacks_[c][n]
        /\ Pop(q) \in Seq(Stacks)
        /\ \A i \in 1 .. Len(Pop(q)) :
              i \in 1 .. n /\ i # n /\ Pop(q)[i] = q[i]
        /\ \A i \in 1 .. n :
              i # n => i \in 1 .. Len(Pop(q)) /\ Pop(q)[i] = q[i]
    BY <2>1, <2>2, PopFacts DEF FreePositions
  <2>4. free_stacks_' \in [Cores -> Seq(Stacks)]
    BY <1>0, <2>1, <2>3
  <2>5. s \in allocated /\ frames[s] = None
    BY <2>3 DEF IndInv, FreeInv
  <2>6. \A d \in Cores : Started(d) => stack_[d] # s
    BY <2>3 DEF IndInv, StacksPartitioned, CurrentNotFree
  <2>7. \A e \in Events : Suspended(e) => ctx[e].stack # s
    BY <2>3 DEF IndInv, StacksPartitioned, FreeNotSaved
  <2>8. \A d \in Cores : \A i \in FreePositions(d)' :
              /\ i \in FreePositions(d)
              /\ free_stacks_'[d][i] = free_stacks_[d][i]
              /\ d = c => i # n
    BY <1>0, <2>1, <2>3 DEF FreePositions
  <2>9. \A d \in Cores : \A i \in FreePositions(d)' : free_stacks_[d][i] # s
    BY <2>3, <2>8 DEF IndInv, StacksPartitioned, FreeStacksApart
  <2>10. \A d \in Cores : \A i \in FreePositions(d) :
              \/ free_stacks_[d][i] = s
              \/ /\ i \in FreePositions(d)'
                 /\ free_stacks_'[d][i] = free_stacks_[d][i]
    BY <1>0, <2>1, <2>3 DEF FreePositions
  <2> QED BY <1>0, <2>1, <2>4, <2>5, <2>6, <2>7, <2>8, <2>9, <2>10 DEF Taken
<1>2. CASE free_stacks_[c] = <<>>
  <2>1. s \notin allocated /\ allocated' = allocated \cup {s}
        /\ free_stacks_' = free_stacks_
    BY <1>2 DEF AllocateStack
  <2>2. frames[s] = None
    BY <2>1 DEF IndInv, FreeInv
  <2>3. \A d \in Cores : Started(d) => stack_[d] # s
    BY <2>1 DEF IndInv, CoreInv
  <2>4. \A e \in Events : Suspended(e) => ctx[e].stack # s
    BY <2>1 DEF IndInv, CtxInv
  <2>5. \A d \in Cores : \A i \in FreePositions(d) : free_stacks_[d][i] # s
    BY <2>1 DEF IndInv, FreeInv
  <2> QED BY <1>0, <2>1, <2>2, <2>3, <2>4, <2>5 DEF FreePositions, Taken
<1> QED BY <1>1, <1>2

-----------------------------------------------------------------------------
(* Each action preserves IndInv *)

\* The constructor of a core's representative takes a stack for itself.
LEMMA HandleFaultStep ==
  ASSUME IndInv, NEW c \in Cores, HandleFault(c)
  PROVE  IndInv'
<1>1. PICK s \in Stacks :
        AllocateStack(c, s) /\ stack_' = [stack_ EXCEPT ![c] = s]
  BY DEF HandleFault
<1>2. /\ pc[c] = "off" /\ pc' = [pc EXCEPT ![c] = "boot"]
      /\ UNCHANGED <<ist, rsp, tasks_, vector_idx_, vector_map_, irr, cur,
                     phase, ctx, frames>>
  BY DEF HandleFault
<1>a. Taken(s)
  BY <1>1, AllocateStackFacts
<1>3. TypeOK' /\ TypeOK
  BY <1>1, <1>2, <1>a DEF Taken, IndInv, TypeOK, Locations
<1>4. CoreInv'
  BY <1>1, <1>2, <1>3, <1>a
     DEF Taken, IndInv, CoreInv, TypeOK, Started, Running, InLoop
<1>5. RunsOnce' /\ TaskInv' /\ IrrInv'
  BY <1>2, <1>3 DEF Taken, IndInv, RunsOnce, TaskInv, IrrInv, TypeOK, Positions,
     Running
<1>6. CtxInv' /\ FreeInv'
  BY <1>1, <1>2, <1>a DEF Taken, IndInv, CtxInv, FreeInv, Suspended
<1>7. StacksPartitioned'
  <2>0. /\ stack_'[c] = s
        /\ \A d \in Cores : /\ Started(d)' <=> Started(d) \/ d = c
                            /\ d # c => stack_'[d] = stack_[d]
        /\ \A e \in Events : Suspended(e)' <=> Suspended(e)
    BY <1>1, <1>2, <1>3 DEF TypeOK, Started, Suspended
  <2>1. CurrentStacksApart' /\ CurrentNotFree' /\ CurrentNotSaved'
    <3>1. CurrentStacksApart'
      BY <1>a, <2>0 DEF Taken, IndInv, StacksPartitioned, CurrentStacksApart
    <3>2. CurrentNotFree'
      <4> SUFFICES ASSUME NEW b \in Cores, NEW d \in Cores,
                          NEW i \in FreePositions(d)', Started(b)'
                   PROVE  stack_'[b] # free_stacks_'[d][i]
        BY DEF CurrentNotFree
      <4>1. CASE b = c
        BY <1>a, <2>0, <4>1 DEF Taken
      <4>2. CASE b # c
        <5>1. /\ Started(b) /\ stack_'[b] = stack_[b]
              /\ i \in FreePositions(d)
              /\ free_stacks_'[d][i] = free_stacks_[d][i]
          BY <1>a, <2>0, <4>2 DEF Taken
        <5> QED
          BY <5>1 DEF IndInv, StacksPartitioned, CurrentNotFree
      <4> QED BY <4>1, <4>2
    <3>3. CurrentNotSaved'
      BY <1>2, <1>a, <2>0 DEF Taken, IndInv, StacksPartitioned, CurrentNotSaved
    <3> QED BY <3>1, <3>2, <3>3
  <2>2. FreeStacksApart' /\ FreeNotSaved' /\ SavedStacksApart'
    BY <1>2, <1>a, <2>0
       DEF Taken, IndInv, StacksPartitioned, FreeStacksApart, FreeNotSaved,
           SavedStacksApart
  <2>3. NoStackLost'
    <3> SUFFICES ASSUME NEW t \in allocated', t # s
                 PROVE  \/ \E d \in Cores : Started(d)' /\ stack_'[d] = t
                        \/ \E d \in Cores : \E i \in FreePositions(d)' :
                             free_stacks_'[d][i] = t
                        \/ \E e \in Events : Suspended(e)' /\ ctx'[e].stack = t
      BY <2>0 DEF NoStackLost
    <3>1. \/ \E d \in Cores : Started(d) /\ stack_[d] = t
          \/ \E d \in Cores : \E i \in FreePositions(d) : free_stacks_[d][i] = t
          \/ \E e \in Events : Suspended(e) /\ ctx[e].stack = t
      BY <1>a DEF Taken, IndInv, StacksPartitioned, NoStackLost
    <3>2. ~ Started(c)
      BY <1>2 DEF Started
    <3>3. CASE \E d \in Cores : Started(d) /\ stack_[d] = t
      BY <2>0, <3>2, <3>3
    <3>4. CASE \E d \in Cores : \E i \in FreePositions(d) : free_stacks_[d][i] = t
      BY <1>a, <3>4 DEF Taken
    <3>5. CASE \E e \in Events : Suspended(e) /\ ctx[e].stack = t
      BY <1>2, <2>0, <3>5
    <3> QED BY <3>1, <3>3, <3>4, <3>5
  <2> QED BY <2>1, <2>2, <2>3 DEF StacksPartitioned
<1> QED BY <1>3, <1>4, <1>5, <1>6, <1>7 DEF IndInv

\* The steps that change nothing but a core's location, its IST entry and its
\* stack pointer, or its vectors.
LEMMA LocationStep ==
  ASSUME IndInv, NEW c \in Cores,
         \/ StartProcessingEvents(c)
         \/ CloseWindow(c)
         \/ Halt(c)
         \/ Throw(c)
         \/ AllocateVector(c)
  PROVE  IndInv'
<1> USE DEF StartProcessingEvents, CloseWindow, Halt, Throw, AllocateVector,
        SetEventStack, HaltGuard, InCode
<1>0. UNCHANGED <<stack_, free_stacks_, tasks_, irr, cur, phase, ctx,
                  allocated, frames>>
  OBVIOUS
<1>1. TypeOK' /\ TypeOK
  <2>1. TypeOK BY DEF IndInv
  <2>2. vector_idx_' \in [Cores -> Vectors] /\ vector_map_' \in [Cores -> SUBSET Vectors]
    <3>1. CASE AllocateVector(c)
      <4>1. \A k \in Vectors : (k + 1) % NumVectors \in Vectors
        BY VectorAssumption DEF Vectors
      <4> QED BY <2>1, <3>1, <4>1 DEF TypeOK
    <3>2. CASE ~ AllocateVector(c)
      BY <2>1, <3>2 DEF TypeOK
    <3> QED BY <3>1, <3>2
  <2>3. pc' \in [Cores -> Locations] /\ ist' \in [Cores -> Stacks \cup {None}]
        /\ rsp' \in [Cores -> Stacks \cup {None}]
    BY <2>1 DEF TypeOK, Locations
  <2> QED BY <1>0, <2>1, <2>2, <2>3 DEF TypeOK
<1>2. CoreInv'
  BY <1>0, <1>1 DEF IndInv, CoreInv, TypeOK, Started, Running, InLoop
<1>3. RunsOnce'
  <2>1. \A d \in Cores : Running(d)' <=> Running(d)
    BY <1>1 DEF TypeOK, Running
  <2> QED BY <1>0, <2>1 DEF IndInv, RunsOnce
<1>4. TaskInv' /\ IrrInv' /\ CtxInv' /\ FreeInv'
  BY <1>0 DEF IndInv, TaskInv, IrrInv, CtxInv, FreeInv, Positions,
     FreePositions, Suspended
<1>5. StacksPartitioned'
  <2>1. \A d \in Cores : Started(d)' <=> Started(d)
    BY <1>1 DEF Started, TypeOK
  <2> QED
    BY <1>0, <2>1 DEF IndInv, StacksPartitioned, CurrentStacksApart,
       FreeStacksApart, SavedStacksApart, CurrentNotFree, CurrentNotSaved,
       FreeNotSaved, NoStackLost, FreePositions, Suspended
<1> QED BY <1>1, <1>2, <1>3, <1>4, <1>5 DEF IndInv

\* Putting an event that is idle, or saved, on a task queue.
LEMMA PushTaskStep ==
  ASSUME IndInv, NEW c \in Cores, SpawnLocal(c) \/ ActivateContext(c)
  PROVE  IndInv'
<1> DEFINE Push(e, p) == /\ phase' = [phase EXCEPT ![e] = p]
                         /\ tasks_' = [tasks_ EXCEPT ![c] = Append(tasks_[c], e)]
<1>0. /\ pc[c] \in {"boot", "run"}
      /\ UNCHANGED <<pc, stack_, ist, rsp, free_stacks_, vector_idx_,
                     vector_map_, irr, cur, ctx, allocated, frames>>
  BY DEF SpawnLocal, ActivateContext, InCode
<1>1. PICK e \in Events, p \in {"queued", "waking"} :
        /\ Push(e, p)
        /\ phase[e] \in {"idle", "saved"}
        /\ p = "waking" <=> phase[e] = "saved"
  BY DEF SpawnLocal, ActivateContext
<1>2. TypeOK
  BY DEF IndInv
<1>3. /\ tasks_'[c] \in Seq(Events)
      /\ \A i \in Positions(c)' :
              \/ i \in Positions(c) /\ tasks_'[c][i] = tasks_[c][i]
              \/ i = Len(tasks_[c]) + 1 /\ tasks_'[c][i] = e
      /\ \A d \in Cores : d # c => tasks_'[d] = tasks_[d]
  <2>1. tasks_[c] \in Seq(Events) /\ tasks_'[c] = Append(tasks_[c], e)
    BY <1>1, <1>2 DEF TypeOK
  <2> QED BY <1>1, <1>2, <2>1, AppendFacts DEF TypeOK, Positions
<1>4. TypeOK'
  BY <1>0, <1>1, <1>2, <1>3 DEF TypeOK, Phases
<1>5. \A f \in Events : /\ f # e => phase'[f] = phase[f]
                        /\ Suspended(f)' <=> Suspended(f)
  BY <1>1, <1>2 DEF TypeOK, Suspended
<1>6. CoreInv' /\ RunsOnce'
  BY <1>0, <1>1, <1>5
     DEF IndInv, CoreInv, RunsOnce, Started, Running, InLoop
<1>7. TaskInv'
  <2>0. \A d \in Cores : \A i \in Positions(d) : tasks_[d][i] \in Events
    BY <1>2, ElementOfSeq DEF TypeOK, Positions
  <2>1. \A d \in Cores : \A i \in Positions(d) : tasks_[d][i] # e
    BY <1>1 DEF IndInv, TaskInv
  <2>2. \A d \in Cores : \A i \in Positions(d)' :
           \/ i \in Positions(d) /\ tasks_'[d][i] = tasks_[d][i]
           \/ d = c /\ i = Len(tasks_[c]) + 1 /\ tasks_'[d][i] = e
    BY <1>3 DEF Positions
  <2>3. \A d \in Cores : \A i \in Positions(d)' :
           phase'[tasks_'[d][i]] \in {"queued", "waking"}
    <3>1. phase'[e] \in {"queued", "waking"}
      BY <1>1, <1>2 DEF TypeOK
    <3>2. \A d \in Cores : \A i \in Positions(d) :
             phase'[tasks_[d][i]] \in {"queued", "waking"}
      BY <1>5, <2>0, <2>1 DEF IndInv, TaskInv
    <3> QED BY <2>2, <3>1, <3>2
  <2>4. \A d, b \in Cores : \A i \in Positions(d)', j \in Positions(b)' :
           tasks_'[d][i] = tasks_'[b][j] => d = b /\ i = j
    BY <2>1, <2>2 DEF IndInv, TaskInv
  <2> QED BY <2>3, <2>4 DEF TaskInv
<1>8. IrrInv'
  BY <1>0, <1>1, <1>2, <1>5 DEF IndInv, IrrInv, TypeOK
<1>9. CtxInv' /\ FreeInv'
  BY <1>0, <1>5 DEF IndInv, CtxInv, FreeInv, FreePositions
<1>10. StacksPartitioned'
  BY <1>0, <1>5 DEF IndInv, StacksPartitioned, CurrentStacksApart,
     FreeStacksApart, SavedStacksApart, CurrentNotFree, CurrentNotSaved,
     FreeNotSaved, NoStackLost, FreePositions, Started
<1> QED BY <1>4, <1>6, <1>7, <1>8, <1>9, <1>10 DEF IndInv

\* A device raises an interrupt: an idle event becomes pending.
LEMMA RaiseInterruptStep ==
  ASSUME IndInv, NEW c \in Cores, RaiseInterrupt(c)
  PROVE  IndInv'
<1>1. PICK v \in IrqVectors, e \in Events :
        /\ irr[c][v] = None
        /\ phase[e] = "idle"
        /\ irr' = [irr EXCEPT ![c][v] = e]
        /\ phase' = [phase EXCEPT ![e] = "raised"]
  BY DEF RaiseInterrupt
<1>2. UNCHANGED <<pc, stack_, ist, rsp, free_stacks_, tasks_, vector_idx_,
                  vector_map_, cur, ctx, allocated, frames>>
  BY DEF RaiseInterrupt
<1>3. TypeOK
  BY DEF IndInv
<1>4. TypeOK'
  BY <1>1, <1>2, <1>3 DEF TypeOK, Phases
<1>5. \A f \in Events : /\ f # e => phase'[f] = phase[f]
                        /\ Suspended(f)' <=> Suspended(f)
  BY <1>1, <1>3 DEF TypeOK, Suspended
<1>6. CoreInv' /\ RunsOnce'
  BY <1>1, <1>2, <1>5
     DEF IndInv, CoreInv, RunsOnce, Started, Running, InLoop
<1>7. TaskInv'
  <2>1. \A d \in Cores : \A i \in Positions(d) : tasks_[d][i] \in Events
    BY <1>3, ElementOfSeq DEF TypeOK, Positions
  <2>2. \A d \in Cores : \A i \in Positions(d) : tasks_[d][i] # e
    BY <1>1 DEF IndInv, TaskInv
  <2> QED BY <1>2, <1>5, <2>1, <2>2 DEF IndInv, TaskInv, Positions
<1>8. IrrInv'
  <2>1. /\ irr'[c][v] = e
        /\ \A d \in Cores, w \in IrqVectors :
             ~(d = c /\ w = v) => irr'[d][w] = irr[d][w]
    BY <1>1, <1>3 DEF TypeOK
  <2>2. \A d \in Cores, w \in IrqVectors :
          irr[d][w] # None => irr[d][w] \in Events /\ irr[d][w] # e
    BY <1>1, <1>3 DEF IndInv, IrrInv, TypeOK
  <2>3. phase'[e] = "raised"
    BY <1>1, <1>3 DEF TypeOK
  <2> QED BY <1>5, <2>1, <2>2, <2>3 DEF IndInv, IrrInv
<1>9. CtxInv' /\ FreeInv'
  BY <1>2, <1>5 DEF IndInv, CtxInv, FreeInv, FreePositions
<1>10. StacksPartitioned'
  BY <1>2, <1>5 DEF IndInv, StacksPartitioned, CurrentStacksApart,
     FreeStacksApart, SavedStacksApart, CurrentNotFree, CurrentNotSaved,
     FreeNotSaved, NoStackLost, FreePositions, Started
<1> QED BY <1>4, <1>6, <1>7, <1>8, <1>9, <1>10 DEF IndInv

\* The event of a core returns to Process.
LEMMA ReturnStep ==
  ASSUME IndInv, NEW c \in Cores, Return(c)
  PROVE  IndInv'
<1> DEFINE e == cur[c]
           s == stack_[c]
<1>1. TypeOK
  BY DEF IndInv
<1>2. /\ Running(c) /\ Started(c)
      /\ e \in Events /\ phase[e] \in {"running", "resumed"}
      /\ s \in Stacks /\ rsp[c] = s /\ ist[c] = s /\ s \in allocated
  BY <1>1 DEF Return, IndInv, CoreInv, TypeOK, Running, InLoop, Started
<1> HIDE DEF e, s
<1>3. /\ pc[c] = "run"
      /\ phase' = [phase EXCEPT ![e] = Retired]
      /\ frames' = [frames EXCEPT ![s] = None]
      /\ cur' = [cur EXCEPT ![c] = None]
      /\ pc' = [pc EXCEPT ![c] = "process"]
      /\ UNCHANGED <<stack_, ist, rsp, free_stacks_, tasks_, vector_idx_,
                     vector_map_, irr, ctx, allocated>>
  BY <1>2 DEF Return, e
<1>4. Retired \in {"idle", "done"}
  BY DEF Retired
<1>5. TypeOK'
  BY <1>1, <1>3, <1>4 DEF TypeOK, Phases, Locations
<1>6. /\ \A f \in Events : /\ f # e => phase'[f] = phase[f]
                           /\ Suspended(f)' <=> Suspended(f)
      /\ \A d \in Cores : /\ Started(d)' <=> Started(d)
                          /\ Running(d)' <=> Running(d) /\ d # c
                          /\ InLoop(d)' <=> InLoop(d)
                          /\ d # c => cur'[d] = cur[d]
      /\ frames'[s] = None
      /\ \A u \in Stacks : u # s => frames'[u] = frames[u]
  BY <1>1, <1>2, <1>3, <1>4
     DEF TypeOK, Suspended, Started, Running, InLoop
<1>7. \A d \in Cores : Started(d) /\ d # c => stack_[d] # s
  BY <1>2 DEF IndInv, StacksPartitioned, CurrentStacksApart, s
<1>8. CoreInv'
  <2>1. \A d \in Cores : Started(d) => stack_[d] \in Stacks
    BY <1>1 DEF IndInv, CoreInv, TypeOK
  <2>2. \A d \in Cores : Running(d) /\ d # c => cur[d] # e
    BY <1>2 DEF IndInv, RunsOnce, e
  <2>3. \A d \in Cores : Running(d) => Started(d)
    BY DEF Running, Started
  <2> QED BY <1>2, <1>3, <1>6, <1>7, <2>1, <2>2, <2>3 DEF IndInv, CoreInv, s
<1>9. RunsOnce'
  BY <1>6 DEF IndInv, RunsOnce
<1>10. TaskInv'
  <2>1. \A d \in Cores : \A i \in Positions(d) :
          tasks_[d][i] \in Events /\ tasks_[d][i] # e
    BY <1>1, <1>2, ElementOfSeq DEF IndInv, TaskInv, TypeOK, Positions
  <2> QED BY <1>3, <1>6, <2>1 DEF IndInv, TaskInv, Positions
<1>11. IrrInv'
  BY <1>1, <1>2, <1>3, <1>6 DEF IndInv, IrrInv, TypeOK
<1>12. CtxInv'
  <2>1. \A f \in Events : Suspended(f) => ctx[f].stack \in Stacks
    BY <1>1 DEF IndInv, CtxInv, TypeOK
  <2>2. \A f \in Events : Suspended(f) => ctx[f].stack # s
    BY <1>2 DEF IndInv, StacksPartitioned, CurrentNotSaved, s
  <2> QED BY <1>3, <1>6, <2>1, <2>2 DEF IndInv, CtxInv
<1>13. FreeInv'
  BY <1>1, <1>2, <1>3, <1>6 DEF IndInv, FreeInv, FreePositions, TypeOK
<1>14. StacksPartitioned'
  BY <1>3, <1>6 DEF IndInv, StacksPartitioned, CurrentStacksApart,
     FreeStacksApart, SavedStacksApart, CurrentNotFree, CurrentNotSaved,
     FreeNotSaved, NoStackLost, FreePositions
<1> QED
  BY <1>5, <1>8, <1>9, <1>10, <1>11, <1>12, <1>13, <1>14 DEF IndInv

\* An event that was spawned or raised starts on core c, which runs none (its
\* stack then carries g = e), or its interrupt is dropped (g = None).
Starts(c, e, l, p, g) ==
  /\ pc[c] \in {"process", "checked", "halt"}
  /\ phase[e] \in {"raised", "queued"}
  /\ \/ l = "run" /\ p = "running" /\ g = e /\ cur' = [cur EXCEPT ![c] = e]
     \/ l = "process" /\ p \in {"idle", "done"} /\ g = None /\ cur' = cur
  /\ pc' = [pc EXCEPT ![c] = l]
  /\ phase' = [phase EXCEPT ![e] = p]
  /\ rsp' = [rsp EXCEPT ![c] = stack_[c]]
  /\ frames' = [frames EXCEPT ![stack_[c]] = g]
  /\ UNCHANGED <<stack_, ist, free_stacks_, ctx, allocated>>

\* Then what holds of the stacks and of the events on cores still does.
LEMMA StartEvent ==
  ASSUME IndInv, NEW c \in Cores, NEW e \in Events, NEW l, NEW p, NEW g,
         Starts(c, e, l, p, g)
  PROVE  /\ pc' \in [Cores -> Locations]
         /\ rsp' \in [Cores -> Stacks \cup {None}]
         /\ cur' \in [Cores -> Events \cup {None}]
         /\ phase' \in [Events -> Phases]
         /\ frames' \in [Stacks -> Events \cup {None}]
         /\ CoreInv' /\ RunsOnce' /\ CtxInv' /\ FreeInv' /\ StacksPartitioned'
<1> DEFINE s == stack_[c]
<1> USE DEF Starts
<1>1. TypeOK
  BY DEF IndInv
<1>2. /\ ~Running(c) /\ Started(c) /\ InLoop(c)
      /\ s \in Stacks /\ rsp[c] = s /\ ist[c] = s /\ s \in allocated
  BY <1>1 DEF IndInv, CoreInv, TypeOK, Running, InLoop, Started
<1> HIDE DEF s
<1>3. /\ frames' = [frames EXCEPT ![s] = g]
      /\ rsp' = rsp
  BY <1>1, <1>2 DEF s, TypeOK
<1>4. /\ pc' \in [Cores -> Locations]
      /\ rsp' \in [Cores -> Stacks \cup {None}]
      /\ cur' \in [Cores -> Events \cup {None}]
      /\ phase' \in [Events -> Phases]
      /\ frames' \in [Stacks -> Events \cup {None}]
  BY <1>1, <1>2, <1>3 DEF TypeOK, Phases, Locations
<1>5. /\ phase'[e] = p
      /\ \A f \in Events : /\ f # e => phase'[f] = phase[f]
                           /\ Suspended(f)' <=> Suspended(f)
      /\ \A d \in Cores : /\ Started(d)' <=> Started(d)
                          /\ d # c => (Running(d)' <=> Running(d))
                          /\ InLoop(d)' <=> InLoop(d)
                          /\ d # c => cur'[d] = cur[d]
      /\ Running(c)' <=> l = "run"
      /\ l = "run" => cur'[c] = e
      /\ frames'[s] = g
      /\ \A u \in Stacks : u # s => frames'[u] = frames[u]
  BY <1>1, <1>2, <1>3 DEF TypeOK, Suspended, Started, Running, InLoop
<1>6. \A d \in Cores : Running(d) => /\ cur[d] # e
                                     /\ cur[d] \in Events
                                     /\ d # c
                                     /\ Started(d)
  BY <1>2 DEF IndInv, CoreInv, Running, Started
<1>7. \A d \in Cores : Started(d) /\ d # c => stack_[d] # s
  BY <1>2 DEF IndInv, StacksPartitioned, CurrentStacksApart, s
<1>8. CoreInv'
  <2>1. \A d \in Cores : Started(d) => stack_[d] \in Stacks
    BY <1>1 DEF IndInv, CoreInv, TypeOK
  <2>2. ASSUME NEW d \in Cores, d # c
        PROVE  /\ Started(d)' => stack_'[d] \in allocated'
               /\ ~InLoop(d)' => rsp'[d] = None
               /\ InLoop(d)' => ist'[d] = stack_'[d] /\ rsp'[d] = stack_'[d]
               /\ Running(d)' => /\ cur'[d] \in Events
                                 /\ phase'[cur'[d]] \in {"running", "resumed"}
                                 /\ frames'[stack_'[d]] = cur'[d]
               /\ Started(d)' /\ ~Running(d)' => frames'[stack_'[d]] = None
    BY <1>3, <1>5, <1>6, <1>7, <2>1, <2>2 DEF IndInv, CoreInv
  <2>3. /\ Started(c)' => stack_'[c] \in allocated'
        /\ ~InLoop(c)' => rsp'[c] = None
        /\ InLoop(c)' => ist'[c] = stack_'[c] /\ rsp'[c] = stack_'[c]
        /\ Running(c)' => /\ cur'[c] \in Events
                          /\ phase'[cur'[c]] \in {"running", "resumed"}
                          /\ frames'[stack_'[c]] = cur'[c]
        /\ Started(c)' /\ ~Running(c)' => frames'[stack_'[c]] = None
    BY <1>2, <1>3, <1>5 DEF s
  <2> QED BY <2>2, <2>3 DEF CoreInv
<1>9. RunsOnce'
  BY <1>5, <1>6 DEF IndInv, RunsOnce
<1>10. CtxInv'
  <2>1. \A f \in Events : Suspended(f) => ctx[f].stack \in Stacks
    BY <1>1 DEF IndInv, CtxInv, TypeOK
  <2>2. \A f \in Events : Suspended(f) => ctx[f].stack # s
    BY <1>2 DEF IndInv, StacksPartitioned, CurrentNotSaved, s
  <2> QED BY <1>5, <2>1, <2>2 DEF IndInv, CtxInv
<1>11. FreeInv'
  <2>1. \A d \in Cores : \A i \in FreePositions(d) :
          free_stacks_[d][i] \in Stacks /\ free_stacks_[d][i] # s
    BY <1>1, <1>2 DEF IndInv, FreeInv, TypeOK, StacksPartitioned,
       CurrentNotFree, s
  <2> QED BY <1>2, <1>5, <2>1 DEF IndInv, FreeInv, FreePositions
<1>12. StacksPartitioned'
  BY <1>5 DEF IndInv, StacksPartitioned, CurrentStacksApart,
     FreeStacksApart, SavedStacksApart, CurrentNotFree, CurrentNotSaved,
     FreeNotSaved, NoStackLost, FreePositions
<1> QED BY <1>4, <1>8, <1>9, <1>10, <1>11, <1>12

\* Process takes the top task off the queue.
LEMMA PopTaskFacts ==
  ASSUME IndInv, NEW c \in Cores, tasks_[c] # <<>>,
         tasks_' = [tasks_ EXCEPT ![c] = Pop(tasks_[c])]
  PROVE  /\ Top(tasks_[c]) \in Events
         /\ phase[Top(tasks_[c])] \in {"queued", "waking"}
         /\ tasks_' \in [Cores -> Seq(Events)]
         /\ \A d \in Cores : \A i \in Positions(d)' :
              /\ i \in Positions(d)
              /\ tasks_'[d][i] = tasks_[d][i]
              /\ tasks_'[d][i] \in Events
              /\ tasks_'[d][i] # Top(tasks_[c])
<1> DEFINE q == tasks_[c]
<1>1. q \in Seq(Events) /\ q # <<>> /\ tasks_ \in [Cores -> Seq(Events)]
  BY DEF IndInv, TypeOK
<1>2. /\ Len(q) \in Positions(c)
      /\ Top(q) \in Events
      /\ Top(q) = tasks_[c][Len(q)]
      /\ Pop(q) \in Seq(Events)
      /\ \A i \in 1 .. Len(Pop(q)) :
           i \in 1 .. Len(q) /\ i # Len(q) /\ Pop(q)[i] = q[i]
  BY <1>1, PopFacts DEF Positions
<1>3. \A d \in Cores : \A i \in Positions(d)' :
        /\ i \in Positions(d)
        /\ tasks_'[d][i] = tasks_[d][i]
        /\ d = c => i # Len(q)
  BY <1>1, <1>2 DEF Positions
<1>4. \A d \in Cores : \A i \in Positions(d) : tasks_[d][i] \in Events
  BY <1>1, ElementOfSeq DEF Positions
<1>5. tasks_' \in [Cores -> Seq(Events)]
  BY <1>1, <1>2
<1>6. \A d \in Cores : \A i \in Positions(d)' : tasks_[d][i] # Top(q)
  BY <1>2, <1>3 DEF IndInv, TaskInv
<1>7. phase[Top(q)] \in {"queued", "waking"}
  BY <1>2 DEF IndInv, TaskInv
<1> QED BY <1>2, <1>3, <1>4, <1>5, <1>6, <1>7

\* A spawned task starts.
LEMMA RunTaskStep ==
  ASSUME IndInv, NEW c \in Cores, RunTask(c)
  PROVE  IndInv'
<1> DEFINE e == Top(tasks_[c])
<1>1. TypeOK
  BY DEF IndInv
<1>2. /\ pc[c] = "checked"
      /\ phase[e] = "queued"
      /\ tasks_' = [tasks_ EXCEPT ![c] = Pop(tasks_[c])]
      /\ pc' = [pc EXCEPT ![c] = "run"]
      /\ cur' = [cur EXCEPT ![c] = e]
      /\ phase' = [phase EXCEPT ![e] = "running"]
      /\ UNCHANGED <<stack_, ist, free_stacks_, vector_idx_, vector_map_, irr,
                     ctx, allocated>>
  BY DEF RunTask, Begin
<1>3. rsp[c] = stack_[c]
  BY <1>2 DEF IndInv, CoreInv, InLoop
<1>4. /\ rsp' = [rsp EXCEPT ![c] = stack_[c]]
      /\ frames' = [frames EXCEPT ![stack_[c]] = e]
  BY <1>3 DEF RunTask, Begin
<1>5. /\ e \in Events
      /\ tasks_' \in [Cores -> Seq(Events)]
      /\ \A d \in Cores : \A i \in Positions(d)' :
           /\ i \in Positions(d)
           /\ tasks_'[d][i] = tasks_[d][i]
           /\ tasks_'[d][i] \in Events
           /\ tasks_'[d][i] # e
  BY <1>2, PopTaskFacts DEF RunTask
<1> HIDE DEF e
<1>6. /\ pc' \in [Cores -> Locations]
      /\ rsp' \in [Cores -> Stacks \cup {None}]
      /\ cur' \in [Cores -> Events \cup {None}]
      /\ phase' \in [Events -> Phases]
      /\ frames' \in [Stacks -> Events \cup {None}]
      /\ CoreInv' /\ RunsOnce' /\ CtxInv' /\ FreeInv' /\ StacksPartitioned'
  <2>1. Starts(c, e, "run", "running", e)
    BY <1>2, <1>4 DEF Starts
  <2> QED BY <1>5, <2>1, StartEvent
<1>7. TypeOK'
  BY <1>1, <1>2, <1>5, <1>6 DEF TypeOK
<1>8. \A f \in Events : f # e => phase'[f] = phase[f]
  BY <1>1, <1>2 DEF TypeOK
<1>9. TaskInv'
  BY <1>5, <1>8 DEF IndInv, TaskInv
<1>10. IrrInv'
  BY <1>1, <1>2, <1>8 DEF IndInv, IrrInv, TypeOK
<1> QED BY <1>6, <1>7, <1>9, <1>10 DEF IndInv

\* An interrupt is delivered on the IST stack.
LEMMA ProcessInterruptStep ==
  ASSUME IndInv, NEW c \in Cores, ProcessInterrupt(c)
  PROVE  IndInv'
<1>1. TypeOK
  BY DEF IndInv
<1>2. /\ pc[c] \in {"process", "halt"}
      /\ UNCHANGED <<stack_, ist, free_stacks_, tasks_, vector_idx_,
                     vector_map_, ctx, allocated>>
  BY DEF ProcessInterrupt
<1>3. ist[c] = stack_[c]
  BY <1>2 DEF IndInv, CoreInv, InLoop
<1>4. PICK v \in IrqVectors :
        /\ irr[c][v] # None
        /\ irr' = [irr EXCEPT ![c][v] = None]
        /\ IF v \in vector_map_[c]
           THEN /\ Begin(c, irr[c][v], ist[c], "running")
                /\ frames' = [frames EXCEPT ![ist[c]] = irr[c][v]]
           ELSE /\ pc' = [pc EXCEPT ![c] = "process"]
                /\ rsp' = [rsp EXCEPT ![c] = ist[c]]
                /\ phase' = [phase EXCEPT ![irr[c][v]] = Retired]
                /\ frames' = [frames EXCEPT ![ist[c]] = None]
                /\ UNCHANGED cur
  BY DEF ProcessInterrupt
<1> DEFINE e == irr[c][v]
<1>5. e \in Events /\ phase[e] = "raised"
  BY <1>1, <1>4 DEF IndInv, IrrInv, TypeOK
<1>6. PICK l, p, g : Starts(c, e, l, p, g)
  <2>1. CASE v \in vector_map_[c]
    <3>1. Starts(c, e, "run", "running", e)
      BY <1>2, <1>3, <1>4, <1>5, <2>1 DEF Starts, Begin
    <3> QED BY <3>1
  <2>2. CASE v \notin vector_map_[c]
    <3>1. Starts(c, e, "process", Retired, None)
      BY <1>2, <1>3, <1>4, <1>5, <2>2 DEF Starts, Retired
    <3> QED BY <3>1
  <2> QED BY <2>1, <2>2
<1>7. /\ irr' = [irr EXCEPT ![c][v] = None]
      /\ \A d \in Cores, w \in IrqVectors :
           irr[d][w] = e => d = c /\ w = v
  BY <1>4 DEF IndInv, IrrInv
<1> HIDE DEF e
<1>8. /\ pc' \in [Cores -> Locations]
      /\ rsp' \in [Cores -> Stacks \cup {None}]
      /\ cur' \in [Cores -> Events \cup {None}]
      /\ phase' \in [Events -> Phases]
      /\ frames' \in [Stacks -> Events \cup {None}]
      /\ CoreInv' /\ RunsOnce' /\ CtxInv' /\ FreeInv' /\ StacksPartitioned'
  BY <1>5, <1>6, StartEvent
<1>9. irr' \in [Cores -> [IrqVectors -> Events \cup {None}]]
  BY <1>1, <1>7 DEF TypeOK
<1>10. TypeOK'
  BY <1>1, <1>2, <1>8, <1>9 DEF TypeOK
<1>11. \A f \in Events : f # e => phase'[f] = phase[f]
  BY <1>1, <1>6 DEF TypeOK, Starts
<1>12. TaskInv'
  <2>1. \A d \in Cores : \A i \in Positions(d) :
          tasks_[d][i] \in Events /\ tasks_[d][i] # e
    BY <1>1, <1>5, ElementOfSeq DEF IndInv, TaskInv, TypeOK, Positions
  <2> QED BY <1>2, <1>11, <2>1 DEF IndInv, TaskInv, Positions
<1>13. IrrInv'
  <2>1. \A d \in Cores, w \in IrqVectors :
          irr'[d][w] # None => /\ irr'[d][w] = irr[d][w]
                               /\ irr'[d][w] # e
                               /\ irr'[d][w] \in Events
    BY <1>1, <1>7, <1>9 DEF TypeOK
  <2> QED BY <1>11, <2>1 DEF IndInv, IrrInv
<1> QED BY <1>8, <1>10, <1>12, <1>13 DEF IndInv

\* An activation gives the core's stack up for the one its context holds.
LEMMA RunActivationStep ==
  ASSUME IndInv, NEW c \in Cores, RunActivation(c)
  PROVE  IndInv'
<1>0. PICK e, s, o :
        e = Top(tasks_[c]) /\ s = ctx[e].stack /\ o = stack_[c]
  OBVIOUS
<1>1. TypeOK
  BY DEF IndInv
<1>2. /\ e \in Events
      /\ tasks_' \in [Cores -> Seq(Events)]
      /\ \A d \in Cores : \A i \in Positions(d)' :
           /\ i \in Positions(d)
           /\ tasks_'[d][i] = tasks_[d][i]
           /\ tasks_'[d][i] \in Events
           /\ tasks_'[d][i] # e
  BY <1>0, PopTaskFacts DEF RunActivation
<1>3. /\ pc[c] = "checked" /\ phase[e] = "waking"
      /\ Started(c) /\ ~Running(c) /\ InLoop(c) /\ Suspended(e)
      /\ o \in Stacks /\ o \in allocated /\ frames[o] = None
      /\ s \in Stacks /\ s \in allocated /\ frames[s] = e
      /\ ctx[e].rsp = s /\ s # o
  BY <1>0, <1>1, <1>2 DEF RunActivation, IndInv, CoreInv, CtxInv, Started, Running,
     InLoop, Suspended, TypeOK, StacksPartitioned, CurrentNotSaved
<1>4. /\ free_stacks_' = [free_stacks_ EXCEPT ![c] = Append(free_stacks_[c], o)]
      /\ stack_' = [stack_ EXCEPT ![c] = s]
      /\ ist' = [ist EXCEPT ![c] = s]
      /\ rsp' = [rsp EXCEPT ![c] = s]
      /\ cur' = [cur EXCEPT ![c] = e]
      /\ phase' = [phase EXCEPT ![e] = "resumed"]
      /\ pc' = [pc EXCEPT ![c] = "run"]
      /\ ctx' = [ctx EXCEPT ![e] = NoContext]
      /\ UNCHANGED <<vector_idx_, vector_map_, irr, allocated, frames>>
  BY <1>0, <1>3 DEF RunActivation, Begin, ReleaseStack, SetEventStack
<1>5. /\ free_stacks_' \in [Cores -> Seq(Stacks)]
      /\ \A d \in Cores : \A i \in FreePositions(d)' :
           \/ i \in FreePositions(d) /\ free_stacks_'[d][i] = free_stacks_[d][i]
           \/ d = c /\ i = Len(free_stacks_[c]) + 1 /\ free_stacks_'[d][i] = o
      /\ \A d \in Cores : \A i \in FreePositions(d) :
           i \in FreePositions(d)' /\ free_stacks_'[d][i] = free_stacks_[d][i]
      /\ Len(free_stacks_[c]) + 1 \in FreePositions(c)'
      /\ free_stacks_'[c][Len(free_stacks_[c]) + 1] = o
  <2> DEFINE q == free_stacks_[c]
  <2>1. q \in Seq(Stacks) /\ o \in Stacks /\ free_stacks_'[c] = Append(q, o)
        /\ \A d \in Cores : d # c => free_stacks_'[d] = free_stacks_[d]
    BY <1>1, <1>3, <1>4 DEF TypeOK
  <2>2. /\ Append(q, o) \in Seq(Stacks)
        /\ Len(q) + 1 \in 1 .. Len(Append(q, o))
        /\ Append(q, o)[Len(q) + 1] = o
        /\ \A i \in 1 .. Len(Append(q, o)) :
              \/ i \in 1 .. Len(q) /\ Append(q, o)[i] = q[i]
              \/ i = Len(q) + 1 /\ Append(q, o)[i] = o
        /\ \A i \in 1 .. Len(q) :
              i \in 1 .. Len(Append(q, o)) /\ Append(q, o)[i] = q[i]
    BY <2>1, AppendFacts
  <2>3. free_stacks_' \in [Cores -> Seq(Stacks)]
    BY <1>1, <1>4, <2>2 DEF TypeOK
  <2> HIDE DEF q
  <2> QED BY <2>1, <2>2, <2>3 DEF FreePositions, q
<1>6. TypeOK'
  BY <1>1, <1>2, <1>3, <1>4, <1>5
     DEF TypeOK, Phases, Locations, Contexts
<1>7. /\ phase'[e] = "resumed"
      /\ ~Suspended(e)'
      /\ \A f \in Events : f # e => /\ phase'[f] = phase[f]
                                    /\ ctx'[f] = ctx[f]
                                    /\ Suspended(f)' <=> Suspended(f)
      /\ \A d \in Cores : /\ Started(d)' <=> Started(d)
                          /\ InLoop(d)' <=> InLoop(d)
                          /\ d # c => /\ Running(d)' <=> Running(d)
                                      /\ cur'[d] = cur[d]
                                      /\ stack_'[d] = stack_[d]
                                      /\ ist'[d] = ist[d]
                                      /\ rsp'[d] = rsp[d]
      /\ Running(c)' /\ cur'[c] = e
      /\ stack_'[c] = s /\ ist'[c] = s /\ rsp'[c] = s
  BY <1>1, <1>2, <1>3, <1>4
     DEF TypeOK, Suspended, Started, Running, InLoop
<1>8. /\ \A d \in Cores : Started(d) => stack_[d] # s
      /\ \A d \in Cores : d # c /\ Started(d) => stack_[d] # o
      /\ \A f \in Events : f # e /\ Suspended(f) => ctx[f].stack # s
      /\ \A f \in Events : Suspended(f) => ctx[f].stack # o
      /\ \A d \in Cores : \A i \in FreePositions(d) :
           free_stacks_[d][i] # s /\ free_stacks_[d][i] # o
  BY <1>0, <1>2, <1>3 DEF IndInv, StacksPartitioned, CurrentStacksApart,
     SavedStacksApart, CurrentNotFree, CurrentNotSaved, FreeNotSaved
<1>9. \A d \in Cores : Running(d) => d # c /\ cur[d] # e /\ cur[d] \in Events
  BY <1>3 DEF IndInv, CoreInv
<1>10. CoreInv'
  <2>1. ASSUME NEW d \in Cores, d # c
        PROVE  /\ Started(d)' => stack_'[d] \in allocated'
               /\ ~InLoop(d)' => rsp'[d] = None
               /\ InLoop(d)' => ist'[d] = stack_'[d] /\ rsp'[d] = stack_'[d]
               /\ Running(d)' => /\ cur'[d] \in Events
                                 /\ phase'[cur'[d]] \in {"running", "resumed"}
                                 /\ frames'[stack_'[d]] = cur'[d]
               /\ Started(d)' /\ ~Running(d)' => frames'[stack_'[d]] = None
    BY <1>4, <1>7, <1>9, <2>1 DEF IndInv, CoreInv
  <2>2. /\ Started(c)' => stack_'[c] \in allocated'
        /\ ~InLoop(c)' => rsp'[c] = None
        /\ InLoop(c)' => ist'[c] = stack_'[c] /\ rsp'[c] = stack_'[c]
        /\ Running(c)' => /\ cur'[c] \in Events
                          /\ phase'[cur'[c]] \in {"running", "resumed"}
                          /\ frames'[stack_'[c]] = cur'[c]
        /\ Started(c)' /\ ~Running(c)' => frames'[stack_'[c]] = None
    BY <1>2, <1>3, <1>4, <1>7
  <2> QED BY <2>1, <2>2 DEF CoreInv
<1>11. RunsOnce'
  BY <1>7, <1>9 DEF IndInv, RunsOnce
<1>12. TaskInv'
  <2>1. \A d \in Cores : \A i \in Positions(d)' :
          phase'[tasks_'[d][i]] \in {"queued", "waking"}
    BY <1>2, <1>7 DEF IndInv, TaskInv
  <2>2. \A b, d \in Cores : \A i \in Positions(b)', j \in Positions(d)' :
          tasks_'[b][i] = tasks_'[d][j] => b = d /\ i = j
    BY <1>2 DEF IndInv, TaskInv
  <2> QED BY <2>1, <2>2 DEF TaskInv
<1>13. IrrInv'
  BY <1>1, <1>3, <1>4, <1>7 DEF IndInv, IrrInv, TypeOK
<1>14. CtxInv'
  BY <1>4, <1>7 DEF IndInv, CtxInv
<1>15. FreeInv'
  <2>0. allocated' = allocated /\ frames' = frames
    BY <1>4
  <2>1. ASSUME NEW d \in Cores, NEW i \in FreePositions(d)'
        PROVE  /\ free_stacks_'[d][i] \in allocated'
               /\ frames'[free_stacks_'[d][i]] = None
    <3>1. CASE i \in FreePositions(d) /\ free_stacks_'[d][i] = free_stacks_[d][i]
      BY <2>0, <3>1 DEF IndInv, FreeInv
    <3>2. CASE free_stacks_'[d][i] = o
      BY <1>3, <2>0, <3>2
    <3> QED BY <1>5, <3>1, <3>2
  <2>2. \A u \in Stacks \ allocated' : frames'[u] = None
    BY <2>0 DEF IndInv, FreeInv
  <2> QED BY <2>1, <2>2 DEF FreeInv
<1>16. StacksPartitioned'
  <2>1. CurrentStacksApart' /\ CurrentNotSaved'
    BY <1>7, <1>8 DEF IndInv, StacksPartitioned, CurrentStacksApart,
       CurrentNotSaved
  <2>2. CurrentNotFree'
    BY <1>3, <1>5, <1>7, <1>8, SMTT(30) DEF IndInv, StacksPartitioned, CurrentNotFree
  <2>3. FreeStacksApart'
    BY <1>5, <1>8 DEF IndInv, StacksPartitioned, FreeStacksApart
  <2>4. FreeNotSaved'
    BY <1>5, <1>7, <1>8 DEF IndInv, StacksPartitioned, FreeNotSaved
  <2>5. SavedStacksApart'
    BY <1>7 DEF IndInv, StacksPartitioned, SavedStacksApart
  <2>6. NoStackLost'
    <3> SUFFICES ASSUME NEW t \in allocated, t # s, t # o
                 PROVE  \/ \E d \in Cores : Started(d)' /\ stack_'[d] = t
                        \/ \E d \in Cores : \E i \in FreePositions(d)' :
                             free_stacks_'[d][i] = t
                        \/ \E f \in Events : Suspended(f)' /\ ctx'[f].stack = t
      <4>1. Started(c)' /\ stack_'[c] = s
        BY <1>3, <1>7
      <4>2. /\ Len(free_stacks_[c]) + 1 \in FreePositions(c)'
            /\ free_stacks_'[c][Len(free_stacks_[c]) + 1] = o
        BY <1>5
      <4>3. allocated' = allocated
        BY <1>4
      <4> QED BY <4>1, <4>2, <4>3 DEF NoStackLost
    <3>1. CASE \E d \in Cores : Started(d) /\ stack_[d] = t
      BY <1>0, <1>7, <3>1
    <3>2. CASE \E d \in Cores : \E i \in FreePositions(d) : free_stacks_[d][i] = t
      BY <1>5, <3>2
    <3>3. CASE \E f \in Events : Suspended(f) /\ ctx[f].stack = t
      BY <1>0, <1>7, <3>3
    <3> QED
      BY <3>1, <3>2, <3>3 DEF IndInv, StacksPartitioned, NoStackLost
  <2> QED BY <2>1, <2>2, <2>3, <2>4, <2>5, <2>6 DEF StacksPartitioned
<1> QED BY <1>6, <1>10, <1>11, <1>12, <1>13, <1>14, <1>15, <1>16
        DEF IndInv

\* A context takes the core's stack; the core takes another.
LEMMA SaveContextStep ==
  ASSUME IndInv, NEW c \in Cores, SaveContext(c)
  PROVE  IndInv'
<1>0. PICK e, o : e = cur[c] /\ o = stack_[c]
  OBVIOUS
<1>1. TypeOK
  BY DEF IndInv
<1>2. PICK s \in Stacks : /\ AllocateStack(c, s)
                          /\ stack_' = [stack_ EXCEPT ![c] = s]
                          /\ ist' = [ist EXCEPT ![c] = s]
                          /\ rsp' = [rsp EXCEPT ![c] = s]
  BY DEF SaveContext, SetEventStack
<1>3. Taken(s)
  BY <1>2, AllocateStackFacts
<1>4. /\ pc[c] = "run"
      /\ Running(c) /\ Started(c) /\ InLoop(c)
      /\ e \in Events /\ phase[e] \in {"running", "resumed"} /\ ~Suspended(e)
      /\ o \in Stacks /\ o \in allocated /\ rsp[c] = o /\ frames[o] = e
      /\ o # s
  BY <1>0, <1>1, <1>3 DEF SaveContext, IndInv, CoreInv, Started, Running,
     InLoop, Suspended, TypeOK, Taken
<1>5. /\ ctx' = [ctx EXCEPT ![e] = [stack |-> o, rsp |-> o]]
      /\ pc' = [pc EXCEPT ![c] = "process"]
      /\ cur' = [cur EXCEPT ![c] = None]
      /\ phase' = [phase EXCEPT ![e] = "saved"]
      /\ UNCHANGED <<tasks_, vector_idx_, vector_map_, irr, frames>>
  BY <1>0, <1>4 DEF SaveContext
<1>6. TypeOK'
  BY <1>1, <1>2, <1>3, <1>4, <1>5
     DEF TypeOK, Taken, Phases, Locations, Contexts
<1>7. /\ phase'[e] = "saved"
      /\ Suspended(e)' /\ ctx'[e].stack = o /\ ctx'[e].rsp = o
      /\ \A f \in Events : f # e => /\ phase'[f] = phase[f]
                                    /\ ctx'[f] = ctx[f]
                                    /\ Suspended(f)' <=> Suspended(f)
      /\ \A d \in Cores : /\ Started(d)' <=> Started(d)
                          /\ InLoop(d)' <=> InLoop(d)
                          /\ d # c => /\ Running(d)' <=> Running(d)
                                      /\ cur'[d] = cur[d]
                                      /\ stack_'[d] = stack_[d]
                                      /\ ist'[d] = ist[d]
                                      /\ rsp'[d] = rsp[d]
      /\ ~Running(c)'
      /\ stack_'[c] = s /\ ist'[c] = s /\ rsp'[c] = s
  BY <1>1, <1>2, <1>4, <1>5
     DEF TypeOK, Suspended, Started, Running, InLoop
<1>8. frames' = frames /\ tasks_' = tasks_ /\ irr' = irr
  BY <1>5
<1>9. /\ \A d \in Cores : d # c /\ Started(d) => stack_[d] # o
      /\ \A f \in Events : Suspended(f) => ctx[f].stack # o
      /\ \A d \in Cores : \A i \in FreePositions(d) : free_stacks_[d][i] # o
      /\ \A d \in Cores : d # c /\ Running(d) => cur[d] # e
  BY <1>0, <1>4 DEF IndInv, StacksPartitioned, CurrentStacksApart,
     CurrentNotFree, CurrentNotSaved, RunsOnce
<1>10. CoreInv'
  <2>1. ASSUME NEW d \in Cores, d # c
        PROVE  /\ Started(d)' => stack_'[d] \in allocated'
               /\ ~InLoop(d)' => rsp'[d] = None
               /\ InLoop(d)' => ist'[d] = stack_'[d] /\ rsp'[d] = stack_'[d]
               /\ Running(d)' => /\ cur'[d] \in Events
                                 /\ phase'[cur'[d]] \in {"running", "resumed"}
                                 /\ frames'[stack_'[d]] = cur'[d]
               /\ Started(d)' /\ ~Running(d)' => frames'[stack_'[d]] = None
    BY <1>3, <1>7, <1>8, <1>9, <2>1 DEF IndInv, CoreInv, Taken
  <2>2. /\ Started(c)' => stack_'[c] \in allocated'
        /\ ~InLoop(c)' => rsp'[c] = None
        /\ InLoop(c)' => ist'[c] = stack_'[c] /\ rsp'[c] = stack_'[c]
        /\ Running(c)' => /\ cur'[c] \in Events
                          /\ phase'[cur'[c]] \in {"running", "resumed"}
                          /\ frames'[stack_'[c]] = cur'[c]
        /\ Started(c)' /\ ~Running(c)' => frames'[stack_'[c]] = None
    BY <1>3, <1>4, <1>7, <1>8 DEF Taken
  <2> QED BY <2>1, <2>2 DEF CoreInv
<1>11. RunsOnce'
  BY <1>7 DEF IndInv, RunsOnce
<1>12. TaskInv'
  <2>1. \A d \in Cores : \A i \in Positions(d) :
          tasks_[d][i] \in Events /\ tasks_[d][i] # e
    <3>1. \A d \in Cores : \A i \in Positions(d) : tasks_[d][i] \in Events
      BY <1>1, ElementOfSeq DEF TypeOK, Positions
    <3>2. \A d \in Cores : \A i \in Positions(d) : tasks_[d][i] # e
      BY <1>4 DEF IndInv, TaskInv
    <3> QED BY <3>1, <3>2
  <2> QED BY <1>7, <1>8, <2>1 DEF IndInv, TaskInv, Positions
<1>13. IrrInv'
  BY <1>1, <1>4, <1>7, <1>8 DEF IndInv, IrrInv, TypeOK
<1>14. CtxInv'
  BY <1>3, <1>4, <1>7, <1>8 DEF IndInv, CtxInv, Taken
<1>15. FreeInv'
  BY <1>3, <1>8 DEF IndInv, FreeInv, Taken
<1>16. StacksPartitioned'
  <2>1. CurrentStacksApart'
    BY <1>3, <1>7 DEF IndInv, StacksPartitioned, CurrentStacksApart, Taken
  <2>2. CurrentNotSaved'
    BY <1>3, <1>4, <1>7, <1>9
       DEF IndInv, StacksPartitioned, CurrentNotSaved, Taken
  <2>3. CurrentNotFree'
    <3> SUFFICES ASSUME NEW b \in Cores, NEW d \in Cores,
                        NEW i \in FreePositions(d)', Started(b)'
                 PROVE  stack_'[b] # free_stacks_'[d][i]
      BY DEF CurrentNotFree
    <3>1. /\ i \in FreePositions(d)
          /\ free_stacks_'[d][i] = free_stacks_[d][i]
          /\ free_stacks_'[d][i] # s
      BY <1>3 DEF Taken
    <3> QED BY <1>7, <3>1 DEF IndInv, StacksPartitioned, CurrentNotFree
  <2>4. FreeStacksApart'
    BY <1>3 DEF IndInv, StacksPartitioned, FreeStacksApart, Taken
  <2>5. FreeNotSaved'
    BY <1>3, <1>7, <1>9 DEF IndInv, StacksPartitioned, FreeNotSaved, Taken
  <2>6. SavedStacksApart'
    BY <1>7, <1>9 DEF IndInv, StacksPartitioned, SavedStacksApart
  <2>7. NoStackLost'
    <3> SUFFICES ASSUME NEW t \in allocated', t # s, t # o
                 PROVE  \/ \E d \in Cores : Started(d)' /\ stack_'[d] = t
                        \/ \E d \in Cores : \E i \in FreePositions(d)' :
                             free_stacks_'[d][i] = t
                        \/ \E f \in Events : Suspended(f)' /\ ctx'[f].stack = t
      BY <1>4, <1>7 DEF NoStackLost
    <3>1. CASE \E d \in Cores : Started(d) /\ stack_[d] = t
      BY <1>0, <1>7, <3>1
    <3>2. CASE \E d \in Cores : \E i \in FreePositions(d) : free_stacks_[d][i] = t
      BY <1>3, <3>2 DEF Taken
    <3>3. CASE \E f \in Events : Suspended(f) /\ ctx[f].stack = t
      BY <1>4, <1>7, <3>3
    <3>4. t \in allocated
      BY <1>3 DEF Taken
    <3> QED
      BY <3>1, <3>2, <3>3, <3>4 DEF IndInv, StacksPartitioned, NoStackLost
  <2> QED BY <2>1, <2>2, <2>3, <2>4, <2>5, <2>6, <2>7 DEF StacksPartitioned
<1> QED BY <1>6, <1>10, <1>11, <1>12, <1>13, <1>14, <1>15, <1>16
        DEF IndInv

-----------------------------------------------------------------------------
(* The theorems *)

\* Before any core is started there is nothing to go wrong.
LEMMA InitIndInv == Init => IndInv
<1> SUFFICES ASSUME Init PROVE IndInv
  OBVIOUS
<1>1. TypeOK
  BY VectorAssumption, EmptySeq
     DEF Init, TypeOK, Locations, Phases, Contexts, Vectors, IrqVectors
<1>2. \A c \in Cores : pc[c] = "off"
  BY DEF Init
<1>3. CoreInv /\ RunsOnce
  BY <1>2 DEF Init, CoreInv, RunsOnce, Started, Running,
     InLoop
<1>4. /\ \A c \in Cores : Positions(c) = {} /\ FreePositions(c) = {}
      /\ \A e \in Events : ~Suspended(e)
      /\ \A c \in Cores : ~Started(c)
  BY <1>2, EmptySeq DEF Init, Positions, FreePositions, Suspended, Started
<1>5. TaskInv /\ CtxInv
  BY <1>4 DEF TaskInv, CtxInv
<1>6. IrrInv
  BY DEF Init, IrrInv
<1>7. FreeInv /\ StacksPartitioned
  BY <1>4 DEF Init, FreeInv, StacksPartitioned, CurrentStacksApart,
     FreeStacksApart, SavedStacksApart, CurrentNotFree, CurrentNotSaved,
     FreeNotSaved, NoStackLost
<1> QED BY <1>1, <1>3, <1>5, <1>6, <1>7 DEF IndInv

\* IndInv is inductive.
LEMMA NextIndInv == IndInv /\ [Next]_emVars => IndInv'
<1> SUFFICES ASSUME IndInv, [Next]_emVars PROVE IndInv'
  OBVIOUS
<1>1. CASE Next
  <2>1. PICK c \in Cores :
          \/ HandleFault(c)
          \/ StartProcessingEvents(c)
          \/ LoopStep(c)
          \/ EventStep(c)
          \/ LeaveStep(c)
          \/ RaiseInterrupt(c)
    BY <1>1 DEF Next
  <2>2. CASE HandleFault(c)
    BY <2>2, HandleFaultStep
  <2>3. CASE StartProcessingEvents(c) \/ CloseWindow(c) \/ Halt(c)
             \/ Throw(c) \/ AllocateVector(c)
    BY <2>3, LocationStep
  <2>4. CASE SpawnLocal(c) \/ ActivateContext(c)
    BY <2>4, PushTaskStep
  <2>5. CASE RaiseInterrupt(c)
    BY <2>5, RaiseInterruptStep
  <2>6. CASE Return(c)
    BY <2>6, ReturnStep
  <2>7. CASE RunTask(c)
    BY <2>7, RunTaskStep
  <2>8. CASE ProcessInterrupt(c)
    BY <2>8, ProcessInterruptStep
  <2>9. CASE RunActivation(c)
    BY <2>9, RunActivationStep
  <2>10. CASE SaveContext(c)
    BY <2>10, SaveContextStep
  <2> QED BY <2>1, <2>2, <2>3, <2>4, <2>5, <2>6, <2>7, <2>8, <2>9, <2>10
          DEF LoopStep, EventStep, LeaveStep
<1>2. CASE UNCHANGED emVars
  BY <1>2 DEF emVars, IndInv, TypeOK, CoreInv, RunsOnce, TaskInv, IrrInv,
     CtxInv, FreeInv, StacksPartitioned,
     CurrentStacksApart, FreeStacksApart, SavedStacksApart, CurrentNotFree,
     CurrentNotSaved, FreeNotSaved, NoStackLost, Started, Running, InLoop,
     Suspended, Positions, FreePositions
<1> QED BY <1>1, <1>2

\* IndInv holds in every reachable state.
THEOREM EventManagerInvariant == Spec => []IndInv
  BY InitIndInv, NextIndInv, PTL DEF Spec

\* Every variable of the loop keeps its type.
THEOREM EventManagerTypes == Spec => []TypeOK
<1>1. IndInv => TypeOK
  BY DEF IndInv
<1> QED BY <1>1, EventManagerInvariant, PTL

\* However cores, interrupts, saved contexts and activations interleave, a
\* stack has one user at a time and none is lost (stack_, free_stacks_ and
\* EventContext::stack in SaveContext and ActivateContext).
THEOREM StackSafety == Spec => []StacksPartitioned
<1>1. IndInv => StacksPartitioned
  BY DEF IndInv
<1> QED BY <1>1, EventManagerInvariant, PTL

\* A saved context can always be returned to: nothing has run on its stack.
THEOREM ContextSafety == Spec => []ContextsIntact
<1>1. IndInv => ContextsIntact
  BY DEF IndInv, CtxInv, ContextsIntact
<1> QED BY <1>1, EventManagerInvariant, PTL

\* An interrupt never lands on live frames or on another core's stack.
THEOREM InterruptSafety == Spec => []InterruptStackSafe
<1>1. IndInv => InterruptStackSafe
  <2> SUFFICES ASSUME IndInv, NEW c \in Cores,
                      pc[c] \in {"process", "checked", "halt"}
               PROVE  /\ frames[ist[c]] = None
                      /\ \A d \in Cores \ {c} : rsp[d] # ist[c]
    BY DEF InterruptStackSafe
  <2>1. /\ Started(c) /\ ~Running(c) /\ InLoop(c)
        /\ ist[c] = stack_[c] /\ stack_[c] \in Stacks
    BY DEF IndInv, CoreInv, TypeOK, Started, Running, InLoop
  <2>2. frames[ist[c]] = None
    BY <2>1 DEF IndInv, CoreInv
  <2>3. ASSUME NEW d \in Cores \ {c} PROVE rsp[d] # ist[c]
    <3>1. CASE InLoop(d)
      <4>1. rsp[d] = stack_[d] /\ Started(d)
        BY <3>1 DEF IndInv, CoreInv, InLoop, Started
      <4> QED
        BY <2>1, <4>1 DEF IndInv, StacksPartitioned, CurrentStacksApart
    <3>2. CASE ~InLoop(d)
      BY <2>1, <3>2, NoneAssumption DEF IndInv, CoreInv
    <3> QED BY <3>1, <3>2
  <2> QED BY <2>2, <2>3
<1> QED BY <1>1, EventManagerInvariant, PTL

-----------------------------------------------------------------------------
(* EventManager implements EventScheduler.  The mapping reads off the      *)
(* stacks what a core executes and what a context keeps; IndInv says that  *)
(* this is what the event manager takes it to be, and from there on every  *)
(* action is one of EventScheduler or none.                                *)

\* On the stacks is what the event manager believes to be there.
Believed(c) == IF Running(c) THEN cur[c] ELSE None
StacksTell ==
  /\ \A c \in Cores : Executing(c) = Believed(c)
  /\ Kept = {e \in Events : Suspended(e)}

LEMMA StacksTellTruth == IndInv => StacksTell
<1> SUFFICES ASSUME IndInv PROVE StacksTell
  OBVIOUS
<1>1. ASSUME NEW c \in Cores PROVE Executing(c) = Believed(c)
  <2>1. CASE Running(c)
    <3>1. InLoop(c) /\ rsp[c] = stack_[c] /\ frames[stack_[c]] = cur[c]
      BY <2>1 DEF IndInv, CoreInv, Running, InLoop
    <3> QED BY <2>1, <3>1 DEF Executing, Believed, Running
  <2>2. CASE ~Running(c)
    BY <2>2 DEF Executing, Believed, Running
  <2> QED BY <2>1, <2>2
<1>2. \A e \in Events : Suspended(e) => frames[ctx[e].stack] = e
  BY DEF IndInv, CtxInv
<1>3. Kept = {e \in Events : Suspended(e)}
  BY <1>2 DEF Kept
<1> QED BY <1>1, <1>3 DEF StacksTell

\* An event's phase tells where it is.
LEMMA PhaseTells ==
  ASSUME IndInv
  PROVE  /\ \A c \in Cores : \A e \in ReadyOn(c) :
              e \in Events /\ phase[e] \in {"queued", "waking", "raised"}
         /\ \A c \in Cores : Believed(c) # None =>
              /\ Running(c) /\ Believed(c) = cur[c] /\ cur[c] \in Events
              /\ phase[cur[c]] \in {"running", "resumed"}
<1>1. ASSUME NEW c \in Cores, NEW e \in ReadyOn(c)
      PROVE  e \in Events /\ phase[e] \in {"queued", "waking", "raised"}
  <2>1. CASE \E i \in 1 .. Len(tasks_[c]) : e = tasks_[c][i]
    <3>1. PICK i \in Positions(c) : e = tasks_[c][i]
      BY <2>1 DEF Positions
    <3>2. phase[e] \in {"queued", "waking"}
      BY <3>1 DEF IndInv, TaskInv
    <3>3. tasks_[c] \in Seq(Events) /\ i \in 1 .. Len(tasks_[c])
      BY <3>1 DEF IndInv, TypeOK, Positions
    <3>4. e \in Events
      BY <3>1, <3>3, ElementOfSeq
    <3> QED BY <3>2, <3>4
  <2>2. CASE \E v \in IrqVectors : e = irr[c][v] /\ e # None
    <3>1. PICK v \in IrqVectors : e = irr[c][v] /\ e # None
      BY <2>2
    <3>2. irr[c][v] \in Events \cup {None}
      BY DEF IndInv, TypeOK
    <3> QED BY <3>1, <3>2 DEF IndInv, IrrInv
  <2> QED BY <2>1, <2>2 DEF ReadyOn
<1>2. ASSUME NEW c \in Cores, Believed(c) # None
      PROVE  /\ Running(c) /\ Believed(c) = cur[c] /\ cur[c] \in Events
             /\ phase[cur[c]] \in {"running", "resumed"}
  BY <1>2 DEF IndInv, CoreInv, Believed
<1> QED BY <1>1, <1>2

-----------------------------------------------------------------------------
(* How the actions change what is ready *)

\* A task is pushed.
LEMMA PushReady ==
  ASSUME IndInv, NEW c \in Cores, NEW e \in Events,
         tasks_' = [tasks_ EXCEPT ![c] = Append(@, e)], UNCHANGED irr
  PROVE  \A d \in Cores :
           ReadyOn(d)' = IF d = c THEN ReadyOn(d) \cup {e} ELSE ReadyOn(d)
<1>1. tasks_ \in [Cores -> Seq(Events)]
  BY DEF IndInv, TypeOK
<1>2. {tasks_'[c][i] : i \in 1 .. Len(tasks_'[c])}
        = {tasks_[c][i] : i \in 1 .. Len(tasks_[c])} \cup {e}
  <2>1. tasks_'[c] = Append(tasks_[c], e) /\ tasks_[c] \in Seq(Events)
    BY <1>1
  <2> QED BY <2>1, AppendFacts
<1>3. \A d \in Cores : d # c => tasks_'[d] = tasks_[d]
  BY <1>1
<1> QED BY <1>2, <1>3 DEF ReadyOn

\* The top task is popped.
LEMMA PopReady ==
  ASSUME IndInv, NEW c \in Cores, tasks_[c] # <<>>,
         tasks_' = [tasks_ EXCEPT ![c] = Pop(@)], UNCHANGED irr
  PROVE  /\ Top(tasks_[c]) \in ReadyOn(c)
         /\ \A d \in Cores :
              ReadyOn(d)' = IF d = c THEN ReadyOn(d) \ {Top(tasks_[c])}
                                     ELSE ReadyOn(d)
<1> DEFINE s == tasks_[c]
           n == Len(s)
<1>1. tasks_ \in [Cores -> Seq(Events)] /\ s \in Seq(Events)
  BY DEF IndInv, TypeOK
<1>2. /\ n \in 1 .. n /\ Top(s) = s[n]
      /\ \A i \in 1 .. Len(Pop(s)) : i \in 1 .. n /\ i # n /\ Pop(s)[i] = s[i]
      /\ \A i \in 1 .. n : i # n => i \in 1 .. Len(Pop(s)) /\ Pop(s)[i] = s[i]
  BY <1>1, PopFacts
<1>3. \A i \in 1 .. n : s[i] = s[n] => i = n
  BY <1>2 DEF IndInv, TaskInv, Positions
<1>4. phase[s[n]] \in {"queued", "waking"}
  BY <1>2 DEF IndInv, TaskInv, Positions
<1>5. \A v \in IrqVectors : irr[c][v] # None => irr[c][v] # s[n]
  BY <1>4 DEF IndInv, IrrInv
<1>6. tasks_'[c] = Pop(s) /\ \A d \in Cores : d # c => tasks_'[d] = tasks_[d]
  BY <1>1
<1> HIDE DEF s, n
<1>7. {Pop(s)[i] : i \in 1 .. Len(Pop(s))} = {s[i] : i \in 1 .. n} \ {s[n]}
  BY <1>2, <1>3
<1>8. ReadyOn(c) = {s[i] : i \in 1 .. n} \cup ({irr[c][v] : v \in IrqVectors} \ {None})
  BY DEF ReadyOn, s, n
<1>9. ReadyOn(c)' = {Pop(s)[i] : i \in 1 .. Len(Pop(s))}
                      \cup ({irr[c][v] : v \in IrqVectors} \ {None})
  BY <1>6 DEF ReadyOn
<1>10. ReadyOn(c)' = ReadyOn(c) \ {s[n]}
  BY <1>5, <1>7, <1>8, <1>9
<1>11. \A d \in Cores : d # c => ReadyOn(d)' = ReadyOn(d)
  BY <1>6 DEF ReadyOn
<1>12. s[n] \in ReadyOn(c)
  BY <1>2, <1>8
<1> QED BY <1>2, <1>10, <1>11, <1>12 DEF s

\* A pending interrupt is taken.
LEMMA TakeReady ==
  ASSUME IndInv, NEW c \in Cores, NEW v \in IrqVectors, irr[c][v] # None,
         irr' = [irr EXCEPT ![c][v] = None], UNCHANGED tasks_
  PROVE  /\ irr[c][v] \in ReadyOn(c)
         /\ \A d \in Cores :
              ReadyOn(d)' = IF d = c THEN ReadyOn(d) \ {irr[c][v]} ELSE ReadyOn(d)
<1> DEFINE e == irr[c][v]
<1>1. irr \in [Cores -> [IrqVectors -> Events \cup {None}]]
  BY DEF IndInv, TypeOK
<1>2. /\ irr'[c][v] = None
      /\ \A w \in IrqVectors : w # v => irr'[c][w] = irr[c][w]
      /\ \A d \in Cores : d # c => irr'[d] = irr[d]
  BY <1>1
<1>3. phase[e] = "raised" /\ \A w \in IrqVectors : irr[c][w] = e => w = v
  BY DEF IndInv, IrrInv
<1>4. \A i \in 1 .. Len(tasks_[c]) : tasks_[c][i] # e
  BY <1>3 DEF IndInv, TaskInv, Positions
<1> HIDE DEF e
<1>5. ({irr'[c][w] : w \in IrqVectors} \ {None})
        = ({irr[c][w] : w \in IrqVectors} \ {None}) \ {e}
  BY <1>2, <1>3 DEF e
<1>6. ReadyOn(c)' = ReadyOn(c) \ {e}
  BY <1>4, <1>5 DEF ReadyOn
<1>7. \A d \in Cores : d # c => ReadyOn(d)' = ReadyOn(d)
  BY <1>2 DEF ReadyOn
<1>8. e \in ReadyOn(c)
  BY DEF ReadyOn, e
<1> QED BY <1>6, <1>7, <1>8 DEF e

-----------------------------------------------------------------------------
(* Every action is one of EventScheduler's, or none of its steps *)

\* The abstract state before and after, read through StacksTell.
AbstractStep ==
  /\ StacksTell
  /\ StacksTell'

\* A stutter: nothing is pushed, taken, started or ended.
LEMMA StutterStep ==
  ASSUME IndInv, AbstractStep, UNCHANGED <<tasks_, irr, cur, phase>>,
         \A c \in Cores : Running(c)' = Running(c)
  PROVE  UNCHANGED Scheduler!schedVars
<1>1. \A c \in Cores : ReadyOn(c)' = ReadyOn(c)
  BY DEF ReadyOn
<1>2. \A c \in Cores : Executing(c)' = Executing(c)
  BY DEF AbstractStep, StacksTell, Believed
<1>3. Kept' = Kept
  BY DEF AbstractStep, StacksTell, Suspended
<1> QED BY <1>1, <1>2, <1>3 DEF Scheduler!schedVars

\* SpawnLocal and RaiseInterrupt post an event that is nowhere.
LEMMA PostStep ==
  ASSUME IndInv, AbstractStep, NEW c \in Cores, NEW e \in Events,
         phase[e] = "idle",
         phase' = [phase EXCEPT ![e] = "queued"]
           \/ phase' = [phase EXCEPT ![e] = "raised"],
         \A d \in Cores :
           ReadyOn(d)' = IF d = c THEN ReadyOn(d) \cup {e} ELSE ReadyOn(d),
         UNCHANGED <<pc, cur>>
  PROVE  Scheduler!Post(c, e)
<1>1. \A d \in Cores : e \notin ReadyOn(d) /\ Believed(d) # e
  BY PhaseTells, NoneAssumption DEF Believed
<1>2. \A d \in Cores : Executing(d) = Believed(d) /\ Executing(d)' = Executing(d)
  BY DEF AbstractStep, StacksTell, Believed, Running
<1>3. \A f \in Events : Suspended(f)' <=> Suspended(f)
  BY DEF IndInv, TypeOK, Suspended
<1>4. e \notin Kept /\ Kept' = Kept
  BY <1>3 DEF AbstractStep, StacksTell, Suspended
<1> QED BY <1>1, <1>2, <1>4 DEF Scheduler!Post, Scheduler!Away

\* ActivateContext wakes a waiting event.
LEMMA WakeStep ==
  ASSUME IndInv, AbstractStep, NEW c \in Cores, NEW e \in Events,
         phase[e] = "saved", phase' = [phase EXCEPT ![e] = "waking"],
         tasks_' = [tasks_ EXCEPT ![c] = Append(@, e)],
         UNCHANGED <<irr, pc, cur>>
  PROVE  Scheduler!Wake(c, e)
<1>1. \A d \in Cores : e \notin ReadyOn(d) /\ Believed(d) # e
  BY PhaseTells, NoneAssumption DEF Believed
<1>2. \A d \in Cores : Executing(d) = Believed(d) /\ Executing(d)' = Executing(d)
  BY DEF AbstractStep, StacksTell, Believed, Running
<1>3. \A f \in Events : Suspended(f)' <=> Suspended(f)
  BY DEF IndInv, TypeOK, Suspended
<1>4. e \in Kept /\ Kept' = Kept
  BY <1>3 DEF AbstractStep, StacksTell, Suspended
<1>5. \A d \in Cores :
        ReadyOn(d)' = IF d = c THEN ReadyOn(d) \cup {e} ELSE ReadyOn(d)
  BY PushReady
<1> QED BY <1>1, <1>2, <1>4, <1>5 DEF Scheduler!Wake, Scheduler!Away

\* A core outside of any event starts e, which was ready there.
LEMMA RunStep ==
  ASSUME IndInv, AbstractStep, NEW c \in Cores, NEW e \in Events,
         e \in ReadyOn(c), ~Running(c),
         \A d \in Cores :
           ReadyOn(d)' = IF d = c THEN ReadyOn(d) \ {e} ELSE ReadyOn(d),
         NEW p \in {"running", "resumed"}, NEW t, Begin(c, e, t, p)
  PROVE  Scheduler!Run(c, e)
<1>1. /\ pc \in [Cores -> Locations] /\ cur \in [Cores -> Events \cup {None}]
      /\ phase \in [Events -> Phases]
  BY DEF IndInv, TypeOK
<1>2. /\ pc' = [pc EXCEPT ![c] = "run"] /\ cur' = [cur EXCEPT ![c] = e]
      /\ phase' = [phase EXCEPT ![e] = p]
  BY DEF Begin
<1>3. \A d \in Cores : Believed(d)' = IF d = c THEN e ELSE Believed(d)
  BY <1>1, <1>2 DEF Believed, Running
<1>4. /\ \A d \in Cores : Executing(d)' = IF d = c THEN e ELSE Executing(d)
      /\ Executing(c) = None
  BY <1>3 DEF AbstractStep, StacksTell, Believed
<1>5. \A f \in Events : Suspended(f)' <=> Suspended(f) /\ f # e
  BY <1>1, <1>2 DEF Suspended
<1>6. Kept' = Kept \ {e}
  BY <1>5 DEF AbstractStep, StacksTell
<1> QED BY <1>4, <1>6 DEF Scheduler!Run

\* The running event leaves the core: it waits if it is suspended from now
\* on, else it has finished.
LEMMA LeaveCore ==
  ASSUME IndInv, AbstractStep, NEW c \in Cores, pc[c] = "run",
         NEW p \in {"saved", "idle", "done"},
         phase' = [phase EXCEPT ![cur[c]] = p],
         cur' = [cur EXCEPT ![c] = None],
         pc' = [pc EXCEPT ![c] = "process"],
         UNCHANGED <<tasks_, irr>>
  PROVE  Scheduler!Wait(c) \/ Scheduler!Finish(c)
<1>1. /\ pc \in [Cores -> Locations] /\ cur \in [Cores -> Events \cup {None}]
      /\ phase \in [Events -> Phases]
  BY DEF IndInv, TypeOK
<1>2. /\ Running(c) /\ cur[c] \in Events
      /\ phase[cur[c]] \in {"running", "resumed"}
  BY DEF IndInv, CoreInv, Running
<1>3. \A d \in Cores : ReadyOn(d)' = ReadyOn(d)
  BY DEF ReadyOn
<1>4. \A d \in Cores : Believed(d)' = IF d = c THEN None ELSE Believed(d)
  BY <1>1 DEF Believed, Running
<1>5. /\ \A d \in Cores : Executing(d)' = IF d = c THEN None ELSE Executing(d)
      /\ Executing(c) = cur[c] /\ Executing(c) # None
  BY <1>2, <1>4, NoneAssumption DEF AbstractStep, StacksTell, Believed
<1>6. CASE p = "saved"
  <2>1. \A f \in Events : Suspended(f)' <=> Suspended(f) \/ f = cur[c]
    BY <1>1, <1>2, <1>6 DEF Suspended
  <2>2. Kept' = Kept \cup {cur[c]}
    BY <1>2, <2>1 DEF AbstractStep, StacksTell
  <2> QED BY <1>3, <1>5, <2>2 DEF Scheduler!Wait
<1>7. CASE p # "saved"
  <2>1. \A f \in Events : Suspended(f)' <=> Suspended(f)
    BY <1>1, <1>2, <1>7 DEF Suspended
  <2>2. Kept' = Kept
    BY <2>1 DEF AbstractStep, StacksTell
  <2> QED BY <1>3, <1>5, <2>2 DEF Scheduler!Finish
<1> QED BY <1>6, <1>7

\* Taking an interrupt runs its handler, or drops it if it has none.
LEMMA InterruptStep ==
  ASSUME IndInv, AbstractStep, NEW c \in Cores, ProcessInterrupt(c)
  PROVE  \E e \in Events : Scheduler!Run(c, e) \/ Scheduler!Drop(c, e)
<1>1. PICK v \in IrqVectors :
        /\ irr[c][v] # None
        /\ irr' = [irr EXCEPT ![c][v] = None]
        /\ IF v \in vector_map_[c]
           THEN Begin(c, irr[c][v], ist[c], "running")
           ELSE /\ pc' = [pc EXCEPT ![c] = "process"]
                /\ phase' = [phase EXCEPT ![irr[c][v]] = Retired]
                /\ UNCHANGED cur
  BY DEF ProcessInterrupt
<1> DEFINE e == irr[c][v]
<1>2. UNCHANGED tasks_ /\ ~Running(c)
  BY DEF ProcessInterrupt, Running
<1>3. /\ e \in ReadyOn(c)
      /\ \A d \in Cores :
           ReadyOn(d)' = IF d = c THEN ReadyOn(d) \ {e} ELSE ReadyOn(d)
  BY <1>1, <1>2, TakeReady
<1>4. e \in Events /\ phase[e] = "raised"
  BY <1>1, <1>3, PhaseTells DEF IndInv, IrrInv
<1>5. CASE v \in vector_map_[c]
  <2>1. Begin(c, e, ist[c], "running")
    BY <1>1, <1>5
  <2> HIDE DEF e
  <2>2. Scheduler!Run(c, e)
    BY <1>2, <1>3, <1>4, <2>1, RunStep
  <2> QED BY <1>4, <2>2
<1>6. CASE v \notin vector_map_[c]
  <2>1. /\ pc' = [pc EXCEPT ![c] = "process"] /\ cur' = cur
        /\ phase' = [phase EXCEPT ![e] = Retired]
    BY <1>1, <1>6
  <2> HIDE DEF e
  <2>2. \A d \in Cores : Believed(d)' = Believed(d)
    BY <1>2, <2>1 DEF Believed, Running, IndInv, TypeOK
  <2>3. \A d \in Cores : Executing(d)' = Executing(d)
    BY <2>2 DEF AbstractStep, StacksTell
  <2>4. \A f \in Events : (Suspended(f)' <=> Suspended(f)) /\ ~Suspended(e)
    BY <1>4, <2>1 DEF Suspended, IndInv, TypeOK, Retired
  <2>5. Kept' = Kept /\ e \notin Kept
    BY <1>4, <2>4 DEF AbstractStep, StacksTell
  <2>6. Scheduler!Drop(c, e)
    BY <1>3, <2>3, <2>5 DEF Scheduler!Drop
  <2> QED BY <1>4, <2>6
<1> QED BY <1>5, <1>6

\* Popping a task runs an event for the first time or goes on with it.
LEMMA TaskStep ==
  ASSUME IndInv, AbstractStep, NEW c \in Cores, RunTask(c) \/ RunActivation(c)
  PROVE  \E e \in Events : Scheduler!Run(c, e)
<1> DEFINE e == Top(tasks_[c])
<1>1. /\ tasks_[c] # <<>> /\ tasks_' = [tasks_ EXCEPT ![c] = Pop(@)]
      /\ UNCHANGED irr /\ ~Running(c)
  BY DEF RunTask, RunActivation, Running
<1>2. PICK p \in {"running", "resumed"}, t \in {rsp[c], ctx[e].rsp} :
        Begin(c, e, t, p)
  BY DEF RunTask, RunActivation
<1>3. /\ e \in ReadyOn(c)
      /\ \A d \in Cores :
           ReadyOn(d)' = IF d = c THEN ReadyOn(d) \ {e} ELSE ReadyOn(d)
  BY <1>1, PopReady
<1>4. e \in Events
  BY <1>3, PhaseTells
<1> HIDE DEF e
<1>5. Scheduler!Run(c, e)
  BY <1>1, <1>2, <1>3, <1>4, RunStep
<1> QED BY <1>4, <1>5

\* RaiseInterrupt posts the event it stands for.
LEMMA RaiseStep ==
  ASSUME IndInv, AbstractStep, NEW c \in Cores, RaiseInterrupt(c)
  PROVE  \E e \in Events : Scheduler!Post(c, e)
<1>1. PICK v \in IrqVectors, e \in Events :
        /\ irr[c][v] = None /\ phase[e] = "idle"
        /\ irr' = [irr EXCEPT ![c][v] = e]
        /\ phase' = [phase EXCEPT ![e] = "raised"]
  BY DEF RaiseInterrupt
<1>2. UNCHANGED <<tasks_, pc, cur>>
  BY DEF RaiseInterrupt
<1>3. /\ irr'[c][v] = e
      /\ \A w \in IrqVectors : w # v => irr'[c][w] = irr[c][w]
      /\ \A d \in Cores : d # c => irr'[d] = irr[d]
  BY <1>1 DEF IndInv, TypeOK
<1>4. {irr'[c][w] : w \in IrqVectors} \ {None}
        = ({irr[c][w] : w \in IrqVectors} \ {None}) \cup {e}
  BY <1>1, <1>3, NoneAssumption
<1>5. \A d \in Cores :
        ReadyOn(d)' = IF d = c THEN ReadyOn(d) \cup {e} ELSE ReadyOn(d)
  <2>1. \A d \in Cores :
          ReadyOn(d)' = {tasks_[d][i] : i \in 1 .. Len(tasks_[d])}
                          \cup ({irr'[d][w] : w \in IrqVectors} \ {None})
    BY <1>2 DEF ReadyOn
  <2>2. ReadyOn(c)' = ReadyOn(c) \cup {e}
    BY <1>4, <2>1 DEF ReadyOn
  <2>3. ASSUME NEW d \in Cores, d # c
        PROVE  ReadyOn(d)' = ReadyOn(d)
    <3>1. irr'[d] = irr[d]
      BY <1>3, <2>3
    <3>2. {irr'[d][w] : w \in IrqVectors} = {irr[d][w] : w \in IrqVectors}
      BY <3>1
    <3> QED BY <2>1, <2>3, <3>2 DEF ReadyOn
  <2> QED BY <2>2, <2>3
<1>6. Scheduler!Post(c, e)
  BY <1>1, <1>2, <1>5, PostStep
<1> QED BY <1>6

\* Starting, closing the window, halting, throwing and allocating vectors
\* are not steps of the scheduler.
LEMMA SilentStep ==
  ASSUME IndInv, AbstractStep, NEW c \in Cores,
         \/ HandleFault(c) \/ StartProcessingEvents(c) \/ CloseWindow(c)
         \/ Halt(c) \/ Throw(c) \/ AllocateVector(c)
  PROVE  UNCHANGED Scheduler!schedVars
<1>1. UNCHANGED <<tasks_, irr, cur, phase>>
  BY DEF HandleFault, StartProcessingEvents, CloseWindow, Halt, Throw,
     AllocateVector
<1>2. \A d \in Cores : Running(d)' = Running(d)
  <2>1. pc \in [Cores -> Locations]
    BY DEF IndInv, TypeOK
  <2> QED BY <2>1 DEF HandleFault, StartProcessingEvents, CloseWindow, Halt,
             Throw, AllocateVector, Running, InCode
<1> QED BY <1>1, <1>2, StutterStep

-----------------------------------------------------------------------------

\* Before any core is started nothing is ready, running or saved.
LEMMA InitMaps == Init => Scheduler!Init
<1> SUFFICES ASSUME Init PROVE Scheduler!Init
  OBVIOUS
<1>1. ASSUME NEW c \in Cores PROVE ReadyOn(c) = {}
  <2>1. tasks_[c] = <<>> /\ \A v \in IrqVectors : irr[c][v] = None
    BY DEF Init
  <2>2. 1 .. Len(tasks_[c]) = {}
    BY <2>1
  <2> QED BY <2>1, <2>2 DEF ReadyOn
<1>2. \A c \in Cores : Executing(c) = None
  BY DEF Init, Executing
<1>3. Kept = {}
  BY DEF Init, Kept, Suspended
<1> QED BY <1>1, <1>2, <1>3 DEF Scheduler!Init

\* Every step of the event manager is a step of the scheduler or a stutter.
LEMMA NextMaps ==
  IndInv /\ AbstractStep /\ [Next]_emVars => [Scheduler!Next]_(Scheduler!schedVars)
<1> SUFFICES ASSUME IndInv, AbstractStep, [Next]_emVars
             PROVE  Scheduler!Next \/ UNCHANGED Scheduler!schedVars
  OBVIOUS
<1>1. CASE UNCHANGED emVars
  BY <1>1, StutterStep DEF emVars, Running
<1>2. CASE Next
  <2>1. PICK c \in Cores :
          \/ HandleFault(c)
          \/ StartProcessingEvents(c)
          \/ LoopStep(c)
          \/ EventStep(c)
          \/ LeaveStep(c)
          \/ RaiseInterrupt(c)
    BY <1>2 DEF Next
  <2>2. CASE \/ HandleFault(c) \/ StartProcessingEvents(c) \/ CloseWindow(c)
             \/ Halt(c) \/ Throw(c) \/ AllocateVector(c)
    BY <2>2, SilentStep
  <2>3. CASE ProcessInterrupt(c)
    BY <2>3, InterruptStep DEF Scheduler!Next
  <2>4. CASE RunTask(c) \/ RunActivation(c)
    BY <2>4, TaskStep DEF Scheduler!Next
  <2>5. CASE RaiseInterrupt(c)
    BY <2>5, RaiseStep DEF Scheduler!Next
  <2>6. CASE SpawnLocal(c)
    <3>1. PICK e \in Events :
            /\ phase[e] = "idle" /\ phase' = [phase EXCEPT ![e] = "queued"]
            /\ tasks_' = [tasks_ EXCEPT ![c] = Append(@, e)]
      BY <2>6 DEF SpawnLocal
    <3>2. UNCHANGED <<irr, pc, cur>>
      BY <2>6 DEF SpawnLocal
    <3>3. Scheduler!Post(c, e)
      BY <3>1, <3>2, PushReady, PostStep
    <3> QED BY <3>3 DEF Scheduler!Next
  <2>7. CASE ActivateContext(c)
    <3>1. PICK e \in Events :
            /\ phase[e] = "saved" /\ phase' = [phase EXCEPT ![e] = "waking"]
            /\ tasks_' = [tasks_ EXCEPT ![c] = Append(@, e)]
      BY <2>7 DEF ActivateContext
    <3>2. UNCHANGED <<irr, pc, cur>>
      BY <2>7 DEF ActivateContext
    <3>3. Scheduler!Wake(c, e)
      BY <3>1, <3>2, WakeStep
    <3> QED BY <3>3 DEF Scheduler!Next
  <2>8. CASE SaveContext(c) \/ Return(c)
    <3>1. /\ pc[c] = "run"
          /\ \E p \in {"saved", "idle", "done"} :
               phase' = [phase EXCEPT ![cur[c]] = p]
          /\ cur' = [cur EXCEPT ![c] = None]
          /\ pc' = [pc EXCEPT ![c] = "process"]
          /\ UNCHANGED <<tasks_, irr>>
      BY <2>8 DEF SaveContext, Return, Retired
    <3>2. Scheduler!Wait(c) \/ Scheduler!Finish(c)
      BY <3>1, LeaveCore
    <3> QED BY <3>2 DEF Scheduler!Next
  <2> QED BY <2>1, <2>2, <2>3, <2>4, <2>5, <2>6, <2>7, <2>8
          DEF LoopStep, EventStep, LeaveStep
<1> QED BY <1>1, <1>2

\* The event loop implements the scheduler: for any number of cores, events
\* and stacks, a posted event runs once and on one core, and what goes on when
\* a context is activated is the event that saved it, its stack untouched
\* (Process, ProcessInterrupt, SpawnLocal, SaveContext, ActivateContext).
THEOREM SchedulerRefinement == Spec => ImplementsScheduler
<1>1. Init => Scheduler!Init
  BY InitMaps
<1>2. []IndInv /\ [][Next]_emVars => [][Scheduler!Next]_(Scheduler!schedVars)
  <2>1. IndInv /\ IndInv' /\ [Next]_emVars
          => [Scheduler!Next]_(Scheduler!schedVars)
    <3>1. IndInv /\ IndInv' => AbstractStep
      BY StacksTellTruth, PTL DEF AbstractStep
    <3> QED BY <3>1, NextMaps
  <2> QED BY <2>1, PTL
<1> QED BY <1>1, <1>2, EventManagerInvariant, PTL
        DEF Spec, ImplementsScheduler, Scheduler!Spec
=============================================================================
