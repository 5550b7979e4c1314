--------------------------- MODULE EventScheduler ---------------------------
(***************************************************************************)
(* What the event loop promises to the events, without stacks, vectors and *)
(* program counters: an event that was posted to a core runs there, alone, *)
(* until it finishes or waits; one that waits keeps its state until some   *)
(* core is told to wake it, and goes on there with that state.             *)
(***************************************************************************)
CONSTANTS Cores, Events, None

VARIABLES
  ready,      \* [Cores -> SUBSET Events]: to run, or to go on, on that core
  running,    \* [Cores -> Events or None]
  saved       \* the events whose state is kept while they do not run

schedVars == <<ready, running, saved>>

Init ==
  /\ ready = [c \in Cores |-> {}]
  /\ running = [c \in Cores |-> None]
  /\ saved = {}

\* e is neither ready nor running anywhere.
Away(e) == \A c \in Cores : e \notin ready[c] /\ running[c] # e

Post(c, e) ==
  /\ Away(e) /\ e \notin saved
  /\ ready' = [ready EXCEPT ![c] = @ \cup {e}]
  /\ UNCHANGED <<running, saved>>

Wake(c, e) ==
  /\ Away(e) /\ e \in saved
  /\ ready' = [ready EXCEPT ![c] = @ \cup {e}]
  /\ UNCHANGED <<running, saved>>

Run(c, e) ==
  /\ running[c] = None
  /\ e \in ready[c]
  /\ ready' = [ready EXCEPT ![c] = @ \ {e}]
  /\ running' = [running EXCEPT ![c] = e]
  /\ saved' = saved \ {e}

\* An interrupt nobody handles.
Drop(c, e) ==
  /\ e \in ready[c] /\ e \notin saved
  /\ ready' = [ready EXCEPT ![c] = @ \ {e}]
  /\ UNCHANGED <<running, saved>>

Wait(c) ==
  /\ running[c] # None
  /\ saved' = saved \cup {running[c]}
  /\ running' = [running EXCEPT ![c] = None]
  /\ UNCHANGED ready

Finish(c) ==
  /\ running[c] # None
  /\ running' = [running EXCEPT ![c] = None]
  /\ UNCHANGED <<ready, saved>>

Next ==
  \E c \in Cores :
    \/ \E e \in Events : Post(c, e) \/ Wake(c, e) \/ Run(c, e) \/ Drop(c, e)
    \/ Wait(c)
    \/ Finish(c)

Spec == Init /\ [][Next]_schedVars
=============================================================================
