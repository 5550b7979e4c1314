------------------------------- MODULE MCCore -------------------------------
(* An event manager, the timers of a core and the clock.  The three do not   *)
(* share state, so one run takes them one at a time: `part' says which of    *)
(* them moves.                                                               *)
EXTENDS EventManager, ApicTimer, Clock

VARIABLE part

coreVars == <<emVars, timerVars, clockVars, part>>

CoreInit ==
  /\ part \in {"events", "timers", "clock"}
  /\ Init
  /\ TimerInit
  /\ ClockInit

CoreNext ==
  /\ \/ part = "events" /\ Next /\ UNCHANGED <<timerVars, clockVars>>
     \/ part = "timers" /\ TimerNext /\ UNCHANGED <<emVars, clockVars>>
     \/ part = "clock" /\ ClockNext /\ UNCHANGED <<emVars, timerVars>>
  /\ UNCHANGED part

\* The fairness of FairSpec and of TimerFairSpec, for the part that moves.
CoreSpec ==
  /\ CoreInit
  /\ [][CoreNext]_coreVars
  /\ \A c \in Cores :
       /\ WF_emVars(part = "events" /\ StartProcessingEvents(c))
       /\ WF_emVars(part = "events" /\ LoopStep(c))
       /\ WF_emVars(part = "events" /\ LeaveStep(c))
  /\ WF_timerVars(part = "timers" /\ Tick)
  /\ WF_timerVars(part = "timers" /\ HandlerEnter)
  /\ WF_timerVars(part = "timers" /\ (HandlerFire \/ HandlerLeave))
  /\ WF_timerVars(part = "timers" /\ CallbackReturns)
=============================================================================
