----------------------------- MODULE ApicTimer -----------------------------
(***************************************************************************)
(* The repeating timers of one core (src/sys/timer.cpp, timer.hpp), on a   *)
(* one-shot local APIC timer.                                              *)
(*                                                                         *)
(* Time passes in units, one tick of the APIC timer each; the clock has    *)
(* the same resolution.  Us units make a microsecond, which is what        *)
(* SetTimer is given: the clock is finer than the timer can be set.  Due   *)
(* times are kept relative to the present, 0 standing for "not later than  *)
(* now".  The handler and the callbacks it runs are one event of the       *)
(* core's EventManager: they are not interrupted, but time goes on while a *)
(* callback runs.                                                          *)
(***************************************************************************)
EXTENDS Integers, Sequences

CONSTANTS
  Timers,         \* identities of the timers that get started
  Timeouts,       \* the timeouts Start is called with, in microseconds
  Us,             \* units (and ticks_per_us_) in a microsecond
  MaxCount,       \* 2^32 - 1: INIT_COUNT is a 32-bit register
  MaxCallback,    \* bound: units a callback may take
  NoTimer         \* no timer

ASSUME TimerAssumption ==
  /\ Timeouts \subseteq Nat \ {0}   \* 0 would keep the handler in its loop
  /\ \E m \in Timeouts : \A n \in Timeouts : n <= m   \* of 64 bits
  /\ Us \in Nat \ {0} /\ MaxCount \in Nat \ {0} /\ MaxCallback \in Nat
  /\ NoTimer \notin Timers

VARIABLES
  timers_,        \* the multimap, by due time: Seq of [id, due, interval]
  count,          \* units until the APIC timer expires; 0: it is stopped
  divider,        \* the local of SetTimer, as written to the DCR
  timer_irq,      \* the timer's interrupt is pending
  stage,          \* "idle", "handler", "callback", or "abort"
  calling,        \* the timer whose callback runs
  since,          \* [Timers -> units since the timer was started or called]
  truncated       \* history: the handler last set the timer to 0 microseconds

timerVars == <<timers_, count, divider, timer_irq, stage, calling, since,
              truncated>>

StartedTimers == {timers_[i].id : i \in 1 .. Len(timers_)}
Intervals == {us * Us : us \in Timeouts}
MaxInterval == CHOOSE m \in Intervals : \A n \in Intervals : n <= m

TimerTypeOK ==
  /\ timers_ \in Seq([id : Timers, due : 0 .. MaxInterval, interval : Intervals])
  /\ count \in 0 .. MaxInterval
  /\ divider \in -1 .. MaxInterval
  /\ timer_irq \in BOOLEAN
  /\ stage \in {"idle", "handler", "callback", "abort"}
  /\ calling \in Timers \cup {NoTimer}
  /\ since \in [Timers -> 0 .. MaxInterval]
  /\ truncated \in BOOLEAN

TimerInit ==
  /\ timers_ = <<>>
  /\ count = 0
  /\ divider = -1
  /\ timer_irq = FALSE
  /\ stage = "idle"
  /\ calling = NoTimer
  /\ since = [t \in Timers |-> 0]
  /\ truncated = FALSE

-----------------------------------------------------------------------------
(* SetTimer *)

\* How often SetTimer halves the ticks until they fit the register.
Shifts(us) ==
  CHOOSE s \in 0 .. us * Us :
    /\ (us * Us) \div 2^s <= MaxCount
    /\ \A r \in 0 .. (s - 1) : (us * Us) \div 2^r > MaxCount

\* The values of divider whose DCR encoding the timer has: -1 is written as
\* 0xb, 0 to 3 mean 2 to 16.  The machine faults on 4 to 7, which set a
\* reserved bit; SetTimer refuses more than 7.
Encodable(d) == d \in -1 .. 3

\* SetTimer ends normally.
CanSet(us) == Encodable(Shifts(us) - 1)

\* The divider and the count of the APIC timer, in units.  A count of 0 stops
\* it.
SetTimer(us) ==
  /\ divider' = Shifts(us) - 1
  /\ count' = ((us * Us) \div 2^Shifts(us)) * 2^Shifts(us)

\* kbugon(divider > 7) or the fault on writing the DCR: the kernel stops.
SetTimerAborts(us) ==
  /\ ~CanSet(us)
  /\ divider' = Shifts(us) - 1
  /\ stage' = "abort"
  /\ UNCHANGED <<timers_, count, timer_irq, calling, since, truncated>>

\* duration_cast<microseconds>
ToMicroseconds(units) == units \div Us

-----------------------------------------------------------------------------
(* Start *)

\* multimap::emplace: before the first entry that is due later.
UpperBound(m, due) ==
  CHOOSE p \in 1 .. Len(m) + 1 :
    /\ \A i \in 1 .. p - 1 : m[i].due <= due
    /\ p <= Len(m) => m[p].due > due

Emplace(m, entry) ==
  LET p == UpperBound(m, entry.due)
  IN  SubSeq(m, 1, p - 1) \o <<entry>> \o SubSeq(m, p, Len(m))

\* Start does not look at the timers that are already there.
NeedsSettingOnlyFirst(when) == timers_ = <<>>

\* timers_.empty() || timers_.begin()->first > when
NeedsSetting(when) == timers_ # <<>> => timers_[1].due > when

\* Start(timeout, f), by any event of the core or by a callback.
Start(t, timeout) ==
  /\ stage \in {"idle", "callback"}
  /\ t \notin StartedTimers
  /\ IF NeedsSetting(timeout * Us)
     THEN CanSet(timeout) /\ SetTimer(timeout)
     ELSE UNCHANGED <<count, divider>>
  /\ timers_' = Emplace(timers_, [id |-> t, due |-> timeout * Us,
                                  interval |-> timeout * Us])
  /\ since' = [since EXCEPT ![t] = 0]
  /\ UNCHANGED <<timer_irq, stage, calling, truncated>>

\* A timeout the divider cannot reach.
StartTooLong(timeout) ==
  /\ stage \in {"idle", "callback"}
  /\ NeedsSetting(timeout * Us)
  /\ SetTimerAborts(timeout)

-----------------------------------------------------------------------------
(* The interrupt handler *)

\* The core takes the timer's interrupt.
HandlerEnter ==
  /\ stage = "idle"
  /\ timer_irq
  /\ timer_irq' = FALSE
  /\ stage' = "handler"
  /\ UNCHANGED <<timers_, count, divider, calling, since, truncated>>

\* A handler that counts the next interval from when the timer was due, a
\* tick ago.
NextDueFromDue(entry) == entry.interval - 1

\* now + interval
NextDue(entry) == entry.interval

\* One turn of the while: the first timer is due; it is put back in for its
\* next time, and called.
HandlerFire ==
  /\ stage = "handler"
  /\ timers_ # <<>> /\ timers_[1].due = 0
  /\ LET first == timers_[1] IN
     /\ timers_' = Emplace(Tail(timers_), [first EXCEPT !.due = NextDue(first)])
     /\ calling' = first.id
     /\ since' = [since EXCEPT ![first.id] = 0]
  /\ stage' = "callback"
  /\ UNCHANGED <<count, divider, timer_irq, truncated>>

CallbackReturns ==
  /\ stage = "callback"
  /\ stage' = "handler"
  /\ calling' = NoTimer
  /\ UNCHANGED <<timers_, count, divider, timer_irq, since, truncated>>

\* A handler that leaves the timer as it is.
HandlerLeaveUnset ==
  /\ stage = "handler"
  /\ timers_ # <<>> /\ timers_[1].due > 0
  /\ stage' = "idle"
  /\ UNCHANGED <<timers_, count, divider, timer_irq, calling, since, truncated>>

\* No more timer is due: set the timer for the first one, or stop it if that is
\* due in less than a microsecond.  It is due no later than the shortest timeout,
\* which Start could set: this SetTimer never aborts (OnlyTruncationStops would
\* see the handler stop here).
HandlerLeave ==
  /\ stage = "handler"
  /\ timers_ # <<>> /\ timers_[1].due > 0
  /\ CanSet(ToMicroseconds(timers_[1].due))
  /\ SetTimer(ToMicroseconds(timers_[1].due))
  /\ truncated' = (timers_[1].due < Us)
  /\ stage' = "idle"
  /\ UNCHANGED <<timers_, timer_irq, calling, since>>

-----------------------------------------------------------------------------
(* The machine *)

Bounded(n) == IF n > MaxInterval THEN MaxInterval ELSE n

\* A unit of time passes.  Callbacks take at most MaxCallback of them; the
\* handler itself takes none.
Tick ==
  /\ stage \in {"idle", "callback"}
  /\ stage = "callback" => since[calling] < MaxCallback
  /\ timers_' = [i \in 1 .. Len(timers_) |->
                   [timers_[i] EXCEPT !.due = IF @ = 0 THEN 0 ELSE @ - 1]]
  /\ count' = IF count = 0 THEN 0 ELSE count - 1
  /\ timer_irq' = (timer_irq \/ count = 1)
  /\ since' = [t \in Timers |-> Bounded(since[t] + 1)]
  /\ UNCHANGED <<divider, stage, calling, truncated>>

TimerNext ==
  \/ \E t \in Timers, timeout \in Timeouts : Start(t, timeout)
  \/ \E timeout \in Timeouts : StartTooLong(timeout)
  \/ HandlerEnter
  \/ HandlerFire
  \/ CallbackReturns
  \/ HandlerLeave
  \/ Tick

TimerSpec == TimerInit /\ [][TimerNext]_timerVars

\* Time passes, the core takes its interrupts, callbacks return.
TimerFairSpec ==
  /\ TimerSpec
  /\ WF_timerVars(Tick)
  /\ WF_timerVars(HandlerEnter)
  /\ WF_timerVars(HandlerFire \/ HandlerLeave)
  /\ WF_timerVars(CallbackReturns)

-----------------------------------------------------------------------------
(* Properties *)

\* The handler gave SetTimer less than a microsecond, as 0: no interrupt will
\* come, although a timer is due.  Start arms the timer no more, for every
\* timeout is longer than what is left to the first.
StoppedByTruncation ==
  /\ truncated
  /\ stage = "idle" /\ ~timer_irq /\ count = 0
  /\ timers_ # <<>> /\ timers_[1].due < Us

\* While the core is not in the handler and some timer is started, the APIC
\* timer runs out no later than the first timer is due, or its interrupt is
\* already pending: no order of Start, callbacks that start timers, early
\* interrupts (the count is rounded down by the divider) and late handlers
\* leaves a timer behind.  Only the truncation of the handler does
\* (timer.cpp:32), within a microsecond of the first timer's time.
ArmedForFirst ==
  /\ TimerTypeOK
  /\ stage = "idle" /\ timers_ # <<>> =>
       \/ timer_irq
       \/ count > 0 /\ count <= timers_[1].due
       \/ StoppedByTruncation

\* At least its timeout lies between two calls of a timer, and between Start
\* and the first call, whatever other callbacks hold the handler up.
CallsSpaced ==
  [][stage = "handler" /\ stage' = "callback" =>
       \A i \in 1 .. Len(timers_) :
         timers_[i].id = calling' => since[calling'] >= timers_[i].interval]_timerVars

Called(t) == stage = "callback" /\ calling = t

\* A timer that was started is called, again and again (a timer stays in
\* timers_ for ever): the comment "we assume timers are repeating so we add
\* the next one" at timer.cpp:21.  (A timeout the divider cannot reach stops
\* the kernel.)
TimersRepeat == \A t \in Timers : t \in StartedTimers ~> (Called(t) \/ stage = "abort")

\* A timer that was started is called, again and again, or the truncation of
\* the handler has stopped all of them: neither an interrupt that comes early,
\* nor the time callbacks take, nor timers started in between stop them.
OnlyTruncationStops ==
  \A t \in Timers :
    t \in StartedTimers ~> (Called(t) \/ stage = "abort" \/ StoppedByTruncation)
=============================================================================
