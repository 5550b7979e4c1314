------------------------------- MODULE Clock -------------------------------
(***************************************************************************)
(* Reading the paravirtual clock (src/sys/clock.cpp): clock_init reads the *)
(* wall clock, clock_time the time information of this cpu, both by the    *)
(* same loop over a version the hypervisor makes odd while it updates.     *)
(*                                                                         *)
(* A field is modelled by the number of the update it was written by.  The *)
(* reader and the hypervisor interleave at every load and store.           *)
(***************************************************************************)
EXTENDS Naturals

CONSTANTS
  Fields,         \* sec and nsec, or tsc_timestamp, system_time and so on
  MaxUpdates,     \* bound: updates of the hypervisor
  Unset           \* the value of a local that was not assigned by the loop

ASSUME ClockAssumption == MaxUpdates \in Nat /\ Unset \notin 0 .. MaxUpdates

VARIABLES
  version,        \* in the shared structure
  field,          \* [Fields -> update]: in the shared structure
  written,        \* the fields the update under way has written
  reader,         \* it is at "idle", "version", "fields", "check" or "done"
  seen,           \* the local `version'
  loaded,         \* the fields this turn of the loop has loaded
  got             \* the locals they are loaded into

clockVars == <<version, field, written, reader, seen, loaded, got>>

Updates == 0 .. MaxUpdates
Odd(v) == v % 2 = 1

ClockTypeOK ==
  /\ version \in 0 .. 2 * MaxUpdates
  /\ field \in [Fields -> Updates]
  /\ written \subseteq Fields
  /\ reader \in {"idle", "version", "fields", "check", "done"}
  /\ seen \in 0 .. 2 * MaxUpdates
  /\ loaded \subseteq Fields
  /\ got \in [Fields -> Updates \cup {Unset}]

ClockInit ==
  /\ version = 0
  /\ field = [f \in Fields |-> 0]
  /\ written = {}
  /\ reader = "idle"
  /\ seen = 0
  /\ loaded = {}
  /\ got = [f \in Fields |-> Unset]

-----------------------------------------------------------------------------
(* The hypervisor *)

UpdateBegin ==
  /\ ~Odd(version)
  /\ version < 2 * MaxUpdates
  /\ version' = version + 1
  /\ written' = {}
  /\ UNCHANGED <<field, reader, seen, loaded, got>>

UpdateField(f) ==
  /\ Odd(version)
  /\ f \notin written
  /\ field' = [field EXCEPT ![f] = (version + 1) \div 2]
  /\ written' = written \cup {f}
  /\ UNCHANGED <<version, reader, seen, loaded, got>>

UpdateEnd ==
  /\ Odd(version)
  /\ written = Fields
  /\ version' = version + 1
  /\ UNCHANGED <<field, written, reader, seen, loaded, got>>

-----------------------------------------------------------------------------
(* The reader *)

\* clock_time is called: its locals are fresh.
Call ==
  /\ reader \in {"idle", "done"}
  /\ reader' = "version"
  /\ got' = [f \in Fields |-> Unset]
  /\ UNCHANGED <<version, field, written, seen, loaded>>

\* The version is loaded; if it is odd, `continue', which in a do-while goes
\* on with the test at the end.
LoadVersion ==
  /\ reader = "version"
  /\ seen' = version
  /\ reader' = IF Odd(version) THEN "check" ELSE "fields"
  /\ loaded' = {}
  /\ UNCHANGED <<version, field, written, got>>

\* The loads between the fences, in any order.
LoadField(f) ==
  /\ reader = "fields"
  /\ f \notin loaded
  /\ got' = [got EXCEPT ![f] = field[f]]
  /\ loaded' = loaded \cup {f}
  /\ reader' = IF loaded' = Fields THEN "check" ELSE "fields"
  /\ UNCHANGED <<version, field, written, seen>>

\* A loop that does not look at the version again.
SameVersionAssumed == TRUE

\* version == the version now
SameVersion == seen = version

\* The test of the while.
Check ==
  /\ reader = "check"
  /\ reader' = IF SameVersion THEN "done" ELSE "version"
  /\ UNCHANGED <<version, field, written, seen, loaded, got>>

ClockNext ==
  \/ UpdateBegin
  \/ \E f \in Fields : UpdateField(f)
  \/ UpdateEnd
  \/ Call
  \/ LoadVersion
  \/ \E f \in Fields : LoadField(f)
  \/ Check

ClockSpec == ClockInit /\ [][ClockNext]_clockVars

-----------------------------------------------------------------------------
(* Properties *)

\* A read that ends on an even version took all fields from one and the same
\* update, however many updates begin and end during its loads.
EvenReadsConsistent ==
  reader = "done" /\ ~Odd(seen) => \A f \in Fields : got[f] = seen \div 2
=============================================================================
