------------------------------- MODULE Vring -------------------------------
(***************************************************************************)
(* A virtio ring and the driver that uses it (src/sys/virtio.hpp, class    *)
(* vring; src/sys/virtio_net.cpp).                                         *)
(*                                                                         *)
(* The driver's free descriptors form a list through desc_.next.  A chain  *)
(* of descriptors that describes one message is given to the device        *)
(* through the available ring and comes back through the used ring; the    *)
(* indices of the rings only grow, modulo IndexRange.  Each side tells the *)
(* other, by an event index, from which entry on it wants to be notified,  *)
(* and looks at the ring once more after it has told.                      *)
(*                                                                         *)
(* The driver runs on one core, its interrupt handlers being events of the *)
(* EventManager, so its operations follow one another; the device runs     *)
(* beside it.  Every access to an index the other side writes is a step.   *)
(* Descriptors and ring entries are written before the index that          *)
(* publishes them is stored, in one step with it.                          *)
(***************************************************************************)
EXTENDS Naturals, FiniteSets

CONSTANTS
  qsize,          \* qsize_: descriptors, and entries of each ring
  IndexRange,     \* 2^16: the rings' indices are uint16_t
  Roles,          \* TRUE: the receive queue; FALSE: the send queue
  MaxChain,       \* bound: the longest message sent, in buffers
  MaxReceived,    \* bound: chains the device gives back, on the receive
  MaxSent         \* and on the send queue

ASSUME VringAssumption ==
  /\ qsize \in Nat \ {0} /\ IndexRange \in Nat \ {0}
  /\ IndexRange % qsize = 0 /\ 2 * qsize <= IndexRange
  /\ Roles \subseteq BOOLEAN
  /\ MaxChain \in Nat /\ MaxReceived \in Nat /\ MaxSent \in Nat

Descs == 0 .. qsize - 1
Indices == 0 .. IndexRange - 1

VARIABLES
  receive,        \* this is the receive queue; never changes
  next,           \* desc::next
  more,           \* desc::flags & F_NEXT
  free_head_, free_count_,
  avail_ring, avail_idx, avail_event,
  used_ring, used_idx, used_event,
  pc,             \* where the driver is
  used_index,     \* the local of process_used_buffers and clean_used_buffers
  orig_idx,       \* the local of add_writable_buffers, add_readable_buffer
  buf_references_,\* the chains whose buffers are kept until they come back
  irq, kick,      \* an interrupt, a notification of the device is pending
  device,         \* "awake", "drained": has seen the ring empty;
                  \* "arming": has set avail_event; "asleep"
  last_avail,     \* the device's position in the available ring
  inflight,       \* chains the device has taken and not given back
  signalled,      \* the used index up to which the device has signalled
  gave            \* how many chains the device has given back

descVars == <<receive, next, more, free_head_, free_count_>>
driverVars == <<descVars, avail_ring, avail_idx, used_event, pc, used_index,
                orig_idx, buf_references_>>
deviceVars == <<avail_event, used_ring, used_idx, device, last_avail,
                inflight, signalled, gave>>
vringVars == <<driverVars, deviceVars, irq, kick>>

MaxUsed == IF receive THEN MaxReceived ELSE MaxSent

Plus(i, n) == (i + n) % IndexRange
Minus(i, j) == (i + IndexRange - j) % IndexRange

TypeOK ==
  /\ receive \in BOOLEAN
  /\ next \in [Descs -> Descs]
  /\ more \in [Descs -> BOOLEAN]
  /\ free_head_ \in Descs /\ free_count_ \in 0 .. qsize
  /\ avail_ring \in [Descs -> Descs] /\ used_ring \in [Descs -> Descs]
  /\ {avail_idx, avail_event, used_idx, used_event, used_index, orig_idx,
      last_avail, signalled} \subseteq Indices
  /\ pc \in {"idle", "refill", "notify", "poll", "rearm", "recheck", "consume",
             "abort"}
  /\ buf_references_ \subseteq Descs /\ inflight \subseteq Descs
  /\ irq \in BOOLEAN /\ kick \in BOOLEAN
  /\ device \in {"awake", "drained", "arming", "asleep"}
  /\ gave \in 0 .. MaxUsed

\* The constructor.  The receive queue is filled before the device starts.
Init ==
  /\ receive \in Roles
  /\ next = [d \in Descs |-> IF d = qsize - 1 THEN 0 ELSE d + 1]
  /\ more = [d \in Descs |-> FALSE]
  /\ free_head_ = 0 /\ free_count_ = qsize
  /\ avail_ring = [d \in Descs |-> 0] /\ used_ring = [d \in Descs |-> 0]
  /\ avail_idx = 0 /\ avail_event = 0 /\ used_idx = 0 /\ used_event = 0
  /\ pc = IF receive THEN "refill" ELSE "idle"
  /\ used_index = 0 /\ orig_idx = 0
  /\ buf_references_ = {}
  /\ irq = FALSE /\ kick = FALSE
  /\ device = "asleep" /\ last_avail = 0
  /\ inflight = {}
  /\ signalled = 0
  /\ gave = 0

-----------------------------------------------------------------------------
(* Giving chains to the device *)

\* The n-th descriptor from d along desc_.next, d being the 0-th.
Along(d, n) ==
  LET Step[i \in 0 .. n] == IF i = 0 THEN d ELSE next[Step[i - 1]] IN Step[n]

\* A loop that does not move free_head_ on after the last descriptor.
HeadAfterShort(n) == Along(free_head_, n - 1)

\* free_head_ after n descriptors have been taken from the list
HeadAfter(n) == Along(free_head_, n)

\* free_count_ descriptors, as chains of one buffer each (fill_rx_ring and
\* add_writable_buffers): one entry of the available ring per chain.
AddWritableBuffers ==
  LET n == free_count_ IN
  /\ more' = [d \in Descs |->
                more[d] /\ \A i \in 0 .. (n - 1) : Along(free_head_, i) # d]
  /\ avail_ring' = [e \in Descs |->
       IF \E i \in 0 .. (n - 1) : Plus(avail_idx, i) % qsize = e
       THEN Along(free_head_, CHOOSE i \in 0 .. (n - 1) :
                                Plus(avail_idx, i) % qsize = e)
       ELSE avail_ring[e]]
  /\ free_head_' = HeadAfter(n)
  /\ free_count_' = 0
  /\ orig_idx' = avail_idx
  /\ avail_idx' = Plus(avail_idx, n)

\* At the end of the receive interrupt: refill when half of the descriptors
\* are free.
FillRxRing ==
  /\ pc = "refill"
  /\ IF free_count_ * 2 >= qsize
     THEN AddWritableBuffers /\ pc' = "notify"
     ELSE /\ pc' = "idle"
          /\ UNCHANGED <<more, avail_ring, free_head_, free_count_, orig_idx,
                         avail_idx>>
  /\ UNCHANGED <<receive, next, used_event, used_index, buf_references_,
                 deviceVars, irq, kick>>

\* add_readable_buffer of a message of n buffers, the empty header included.
Send(n) ==
  /\ ~receive /\ pc = "idle"
  /\ free_count_ >= n
  /\ free_count_' = free_count_ - n
  /\ more' = [d \in Descs |->
       IF d = Along(free_head_, n - 1) THEN FALSE
       ELSE more[d] \/ \E i \in 0 .. (n - 2) : Along(free_head_, i) = d]
  /\ free_head_' = HeadAfter(n)
  /\ avail_ring' = [avail_ring EXCEPT ![avail_idx % qsize] = free_head_]
  /\ orig_idx' = avail_idx
  /\ avail_idx' = Plus(avail_idx, 1)
  /\ pc' = "notify"
  /\ UNCHANGED <<receive, next, used_event, used_index, buf_references_,
                 deviceVars, irq, kick>>

\* No more room: kbugon.
SendAborts(n) ==
  /\ ~receive /\ pc = "idle"
  /\ free_count_ < n
  /\ pc' = "abort"
  /\ UNCHANGED <<descVars, avail_ring, avail_idx,
                 used_event, used_index, orig_idx, buf_references_,
                 deviceVars, irq, kick>>

\* A driver that notifies only when the event index is the last entry.
MustKickLast == Minus(avail_idx, Plus(avail_event, 1)) = 0

\* avail_event lies in orig_idx .. avail_idx - 1
MustKick == Minus(avail_idx, Plus(avail_event, 1)) < Minus(avail_idx, orig_idx)

\* After the fence: load avail_event, and kick; a message that is sent is
\* then kept by its first descriptor.
Notify ==
  /\ pc = "notify"
  /\ kick' = (kick \/ MustKick)
  /\ buf_references_' =
       IF receive THEN buf_references_
       ELSE buf_references_ \cup {avail_ring[orig_idx % qsize]}
  /\ pc' = "idle"
  /\ UNCHANGED <<descVars, avail_ring, avail_idx,
                 used_event, used_index, orig_idx, deviceVars, irq>>

-----------------------------------------------------------------------------
(* Taking chains back: process_used_buffers, clean_used_buffers *)

\* The queue's interrupt handler runs.
Interrupt ==
  /\ pc = "idle"
  /\ irq
  /\ irq' = FALSE
  /\ used_index' = used_event
  /\ pc' = "poll"
  /\ UNCHANGED <<descVars, avail_ring, avail_idx,
                 used_event, orig_idx, buf_references_, deviceVars, kick>>

\* The top of the loop: everything is processed, or there is a chain.
Poll ==
  /\ pc = "poll"
  /\ pc' = IF used_index = used_idx THEN "rearm" ELSE "consume"
  /\ UNCHANGED <<descVars, avail_ring, avail_idx, used_event,
                 used_index, orig_idx, buf_references_, deviceVars, irq, kick>>

\* Ask for an interrupt at the next chain.
Rearm ==
  /\ pc = "rearm"
  /\ used_event' = used_index
  /\ pc' = "recheck"
  /\ UNCHANGED <<descVars, avail_ring, avail_idx,
                 used_index, orig_idx, buf_references_, deviceVars, irq, kick>>

AfterLoop == IF receive THEN "refill" ELSE "idle"

\* A driver that trusts the first look.
RecheckSkipped ==
  /\ pc = "recheck"
  /\ pc' = AfterLoop
  /\ UNCHANGED <<descVars, avail_ring, avail_idx,
                 used_event, used_index, orig_idx, buf_references_,
                 deviceVars, irq, kick>>

\* The second look, after the fence.
Recheck ==
  /\ pc = "recheck"
  /\ pc' = IF used_index = used_idx THEN AfterLoop ELSE "consume"
  /\ UNCHANGED <<descVars, avail_ring, avail_idx,
                 used_event, used_index, orig_idx, buf_references_,
                 deviceVars, irq, kick>>

\* How many F_NEXT links the chain at d has.
Links(d) ==
  CHOOSE n \in 0 .. qsize :
    /\ \A i \in 0 .. (n - 1) : more[Along(d, i)]
    /\ n = qsize \/ ~more[Along(d, n)]

\* The entry used_->ring[used_index]: beyond the ring it is whatever memory
\* holds there.
UsedEntries == IF used_index < qsize THEN {used_ring[used_index]} ELSE Descs

\* One chain goes back to the free list, in front.
Consume ==
  /\ pc = "consume"
  /\ \E id \in UsedEntries :
       /\ next' = [next EXCEPT ![Along(id, Links(id))] = free_head_]
       /\ free_head_' = id
       /\ free_count_' = free_count_ + Links(id) + 1
       /\ buf_references_' = buf_references_ \ {id}
  /\ used_index' = Plus(used_index, 1)
  /\ pc' = "poll"
  /\ UNCHANGED <<receive, more, avail_ring, avail_idx, used_event, orig_idx,
                 deviceVars, irq, kick>>

-----------------------------------------------------------------------------
(* The device *)

DeviceTake ==
  /\ device = "awake"
  /\ last_avail # avail_idx
  /\ inflight' = inflight \cup {avail_ring[last_avail % qsize]}
  /\ last_avail' = Plus(last_avail, 1)
  /\ UNCHANGED <<driverVars, avail_event, used_ring, used_idx, device,
                 signalled, gave, irq, kick>>

\* It has taken everything: it asks to be notified, looks again, sleeps.
DeviceDrained ==
  /\ device = "awake"
  /\ last_avail = avail_idx
  /\ device' = "drained"
  /\ UNCHANGED <<driverVars, avail_event, used_ring, used_idx, last_avail,
                 inflight, signalled, gave, irq, kick>>

DeviceArm ==
  /\ device = "drained"
  /\ avail_event' = last_avail
  /\ device' = "arming"
  /\ UNCHANGED <<driverVars, used_ring, used_idx, last_avail, inflight,
                 signalled, gave, irq, kick>>

DeviceRecheck ==
  /\ device = "arming"
  /\ device' = IF last_avail = avail_idx THEN "asleep" ELSE "awake"
  /\ UNCHANGED <<driverVars, avail_event, used_ring, used_idx, last_avail,
                 inflight, signalled, gave, irq, kick>>

DeviceKicked ==
  /\ kick
  /\ kick' = FALSE
  /\ device' = "awake"
  /\ UNCHANGED <<driverVars, avail_event, used_ring, used_idx, last_avail,
                 inflight, signalled, gave, irq>>

\* It gives a chain back: in any order.
DeviceUse ==
  /\ gave < MaxUsed
  /\ \E h \in inflight :
       /\ inflight' = inflight \ {h}
       /\ used_ring' = [used_ring EXCEPT ![used_idx % qsize] = h]
  /\ used_idx' = Plus(used_idx, 1)
  /\ gave' = gave + 1
  /\ UNCHANGED <<driverVars, avail_event, device, last_avail, signalled, irq,
                 kick>>

\* It raises an interrupt if the driver asked for one in between.
DeviceSignal ==
  /\ signalled # used_idx
  /\ irq' = (irq \/ Minus(used_idx, Plus(used_event, 1))
                      < Minus(used_idx, signalled))
  /\ signalled' = used_idx
  /\ UNCHANGED <<driverVars, avail_event, used_ring, used_idx, device,
                 last_avail, inflight, gave, kick>>

-----------------------------------------------------------------------------

DriverStep ==
  \/ FillRxRing
  \/ Notify
  \/ Interrupt
  \/ Poll
  \/ Rearm
  \/ Recheck
  \/ Consume

DeviceStep ==
  \/ DeviceTake
  \/ DeviceDrained
  \/ DeviceArm
  \/ DeviceRecheck
  \/ DeviceKicked

Next ==
  \/ \E n \in 1 .. MaxChain : Send(n) \/ SendAborts(n)
  \/ DriverStep
  \/ DeviceStep
  \/ DeviceUse
  \/ DeviceSignal

Spec == Init /\ [][Next]_vringVars

\* The core runs its handlers and the device its side of the protocol; it
\* need not ever give a chain back (no packet may arrive).
FairSpec ==
  /\ Spec
  /\ WF_vringVars(DriverStep)
  /\ WF_vringVars(DeviceStep)
  /\ WF_vringVars(DeviceSignal)

-----------------------------------------------------------------------------
(* Properties *)

ChainOf(d) == {Along(d, i) : i \in 0 .. Links(d)}

FreeDescs == {Along(free_head_, i) : i \in 0 .. (free_count_ - 1)}

\* The ring positions from i up to j.
Span(i, j) == {Plus(i, n) % qsize : n \in 0 .. (Minus(j, i) - 1)}

Processed == IF pc \in {"poll", "rearm", "recheck", "consume"} THEN used_index
                                                     ELSE used_event

\* The heads of the chains the driver has given away and not got back.
Outstanding ==
  {avail_ring[e] : e \in Span(last_avail, avail_idx)} \cup inflight
    \cup {used_ring[e] : e \in Span(Processed, used_idx)}

\* Every descriptor is free once or in one chain the device has: the free
\* list neither runs into a chain in use (its last link is a stale one, and
\* the counter alone ends it) nor loses descriptors, whatever the order in
\* which chains of different lengths come back; and the buffers of exactly
\* those chains are kept alive (add_readable_buffer, process_used_buffers,
\* clean_used_buffers).
DescriptorsPartitioned ==
  /\ TypeOK
  /\ Cardinality(FreeDescs) = free_count_
  /\ \A d \in Outstanding : ChainOf(d) \cap FreeDescs = {}
  /\ \A d, e \in Outstanding : d # e => ChainOf(d) \cap ChainOf(e) = {}
  /\ FreeDescs \cup UNION {ChainOf(d) : d \in Outstanding} = Descs
  /\ ~receive /\ pc # "notify" => buf_references_ = Outstanding

\* A device that sleeps with no notification under way has nothing left in
\* the available ring: no order of its second look and the driver's load of
\* avail_event loses a kick (virtio.hpp:180).  And a driver that is out of its
\* handler, with no interrupt pending or about to be signalled, has processed
\* all of the used ring ("to avoid a race, we must double check",
\* virtio.hpp:238).
NoLostWakeup ==
  /\ device = "asleep" /\ ~kick /\ pc # "notify" => last_avail = avail_idx
  /\ pc = "idle" /\ ~irq /\ signalled = used_idx => used_event = used_idx

\* What the driver puts back on its free list is the chain the device gave it
\* in that entry (virtio.hpp:244: "the device did give us another used
\* descriptor chain and we must process it").
ProcessesWhatWasUsed ==
  [][pc = "consume" /\ pc' = "poll" =>
       free_head_' = used_ring[used_index % qsize]]_vringVars

\* Whatever is put in the available ring is taken by the device, and what the
\* device gives back is processed, unless the kernel stopped.
RingsDrain ==
  /\ last_avail # avail_idx ~> (last_avail = avail_idx \/ pc = "abort")
  /\ Processed # used_idx ~> (Processed = used_idx \/ pc = "abort")
=============================================================================
