--------------------------- MODULE NetworkManager ---------------------------
(***************************************************************************)
(* The network manager over lwIP and the Ethernet driver (src/sys/net.cpp, *)
(* net.hpp, the send and receive handlers of virtio_net.cpp).              *)
(*                                                                         *)
(* Everything runs in events of one core, so an event is not interrupted   *)
(* by another (running says which one has the core); the device works      *)
(* beside it.  The boot event constructs the interfaces and waits in       *)
(* AcquireIPAddress, its context saved, for lwIP's status callback.        *)
(* eth_output gives a pbuf to the driver before it counts the driver's     *)
(* reference.  A Tcp_pcb and lwIP's tcp_pcb point at each other.           *)
(*                                                                         *)
(* lwIP is external: its steps are any of those its interface allows.      *)
(* undefined is set by a use of freed memory, after which the model says   *)
(* nothing; odd notes what, by the code, leads there.                      *)
(***************************************************************************)
EXTENDS Naturals, Sequences, FiniteSets

CONSTANTS
  Pbufs,          \* chains of pbufs lwIP sends
  Tcps,           \* Tcp_pcb objects
  Pcbs,           \* memory for lwIP's tcp_pcb
  FirstRoom,      \* what pbuf_alloc(PBUF_LINK, .., PBUF_POOL) puts in the
  NextRoom,       \* first pbuf and in each other one
  MaxFrame,       \* bound: the longest frame received
  MaxNics,        \* bound: interfaces found
  MaxSends,       \* messages the send queue has room for
  MaxStatus,      \* bound: status changes of the interface
  None

ETH_PAD_SIZE == 2

ASSUME NetAssumption ==
  /\ FirstRoom \in Nat /\ FirstRoom > ETH_PAD_SIZE /\ NextRoom \in Nat \ {0}
  /\ MaxFrame \in Nat /\ MaxNics \in Nat /\ MaxSends \in Nat /\ MaxStatus \in Nat
  /\ None \notin Pbufs \cup Tcps \cup Pcbs \cup {"boot", "input"}
  /\ {"boot", "input"} \cap Pbufs = {}   \* running tells them apart

VARIABLES
  boot,        \* where the boot event is
  interfaces_, \* how many there are
  storage,     \* which allocation of the vector they are in
  itf,         \* the allocation the first driver and lwIP point into
  context,     \* "null", "saved" or "deleted"
  activations, \* activations of it in the event queue
  status,      \* status changes of the interface so far
  running,     \* the event that has the core: None, "boot", "input", or the
               \* pbuf in eth_output
  frame,       \* the frame being received: its length, and the bytes of it
               \* lwIP finds in each pbuf
  chain,       \* [Pbufs -> pbufs in the chain; 0: not allocated]
  ref,         \* [Pbufs -> p->ref]
  own,         \* [Pbufs -> lwIP's references]
  payload,     \* [Pbufs -> how far p->payload is past the padding's start]
  sends,       \* the send queue's messages, in order
  done,        \* how many of them the device has used
  tcp,         \* [Tcps -> its pcb_, or None: no such object]
  pcb,         \* [Pcbs -> [st, arg]]
  odd,         \* see above
  undefined

netifVars == <<interfaces_, storage, itf>>
contextVars == <<context, activations, status>>
pbufVars == <<chain, ref, own, payload>>
sendVars == <<pbufVars, sends, done>>
tcpVars == <<tcp, pcb>>
netVars == <<boot, netifVars, contextVars, running, frame, sendVars, tcpVars,
             odd, undefined>>

NoFrame == [len |-> 0, seen |-> <<>>]
NoPcb == [st |-> "free", arg |-> None]

Init ==
  /\ boot = "init" /\ running = "boot"
  /\ interfaces_ = 0 /\ storage = 0 /\ itf = 0
  /\ context = "null" /\ activations = 0 /\ status = 0
  /\ frame = NoFrame
  /\ chain = [p \in Pbufs |-> 0] /\ ref = [p \in Pbufs |-> 0]
  /\ own = [p \in Pbufs |-> 0] /\ payload = [p \in Pbufs |-> 0]
  /\ sends = <<>> /\ done = 0
  /\ tcp = [t \in Tcps |-> None]
  /\ pcb = [k \in Pcbs |-> NoPcb]
  /\ odd = {} /\ undefined = FALSE

\* The list of buffers for a chain of n pbufs.  It is built from its front, so
\* the pbufs are sent last one first; only the last one's buffer has a deleter
\* that frees the chain.
Message(p, start, n) ==
  [p |-> p, start |-> start, order |-> [i \in 1 .. n |-> n + 1 - i]]

-----------------------------------------------------------------------------
(* Boot: NetworkManager::Init, NewInterface, AcquireIPAddress *)

\* lwip_init, and the timer whose events call sys_check_timeouts.
NetworkInit ==
  /\ boot = "init" /\ boot' = "probe"
  /\ UNCHANGED <<netifVars, contextVars, running, frame, sendVars, tcpVars, odd, undefined>>

\* interfaces_.emplace_back: a vector that is full moves its elements, but not
\* the pointers the driver and netif_add took to them.
NewInterface ==
  /\ boot = "probe" /\ interfaces_ < MaxNics
  /\ interfaces_' = interfaces_ + 1
  /\ storage' = IF interfaces_ \in {0, 1, 2, 4, 8} THEN storage + 1 ELSE storage
  /\ itf' = IF interfaces_ = 0 THEN storage' ELSE itf
  /\ odd' = IF interfaces_ = 0 THEN odd ELSE odd \cup {"second interface"}
  /\ UNCHANGED <<boot, contextVars, running, frame, sendVars, tcpVars, undefined>>

\* kbugon: no interface.
AcquireAborts ==
  /\ boot = "probe" /\ interfaces_ = 0
  /\ boot' = "aborted"
  /\ UNCHANGED <<netifVars, contextVars, running, frame, sendVars, tcpVars, odd, undefined>>

\* dhcp_start sends its first message by eth_output (see below) to the
\* Interface netif_add was given, and frees it; then the boot event leaves the
\* core, its context saved.
AcquireIPAddress ==
  /\ boot = "probe" /\ interfaces_ > 0
  /\ undefined' = (itf # storage)
  /\ \E p \in Pbufs :
       /\ sends' = <<Message(p, ETH_PAD_SIZE, 1)>>
       /\ chain' = [chain EXCEPT ![p] = 1] /\ ref' = [ref EXCEPT ![p] = 1]
  /\ context' = "saved"
  /\ boot' = "waiting" /\ running' = None
  /\ UNCHANGED <<netifVars, activations, status, frame, own, payload, done,
                 tcpVars, odd>>

\* No event has the core: another one may start.
EventsApart == running = None /\ ~undefined /\ boot # "aborted"

\* status_callback with its two statements swapped.
status_callbackSwapped ==
  /\ context' = "deleted"
  /\ undefined' = TRUE
  /\ UNCHANGED activations

\* ActivateContext(*context), which copies the context; delete context.
status_callback ==
  /\ undefined' = (context # "saved")
  /\ context' = "deleted"
  /\ activations' = activations + 1

\* The interface goes up, or down, in an event of lwIP's.
StatusChange ==
  /\ EventsApart /\ status < MaxStatus
  /\ status' = status + 1
  /\ status_callback
  /\ odd' = IF status = 0 THEN odd ELSE odd \cup {"second status"}
  /\ UNCHANGED <<boot, netifVars, running, frame, sendVars, tcpVars>>

\* The activation's event: the boot event goes on after SaveContext.  Its
\* stack is in use once only.
ResumeBoot ==
  /\ EventsApart /\ activations > 0
  /\ activations' = activations - 1
  /\ boot' = "resumed"
  /\ undefined' = (boot = "resumed")
  /\ UNCHANGED <<netifVars, context, status, running, frame, sendVars, tcpVars, odd>>

-----------------------------------------------------------------------------
(* Receiving *)

\* The lengths of the pbufs of a chain of n bytes.
PbufLens(n) ==
  LET more == IF n <= FirstRoom THEN 0
              ELSE (n - FirstRoom + NextRoom - 1) \div NextRoom
  IN [i \in 1 .. more + 1 |->
        CASE i = 1 /\ more = 0 -> n
          [] i = 1 /\ more > 0 -> FirstRoom
          [] i > 1 /\ i <= more -> NextRoom
          [] OTHER -> n - FirstRoom - (more - 1) * NextRoom]

\* The bytes of the frame copied into the i-th pbuf: the pointer into the
\* frame advances by the whole length of each pbuf before, padding included.
CopyInto(i, lens) ==
  LET from == IF i = 1 THEN 0 ELSE FirstRoom + (i - 2) * NextRoom
      add == IF i = 1 THEN ETH_PAD_SIZE ELSE 0
  IN [j \in 1 .. lens[i] - add |-> from + j]

\* The receive handler's ReceivePacket, up to netif_.input.
ReceivePacket(len) ==
  /\ EventsApart /\ boot \in {"waiting", "resumed"}
  /\ LET lens == PbufLens(len + ETH_PAD_SIZE)
     IN frame' = [len |-> len, seen |-> [i \in DOMAIN lens |-> CopyInto(i, lens)]]
  /\ undefined' = (itf # storage)
  /\ running' = "input"
  /\ UNCHANGED <<boot, netifVars, contextVars, sendVars, tcpVars, odd>>

\* netif_.input returns: lwIP has done with the frame.
InputReturns ==
  /\ running = "input"
  /\ running' = None
  /\ frame' = NoFrame
  /\ UNCHANGED <<boot, netifVars, contextVars, sendVars, tcpVars, odd, undefined>>

-----------------------------------------------------------------------------
(* Sending *)

\* lwIP allocates a message of n pbufs and calls eth_output with it, or calls
\* it again with one it still has: pbuf_header, the list of buffers and Send.
eth_outputSend(p, n) ==
  /\ EventsApart /\ boot \in {"waiting", "resumed"} /\ Len(sends) < MaxSends
  /\ \/ chain[p] = 0 /\ ref[p] = 0
        /\ chain' = [chain EXCEPT ![p] = n]
        /\ ref' = [ref EXCEPT ![p] = 1] /\ own' = [own EXCEPT ![p] = 1]
     \/ own[p] = 1 /\ chain[p] = n /\ UNCHANGED <<chain, ref, own>>
  /\ payload' = [payload EXCEPT ![p] = @ + ETH_PAD_SIZE]
  /\ sends' = Append(sends, Message(p, payload'[p], n))
  /\ running' = p
  /\ UNCHANGED <<boot, netifVars, contextVars, frame, done, tcpVars, odd, undefined>>

\* kbugon: no more room in the send queue.
eth_outputAborts ==
  /\ EventsApart /\ boot \in {"waiting", "resumed"} /\ Len(sends) >= MaxSends
  /\ boot' = "aborted"
  /\ UNCHANGED <<netifVars, contextVars, running, frame, sendVars, tcpVars, odd, undefined>>

\* An eth_output that does not move the payload back.
payloadKept(p) == payload[p]

\* pbuf_header(p, ETH_PAD_SIZE)
payloadRestored(p) == payload[p] - ETH_PAD_SIZE

\* The rest of eth_output: pbuf_ref and the second pbuf_header.
eth_outputRef(p) ==
  /\ running = p
  /\ ref' = [ref EXCEPT ![p] = @ + 1]
  /\ payload' = [payload EXCEPT ![p] = payloadRestored(p)]
  /\ running' = None
  /\ UNCHANGED <<boot, netifVars, contextVars, frame, chain, own, sends, done, tcpVars,
                 odd, undefined>>

\* pbuf_free: the chain is gone with its last reference.
pbuf_free(p) ==
  /\ ref' = [ref EXCEPT ![p] = @ - 1]
  /\ chain' = [chain EXCEPT ![p] = IF ref[p] = 1 THEN 0 ELSE @]

\* lwIP frees its reference: at once, or when the data is acknowledged.
LwipFrees(p) ==
  /\ EventsApart /\ own[p] = 1
  /\ own' = [own EXCEPT ![p] = 0]
  /\ pbuf_free(p)
  /\ UNCHANGED <<boot, netifVars, contextVars, running, frame, payload, sends, done,
                 tcpVars, odd, undefined>>

\* The device has sent the next message.
DeviceUses ==
  /\ done < Len(sends)
  /\ done' = done + 1
  /\ UNCHANGED <<boot, netifVars, contextVars, running, frame, pbufVars, sends, tcpVars,
                 odd, undefined>>

\* A clean-up done in the interrupt itself, whatever it interrupts.
CleansInInterrupt == done > 0

CleansInEvent == done > 0 /\ EventsApart

\* clean_used_buffers for the next used message: the buffers of the list are
\* destroyed, and the one deleter runs.
CleanUsedBuffer ==
  /\ CleansInEvent
  /\ pbuf_free(sends[1].p)
  /\ sends' = Tail(sends) /\ done' = done - 1
  /\ UNCHANGED <<boot, netifVars, contextVars, running, frame, own, payload, tcpVars,
                 odd, undefined>>

-----------------------------------------------------------------------------
(* Tcp_pcb *)

InApp == EventsApart /\ boot = "resumed"
FreePcb(k) == pcb[k].st = "free"
onlyTcp == <<boot, netifVars, contextVars, running, frame, sendVars>>

\* The constructor: tcp_new, tcp_arg.
TcpNew(t, k) ==
  /\ InApp /\ tcp[t] = None /\ FreePcb(k)
  /\ tcp' = [tcp EXCEPT ![t] = k]
  /\ pcb' = [pcb EXCEPT ![k] = [st |-> "new", arg |-> t]]
  /\ UNCHANGED <<onlyTcp, odd, undefined>>

\* lwIP refuses an operation on a pcb in another state, and the code throws;
\* so each of these needs the state that lwIP accepts.
Owns(t, st) == InApp /\ tcp[t] # None /\ pcb[tcp[t]] = [st |-> st, arg |-> t]

Bind(t) ==
  /\ Owns(t, "new")
  /\ pcb' = [pcb EXCEPT ![tcp[t]].st = "bound"]
  /\ UNCHANGED <<onlyTcp, tcp, odd, undefined>>

\* Listen that keeps the pointer to the pcb tcp_listen has freed.
ListenPcbKept(t, k) == tcp[t]

ListenPcb(t, k) == k

\* tcp_listen puts a smaller pcb with the same argument in place of a pcb that
\* is closed, bound or not.  Without memory for it (no free k) the code throws.
Listen(t, k) ==
  /\ Owns(t, "new") \/ Owns(t, "bound")
  /\ FreePcb(k)
  /\ pcb' = [pcb EXCEPT ![tcp[t]] = NoPcb, ![k] = [st |-> "listen", arg |-> t]]
  /\ tcp' = [tcp EXCEPT ![t] = ListenPcb(t, k)]
  /\ UNCHANGED <<onlyTcp, odd, undefined>>

Accept(t) ==
  /\ Owns(t, "listen")
  /\ pcb' = [pcb EXCEPT ![tcp[t]].st = "accept"]
  /\ UNCHANGED <<onlyTcp, tcp, odd, undefined>>

Connect(t) ==
  /\ Owns(t, "new") \/ Owns(t, "bound")
  /\ pcb' = [pcb EXCEPT ![tcp[t]].st = "connecting"]
  /\ UNCHANGED <<onlyTcp, tcp, odd, undefined>>

\* The peer answers: Connect_Handler, with its assertion that pcb_ is the pcb,
\* and the callback.
Connect_Handler(k) ==
  /\ EventsApart /\ pcb[k].st = "connecting"
  /\ undefined' = (tcp[pcb[k].arg] # k)
  /\ pcb' = [pcb EXCEPT ![k].st = "connected"]
  /\ UNCHANGED <<onlyTcp, tcp, odd>>

\* A connection arrives: Accept_Handler.  The Tcp_pcb made for it and the copy
\* the callback is given are both destroyed, and each aborts the new pcb.
Accept_Handler(k) ==
  /\ EventsApart /\ pcb[k].st = "accept"
  /\ odd' = odd \cup {"accepted"}
  /\ undefined' = TRUE
  /\ UNCHANGED <<onlyTcp, tcpVars>>

\* The connection fails or is reset: lwIP frees the pcb.  No tcp_err callback
\* is set, so the Tcp_pcb is not told.
ConnectionLost(k) ==
  /\ EventsApart /\ pcb[k].st \in {"connecting", "connected"}
  /\ pcb' = [pcb EXCEPT ![k] = NoPcb]
  /\ odd' = odd \cup {"connection lost"}
  /\ UNCHANGED <<onlyTcp, tcp, undefined>>

\* The destructor: tcp_abort(pcb_), whatever pcb_ now points to.  lwIP asserts
\* that it does not listen.
TcpDestroy(t) ==
  /\ InApp /\ tcp[t] # None
  /\ IF pcb[tcp[t]].st \in {"listen", "accept"}
     THEN boot' = "aborted" /\ UNCHANGED <<tcpVars, undefined>>
     ELSE /\ undefined' = FreePcb(tcp[t])
          /\ tcp' = [tcp EXCEPT ![t] = None]
          /\ pcb' = [pcb EXCEPT ![tcp[t]] = NoPcb]
          /\ UNCHANGED boot
  /\ UNCHANGED <<netifVars, contextVars, running, frame, sendVars, odd>>

-----------------------------------------------------------------------------
Next ==
  \/ NetworkInit \/ NewInterface \/ AcquireAborts \/ AcquireIPAddress
  \/ StatusChange \/ ResumeBoot
  \/ \E len \in 1 .. MaxFrame : ReceivePacket(len)
  \/ InputReturns
  \/ \E p \in Pbufs : \E n \in 1 .. 2 : eth_outputSend(p, n)
  \/ \E p \in Pbufs : eth_outputRef(p) \/ LwipFrees(p)
  \/ eth_outputAborts
  \/ DeviceUses \/ CleanUsedBuffer
  \/ \E t \in Tcps :
       \/ \E k \in Pcbs : TcpNew(t, k) \/ Listen(t, k)
       \/ Bind(t) \/ Accept(t) \/ Connect(t) \/ TcpDestroy(t)
  \/ \E k \in Pcbs : Connect_Handler(k) \/ Accept_Handler(k) \/ ConnectionLost(k)

Spec == Init /\ [][Next]_netVars

-----------------------------------------------------------------------------
(* Properties *)

\* With one interface that comes up once, and no connection lost or accepted:
\* the boot event is saved before the status callback looks for it, is
\* activated once and goes on once, and no freed memory is used by anything.
\* (A second change of status, when a lease is renewed or lost, activates the
\* deleted context: net.cpp:109.)
ContextUsedOnce ==
  odd = {} =>
    /\ ~undefined
    /\ boot = "waiting" /\ status = 0 => context = "saved"
    /\ boot \in {"waiting", "resumed"} =>
         activations + (IF boot = "resumed" THEN 1 ELSE 0) = status

\* The messages of p in the send queue, without one that eth_output has given
\* to the driver and not counted yet.
Counted(p) ==
  {i \in DOMAIN sends : sends[i].p = p /\ ~(running = p /\ i = Len(sends))}

\* A pbuf's count is lwIP's reference and one for each message that has it,
\* and a message's pbufs are the ones it was made of until the driver is done
\* with it, although eth_output sends first and counts then (net.cpp:78).
PbufsCounted ==
  /\ \A p \in Pbufs : ref[p] = own[p] + Cardinality(Counted(p))
  /\ \A i \in DOMAIN sends : chain[sends[i].p] = Len(sends[i].order)

\* Of a received frame that fits the first pbuf lwIP finds every byte in its
\* place, of a longer one the first pbuf's (the others are ETH_PAD_SIZE bytes
\* off: net.cpp:152).  Each message sent starts at its Ethernet header, the
\* padding left out, also when lwIP sends a pbuf again while the driver has
\* it; one of a single pbuf is in order (a chain is reversed: net.cpp:66).
FramesIntact ==
  /\ running = "input" =>
       /\ \A j \in DOMAIN frame.seen[1] : frame.seen[1][j] = j
       /\ frame.len + ETH_PAD_SIZE <= FirstRoom =>
            Len(frame.seen) = 1 /\ Len(frame.seen[1]) = frame.len
  /\ \A i \in DOMAIN sends :
       /\ sends[i].start = ETH_PAD_SIZE
       /\ Len(sends[i].order) = 1 => sends[i].order = <<1>>

\* As long as no connection is lost or accepted, every pcb lwIP may call a
\* handler for has a living Tcp_pcb as its argument, which holds that pcb, in
\* whatever order objects are made, bound, listened on and destroyed.
HandlerArgsAlive ==
  odd \cap {"connection lost", "accepted"} = {} =>
    \A k \in Pcbs : ~FreePcb(k) => pcb[k].arg \in Tcps /\ tcp[pcb[k].arg] = k
=============================================================================
