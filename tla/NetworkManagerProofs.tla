------------------------ MODULE NetworkManagerProofs ------------------------
(***************************************************************************)
(* The network manager's properties, for any number of pbufs, Tcp_pcbs,    *)
(* tcp_pcbs, frame lengths, interfaces and messages.                       *)
(*                                                                         *)
(* The invariant has three parts that hardly meet: TcpInv (what Tcp_pcb    *)
(* and tcp_pcb know of each other), BootInv (the boot event's saved        *)
(* context, which also needs that nothing else has used freed memory) and  *)
(* SendInv (who counts a pbuf).                                            *)
(***************************************************************************)
EXTENDS NetworkManager, TLAPS, FiniteSetTheorems, FunctionTheorems,
        SequenceTheorems

PcbStates == {"free", "new", "bound", "listen", "accept", "connecting", "connected"}
PcbRecords == [st : PcbStates, arg : Tcps \cup {None}]
Messages == [p : Pbufs, start : Nat, order : Seq(Nat)]

TcpTypeOK ==
  /\ tcp \in [Tcps -> Pcbs \cup {None}]
  /\ pcb \in [Pcbs -> PcbRecords]

BootTypeOK ==
  /\ boot \in {"init", "probe", "waiting", "resumed", "aborted"}
  /\ interfaces_ \in Nat /\ storage \in Nat /\ itf \in Nat
  /\ activations \in Nat /\ status \in Nat
  /\ running \in Pbufs \cup {None, "boot", "input"}
  /\ undefined \in BOOLEAN

SendTypeOK ==
  /\ chain \in [Pbufs -> Nat]
  /\ ref \in [Pbufs -> Nat]
  /\ own \in [Pbufs -> {0, 1}]
  /\ payload \in [Pbufs -> Nat]
  /\ sends \in Seq(Messages)
  /\ done \in 0 .. Len(sends)

-----------------------------------------------------------------------------
(* Tcp_pcb and tcp_pcb *)

NoneLost == odd \cap {"connection lost", "accepted"} = {}

\* A Tcp_pcb and lwIP's tcp_pcb point at each other.
Linked ==
  /\ \A k \in Pcbs : pcb[k].st # "free" => pcb[k].arg \in Tcps /\ tcp[pcb[k].arg] = k
  /\ \A t \in Tcps : tcp[t] # None => pcb[tcp[t]].st # "free" /\ pcb[tcp[t]].arg = t

\* So they do until a connection is lost or accepted.
TcpInv == TcpTypeOK /\ (NoneLost => Linked)

-----------------------------------------------------------------------------
(* The boot event *)

\* Until something odd has happened there is at most one interface, in the
\* place the driver and lwIP know, its status has changed at most once, and
\* the saved context has been used as often.
BootInv ==
  /\ BootTypeOK
  /\ boot \in {"init", "probe"} => running = "boot" /\ status = 0 /\ activations = 0
  /\ odd = {} =>
       /\ ~undefined
       /\ itf = storage /\ interfaces_ <= 1 /\ status <= 1
       /\ boot \in {"waiting", "resumed"} =>
            /\ status = 0 => context = "saved"
            /\ activations + (IF boot = "resumed" THEN 1 ELSE 0) = status

-----------------------------------------------------------------------------
(* Pbufs *)

\* An eth_output under way has just put its pbuf into the queue, and lwIP
\* holds on to it.
OutputInv ==
  /\ boot \in {"init", "probe"} =>
       /\ sends = <<>> /\ running = "boot"
       /\ \A p \in Pbufs : ref[p] = 0 /\ own[p] = 0 /\ chain[p] = 0
  /\ \A p \in Pbufs : running = p =>
       own[p] = 1 /\ Len(sends) > 0 /\ sends[Len(sends)].p = p
  /\ \A p \in Pbufs : payload[p] = IF running = p THEN ETH_PAD_SIZE ELSE 0

SendInv == SendTypeOK /\ OutputInv /\ PbufsCounted

\* The steps that do not touch the pcbs.
LEMMA TcpUnchanged ==
  ASSUME TcpInv, UNCHANGED tcpVars, odd \subseteq odd'
  PROVE  TcpInv'
BY DEF TcpInv, tcpVars, TcpTypeOK, NoneLost, Linked

\* Every step keeps the pointers of Tcp_pcb objects and pcbs in agreement.
LEMMA TcpStep == TcpInv /\ [Next]_netVars => TcpInv'
<1> SUFFICES ASSUME TcpInv, [Next]_netVars PROVE TcpInv'
  OBVIOUS
<1> USE NetAssumption
<1>0. TcpTypeOK
  BY DEF TcpInv
<1>1. CASE NetworkInit \/ NewInterface \/ AcquireAborts \/ AcquireIPAddress
             \/ StatusChange \/ ResumeBoot
  BY <1>1, TcpUnchanged DEF NetworkInit, NewInterface, AcquireAborts, AcquireIPAddress,
                            StatusChange, ResumeBoot
<1>2. CASE (\E len \in 1 .. MaxFrame : ReceivePacket(len)) \/ InputReturns
             \/ eth_outputAborts \/ DeviceUses \/ CleanUsedBuffer
  BY <1>2, TcpUnchanged DEF ReceivePacket, InputReturns, eth_outputAborts, DeviceUses,
                            CleanUsedBuffer
<1>3. CASE \E p \in Pbufs : \/ \E n \in 1 .. 2 : eth_outputSend(p, n)
                            \/ eth_outputRef(p) \/ LwipFrees(p)
  BY <1>3, TcpUnchanged DEF eth_outputSend, eth_outputRef, LwipFrees
<1>4. ASSUME NEW t \in Tcps, NEW k \in Pcbs, TcpNew(t, k) PROVE TcpInv'
  <2>1. /\ tcp[t] = None /\ pcb[k].st = "free" /\ odd' = odd
        /\ tcp' = [tcp EXCEPT ![t] = k]
        /\ pcb' = [pcb EXCEPT ![k] = [st |-> "new", arg |-> t]]
    BY <1>4 DEF TcpNew, FreePcb
  <2>2. TcpTypeOK'
    BY <1>0, <2>1 DEF TcpTypeOK, PcbRecords, PcbStates
  <2>3. /\ \A j \in Pcbs : pcb'[j] = IF j = k THEN [st |-> "new", arg |-> t] ELSE pcb[j]
        /\ \A u \in Tcps : tcp'[u] = IF u = t THEN k ELSE tcp[u]
    BY <1>0, <2>1 DEF TcpTypeOK
  <2>4. \A u \in Tcps : tcp[u] = None \/ tcp[u] \in Pcbs
    BY <1>0 DEF TcpTypeOK
  <2>5. Linked => Linked'
    BY <2>1, <2>3, <2>4 DEF Linked
  <2> QED BY <2>1, <2>2, <2>5 DEF TcpInv, NoneLost
<1>5. ASSUME NEW t \in Tcps, NEW k \in Pcbs, Listen(t, k) PROVE TcpInv'
  <2>1. /\ tcp[t] \in Pcbs /\ pcb[tcp[t]].st # "free" /\ pcb[k].st = "free" /\ k # tcp[t]
        /\ pcb' = [pcb EXCEPT ![tcp[t]] = NoPcb, ![k] = [st |-> "listen", arg |-> t]]
        /\ tcp' = [tcp EXCEPT ![t] = k] /\ odd' = odd
    BY <1>0, <1>5 DEF Listen, Owns, FreePcb, ListenPcb, TcpTypeOK
  <2>2. TcpTypeOK'
    BY <1>0, <2>1 DEF TcpTypeOK, PcbRecords, PcbStates, NoPcb
  <2>3. /\ \A j \in Pcbs : pcb'[j] = IF j = k THEN [st |-> "listen", arg |-> t]
                                   ELSE IF j = tcp[t] THEN NoPcb ELSE pcb[j]
        /\ \A u \in Tcps : tcp'[u] = IF u = t THEN k ELSE tcp[u]
    BY <1>0, <2>1 DEF TcpTypeOK
  <2>4. \A u \in Tcps : tcp[u] = None \/ tcp[u] \in Pcbs
    BY <1>0 DEF TcpTypeOK
  <2>5. ASSUME Linked PROVE Linked'
    <3>1. \A u \in Tcps \ {t} : tcp[u] # k /\ tcp[u] # tcp[t]
      BY <2>1, <2>4, <2>5 DEF Linked
    <3>2. \A j \in Pcbs : /\ j = k => pcb'[j].st = "listen" /\ pcb'[j].arg = t
                          /\ j = tcp[t] => pcb'[j].st = "free"
                          /\ j # k /\ j # tcp[t] => pcb'[j] = pcb[j]
      <4>1. k # tcp[t]
        BY <2>1
      <4> QED BY ONLY <2>3, <4>1 DEF NoPcb
    <3>3. \A j \in Pcbs : j # tcp[t] /\ pcb[j].st # "free" => pcb[j].arg \in Tcps \ {t}
      BY <2>5 DEF Linked
    <3>4. \A j \in Pcbs : pcb'[j].st # "free" => pcb'[j].arg \in Tcps /\ tcp'[pcb'[j].arg] = j
      BY <2>3, <2>5, <3>2, <3>3 DEF Linked
    <3>5. \A u \in Tcps : tcp'[u] # None => pcb'[tcp'[u]].st # "free" /\ pcb'[tcp'[u]].arg = u
      BY <2>3, <2>4, <2>5, <3>1, <3>2 DEF Linked
    <3> QED BY <3>4, <3>5 DEF Linked
  <2> QED BY <2>1, <2>2, <2>5 DEF TcpInv, NoneLost
<1>6. ASSUME NEW t \in Tcps, NEW s \in {"bound", "accept", "connecting"},
             tcp[t] # None, ~FreePcb(tcp[t]),
             pcb' = [pcb EXCEPT ![tcp[t]].st = s], UNCHANGED <<tcp, odd>>
      PROVE  TcpInv'
  <2>1. tcp[t] \in Pcbs
    BY <1>0, <1>6 DEF TcpTypeOK
  <2>2. TcpTypeOK'
    BY <1>0, <1>6, <2>1 DEF TcpTypeOK, PcbRecords, PcbStates
  <2>3. \A j \in Pcbs : /\ pcb'[j].arg = pcb[j].arg
                        /\ pcb'[j].st = IF j = tcp[t] THEN s ELSE pcb[j].st
    BY <1>0, <1>6, <2>1 DEF TcpTypeOK, PcbRecords
  <2>4. \A u \in Tcps : tcp[u] = None \/ tcp[u] \in Pcbs
    BY <1>0 DEF TcpTypeOK
  <2>5. Linked => Linked'
    BY <1>6, <2>1, <2>3, <2>4 DEF Linked
  <2> QED BY <1>6, <2>2, <2>5 DEF TcpInv, NoneLost
<1>7. ASSUME NEW t \in Tcps, Bind(t) \/ Accept(t) \/ Connect(t) PROVE TcpInv'
  BY <1>6, <1>7 DEF Bind, Accept, Connect, Owns, FreePcb
<1>8. ASSUME NEW t \in Tcps, TcpDestroy(t) PROVE TcpInv'
  <2>1. tcp[t] \in Pcbs /\ odd' = odd
    BY <1>0, <1>8 DEF TcpDestroy, TcpTypeOK
  <2>2. CASE UNCHANGED tcpVars
    BY <2>1, <2>2, TcpUnchanged
  <2>3. CASE /\ tcp' = [tcp EXCEPT ![t] = None]
             /\ pcb' = [pcb EXCEPT ![tcp[t]] = NoPcb]
    <3>1. TcpTypeOK'
      BY <1>0, <2>1, <2>3 DEF TcpTypeOK, PcbRecords, PcbStates, NoPcb
    <3>2. /\ \A j \in Pcbs : pcb'[j] = IF j = tcp[t] THEN NoPcb ELSE pcb[j]
          /\ \A u \in Tcps : tcp'[u] = IF u = t THEN None ELSE tcp[u]
      BY <1>0, <2>1, <2>3 DEF TcpTypeOK
    <3>3. \A u \in Tcps : tcp[u] = None \/ tcp[u] \in Pcbs
      BY <1>0 DEF TcpTypeOK
    <3>4. Linked => Linked'
      BY <2>1, <3>2, <3>3 DEF Linked, NoPcb
    <3> QED BY <2>1, <3>1, <3>4 DEF TcpInv, NoneLost
  <2> QED BY <1>8, <2>2, <2>3 DEF TcpDestroy
<1>9. ASSUME NEW k \in Pcbs, Connect_Handler(k) PROVE TcpInv'
  <2>1. /\ pcb[k].st = "connecting" /\ UNCHANGED <<tcp, odd>>
        /\ pcb' = [pcb EXCEPT ![k].st = "connected"]
    BY <1>9 DEF Connect_Handler
  <2>2. TcpTypeOK'
    BY <1>0, <2>1 DEF TcpTypeOK, PcbRecords, PcbStates
  <2>3. \A j \in Pcbs : /\ pcb'[j].arg = pcb[j].arg
                        /\ pcb'[j].st = IF j = k THEN "connected" ELSE pcb[j].st
    BY <1>0, <2>1 DEF TcpTypeOK, PcbRecords
  <2>4. \A u \in Tcps : tcp[u] = None \/ tcp[u] \in Pcbs
    BY <1>0 DEF TcpTypeOK
  <2>5. Linked => Linked'
    BY <2>1, <2>3, <2>4 DEF Linked
  <2> QED BY <2>1, <2>2, <2>5 DEF TcpInv, NoneLost
<1>10. ASSUME NEW k \in Pcbs, Accept_Handler(k) PROVE TcpInv'
  BY <1>10, TcpUnchanged DEF Accept_Handler
<1>11. ASSUME NEW k \in Pcbs, ConnectionLost(k) PROVE TcpInv'
  BY <1>0, <1>11 DEF ConnectionLost, TcpInv, TcpTypeOK, NoneLost, PcbRecords, PcbStates, NoPcb
<1>12. CASE UNCHANGED netVars
  BY <1>12, TcpUnchanged DEF netVars
<1> QED
  BY <1>1, <1>2, <1>3, <1>4, <1>5, <1>7, <1>8, <1>9, <1>10, <1>11, <1>12 DEF Next

\* The boot event's context.  TcpInv is what keeps handlers and destructors
\* off freed memory.
LEMMA BootStep == TcpInv /\ BootInv /\ [Next]_netVars => BootInv'
<1> SUFFICES ASSUME TcpInv, BootInv, [Next]_netVars PROVE BootInv'
  OBVIOUS
<1> USE NetAssumption DEF BootInv, BootTypeOK, netifVars, contextVars
<1>1. CASE NetworkInit \/ AcquireAborts
  <2>1. /\ (boot = "init" /\ boot' = "probe") \/ boot' = "aborted"
        /\ UNCHANGED <<interfaces_, storage, itf, context, activations, status, running, odd, undefined>>
    BY <1>1 DEF NetworkInit, AcquireAborts
  <2>2. BootTypeOK'
    BY <2>1
  <2> QED BY <2>1, <2>2
<1>2. CASE NewInterface
  <2>1. BootTypeOK'
    <3>1. /\ interfaces_' = interfaces_ + 1 /\ storage' \in {storage, storage + 1}
          /\ itf' \in {itf, storage'}
          /\ UNCHANGED <<boot, activations, status, running, undefined>>
      BY <1>2 DEF NewInterface
    <3> QED BY <3>1
  <2>2. CASE interfaces_ = 0
    <3>1. /\ interfaces_' = 1 /\ itf' = storage' /\ odd' = odd
          /\ UNCHANGED <<boot, context, activations, status, running, undefined>>
      BY <1>2, <2>2 DEF NewInterface
    <3> QED BY <2>1, <3>1
  <2>3. CASE interfaces_ # 0
    <3>1. odd' # {} /\ UNCHANGED <<boot, context, activations, status, running, undefined>>
      BY <1>2, <2>3 DEF NewInterface
    <3> QED BY <2>1, <3>1
  <2> QED BY <2>2, <2>3
<1>3. CASE AcquireIPAddress
  BY <1>3 DEF AcquireIPAddress
<1>4. CASE StatusChange
  <2>1. /\ UNCHANGED <<boot, interfaces_, storage, itf, running>>
        /\ status' = status + 1 /\ activations' = activations + 1
        /\ undefined' = (context # "saved") /\ running = None /\ boot # "aborted"
    BY <1>4 DEF StatusChange, status_callback, EventsApart
  <2>2. BootTypeOK' /\ boot \in {"waiting", "resumed"}
    BY <2>1
  <2>3. CASE status = 0
    <3>1. odd' = odd
      BY <1>4, <2>3 DEF StatusChange
    <3> QED BY <2>1, <2>2, <2>3, <3>1
  <2>4. CASE status # 0
    <3>1. odd' # {}
      BY <1>4, <2>4 DEF StatusChange
    <3> QED BY <2>1, <2>2, <3>1
  <2> QED BY <2>3, <2>4
<1>5. CASE ResumeBoot
  BY <1>5 DEF ResumeBoot, EventsApart
<1>6. ASSUME NEW len \in 1 .. MaxFrame, ReceivePacket(len) PROVE BootInv'
  BY <1>6 DEF ReceivePacket
<1>7. CASE InputReturns \/ DeviceUses \/ CleanUsedBuffer
  BY <1>7 DEF InputReturns, DeviceUses, CleanUsedBuffer
<1>8. ASSUME NEW p \in Pbufs,
             \/ \E n \in 1 .. 2 : eth_outputSend(p, n)
             \/ eth_outputRef(p) \/ LwipFrees(p)
      PROVE  BootInv'
  BY <1>8 DEF eth_outputSend, eth_outputRef, LwipFrees
<1>9. ASSUME UNCHANGED onlyTcp, odd \subseteq odd', undefined' \in BOOLEAN,
             odd' = {} => ~undefined'
      PROVE  BootInv'
  BY <1>9 DEF onlyTcp
<1>10. ASSUME NEW t \in Tcps,
              \/ \E k \in Pcbs : TcpNew(t, k) \/ Listen(t, k)
              \/ Bind(t) \/ Accept(t) \/ Connect(t)
       PROVE  BootInv'
  BY <1>9, <1>10 DEF TcpNew, Listen, Bind, Accept, Connect
<1>11. ASSUME NEW t \in Tcps, TcpDestroy(t) PROVE BootInv'
  <2>1. odd = {} => ~FreePcb(tcp[t])
    BY <1>11 DEF TcpDestroy, TcpInv, NoneLost, Linked, FreePcb
  <2>2. /\ UNCHANGED <<interfaces_, storage, itf, context, activations, status, running, odd>>
        /\ boot = "resumed" /\ boot' \in {"resumed", "aborted"}
        /\ undefined' = undefined \/ undefined' = FreePcb(tcp[t])
    BY <1>11 DEF TcpDestroy, InApp
  <2>3. undefined' \in BOOLEAN
    BY <2>2 DEF FreePcb
  <2>4. odd' = {} => ~undefined'
    BY <2>1, <2>2
  <2> QED BY <2>2, <2>3, <2>4
<1>12. ASSUME NEW k \in Pcbs, Connect_Handler(k) PROVE BootInv'
  <2>1. odd = {} => tcp[pcb[k].arg] = k
    BY <1>12 DEF Connect_Handler, TcpInv, NoneLost, Linked
  <2> QED BY <1>9, <1>12, <2>1 DEF Connect_Handler
<1>13. ASSUME NEW k \in Pcbs, Accept_Handler(k) \/ ConnectionLost(k) PROVE BootInv'
  BY <1>9, <1>13 DEF Accept_Handler, ConnectionLost
<1>14. CASE eth_outputAborts
  BY <1>14 DEF eth_outputAborts, EventsApart
<1>15. CASE UNCHANGED netVars
  BY <1>15 DEF netVars
<1> QED
  BY <1>1, <1>2, <1>3, <1>4, <1>5, <1>6, <1>7, <1>8, <1>10, <1>11, <1>12, <1>13, <1>14,
     <1>15
  DEF Next

-----------------------------------------------------------------------------
(* The send queue *)

\* What a message made from a pbuf refers to.
LEMMA MessageFacts ==
  \A p \in Pbufs, s \in Nat, n \in 1 .. 2 :
    /\ Message(p, s, n) \in Messages
    /\ Message(p, s, n).p = p /\ Message(p, s, n).start = s
    /\ Len(Message(p, s, n).order) = n
    /\ n = 1 => Message(p, s, n).order = <<1>>
<1> TAKE p \in Pbufs, s \in Nat, n \in 1 .. 2
<1> DEFINE order == [i \in 1 .. n |-> n + 1 - i]
<1>1. order \in Seq(Nat) /\ Len(order) = n
  <2>1. \A i \in 1 .. n : n + 1 - i \in Nat
    OBVIOUS
  <2> QED BY <2>1
<1>2. n = 1 => order = <<1>>
  OBVIOUS
<1> HIDE DEF order
<1>3. Message(p, s, n) = [p |-> p, start |-> s, order |-> order]
  BY DEF Message, order
<1> QED BY <1>1, <1>2, <1>3 DEF Messages

\* The messages that count are finitely many.
LEMMA CountedFacts ==
  ASSUME SendTypeOK, NEW p \in Pbufs
  PROVE  /\ Counted(p) \subseteq 1 .. Len(sends)
         /\ IsFiniteSet(Counted(p)) /\ Cardinality(Counted(p)) \in Nat
         /\ Cardinality(Counted(p)) = 0 <=> Counted(p) = {}
<1>1. Counted(p) \subseteq 1 .. Len(sends)
  BY DEF Counted, SendTypeOK
<1>2. Len(sends) \in Nat /\ IsFiniteSet(1 .. Len(sends))
  BY FS_Interval DEF SendTypeOK
<1>3. IsFiniteSet(Counted(p))
  BY <1>1, <1>2, FS_Subset
<1> QED BY <1>1, <1>3, FS_CardinalityType, FS_EmptySet

\* Steps that neither send nor free.
LEMMA SendUnchanged ==
  ASSUME SendInv, UNCHANGED sendVars,
         running' = running \/ (running \notin Pbufs /\ running' \notin Pbufs),
         boot' \in {"init", "probe"} => boot \in {"init", "probe"} /\ running' = "boot"
  PROVE  SendInv'
<1> USE DEF SendInv, sendVars, pbufVars
<1>1. SendTypeOK'
  BY DEF SendTypeOK
<1>2. OutputInv'
  BY DEF OutputInv
<1>3. \A p \in Pbufs : Counted(p)' = Counted(p)
  BY DEF Counted
<1>4. PbufsCounted'
  BY <1>3 DEF PbufsCounted
<1> QED BY <1>1, <1>2, <1>4

\* dhcp_start's message is the first of all; the driver holds its reference.
LEMMA AcquireSends == ASSUME SendInv, AcquireIPAddress PROVE SendInv'
<1> USE NetAssumption DEF SendInv
<1>1. PICK q \in Pbufs : /\ sends' = <<Message(q, ETH_PAD_SIZE, 1)>>
                         /\ chain' = [chain EXCEPT ![q] = 1]
                         /\ ref' = [ref EXCEPT ![q] = 1]
  BY DEF AcquireIPAddress
<1>2. /\ boot' = "waiting" /\ running' = None /\ UNCHANGED <<own, payload, done>>
      /\ sends = <<>> /\ done = 0 /\ running = "boot"
      /\ \A p \in Pbufs : ref[p] = 0 /\ own[p] = 0 /\ chain[p] = 0
  BY DEF AcquireIPAddress, OutputInv, SendTypeOK
<1>3. /\ sends' \in Seq(Messages) /\ Len(sends') = 1
      /\ sends'[1].p = q /\ Len(sends'[1].order) = 1
  BY <1>1, MessageFacts DEF ETH_PAD_SIZE
<1>4. SendTypeOK'
  BY <1>1, <1>2, <1>3 DEF SendTypeOK
<1>5. OutputInv'
  BY <1>1, <1>2 DEF OutputInv, SendTypeOK
<1>6. ASSUME NEW p \in Pbufs
      PROVE  ref'[p] = own'[p] + Cardinality(Counted(p)')
  <2>1. CASE p = q
    <3>1. Counted(p)' = {1}
      BY <1>2, <1>3, <2>1 DEF Counted
    <3>2. Cardinality({1}) = 1
      BY FS_Singleton
    <3> QED BY <1>1, <1>2, <2>1, <3>1, <3>2 DEF SendTypeOK
  <2>2. CASE p # q
    <3>1. Counted(p)' = {}
      BY <1>2, <1>3, <2>2 DEF Counted
    <3>2. Cardinality({}) = 0
      BY FS_EmptySet
    <3> QED BY <1>1, <1>2, <2>2, <3>1, <3>2 DEF SendTypeOK
  <2> QED BY <2>1, <2>2
<1>7. \A i \in DOMAIN sends' : chain'[sends'[i].p] = Len(sends'[i].order)
  <2>1. chain'[q] = 1
    BY <1>1 DEF SendTypeOK
  <2>2. DOMAIN sends' = {1}
    BY <1>3
  <2> QED BY <1>3, <2>1, <2>2
<1> QED BY <1>4, <1>5, <1>6, <1>7 DEF PbufsCounted

\* eth_output up to Send: the message is in the queue and not counted.
LEMMA OutputSends ==
  ASSUME SendInv, NEW q \in Pbufs, NEW n \in 1 .. 2, eth_outputSend(q, n)
  PROVE  SendInv'
<1> USE NetAssumption DEF SendInv
<1> DEFINE msg == Message(q, payload'[q], n)
           L == Len(sends)
<1>1. /\ running = None /\ running' = q /\ boot' = boot /\ boot \in {"waiting", "resumed"}
      /\ payload' = [payload EXCEPT ![q] = @ + ETH_PAD_SIZE] /\ done' = done
      /\ sends' = Append(sends, msg)
  BY DEF eth_outputSend, EventsApart
<1>2. payload' \in [Pbufs -> Nat]
  BY <1>1 DEF SendTypeOK, ETH_PAD_SIZE
<1>3. msg \in Messages /\ msg.p = q /\ Len(msg.order) = n
  <2>1. payload'[q] \in Nat
    BY <1>2
  <2>2. q \in Pbufs /\ n \in 1 .. 2
    OBVIOUS
  <2>3. msg \in Messages
    BY <2>1, <2>2, MessageFacts
  <2>4. msg.p = q
    BY <2>1, <2>2, MessageFacts
  <2>5. Len(msg.order) = n
    BY <2>1, <2>2, <2>3, MessageFacts DEF Message, Messages
  <2> QED BY <2>3, <2>4, <2>5
<1> HIDE DEF msg
<1>4. /\ sends' \in Seq(Messages) /\ Len(sends') = L + 1 /\ L \in Nat
      /\ sends'[L + 1] = msg
      /\ \A i \in 1 .. L : sends'[i] = sends[i] /\ sends[i].p \in Pbufs
  <2>1. \A i \in 1 .. L : sends[i] \in Messages
    BY ElementOfSeq DEF SendTypeOK
  <2>2. \A m \in Messages : m.p \in Pbufs
    BY DEF Messages
  <2>3. sends \in Seq(Messages) /\ L \in Nat
    BY DEF SendTypeOK
  <2> QED BY <1>1, <1>3, <2>1, <2>2, <2>3, AppendProperties
<1>5. \A p \in Pbufs : Counted(p)' = Counted(p)
  BY <1>1, <1>3, <1>4 DEF Counted, SendTypeOK
<1>6. ASSUME chain[q] = 0, ref[q] = 0
      PROVE  \A i \in 1 .. L : sends[i].p # q
  <2>1. Cardinality(Counted(q)) = 0
    BY <1>6, CountedFacts DEF PbufsCounted, SendTypeOK
  <2>2. Counted(q) = {}
    BY <2>1, CountedFacts
  <2> QED BY <1>1, <2>2 DEF Counted, SendTypeOK
<1>7. \/ /\ chain[q] = 0 /\ ref[q] = 0
         /\ chain' = [chain EXCEPT ![q] = n]
         /\ ref' = [ref EXCEPT ![q] = 1] /\ own' = [own EXCEPT ![q] = 1]
      \/ own[q] = 1 /\ chain[q] = n /\ UNCHANGED <<chain, ref, own>>
  BY DEF eth_outputSend
<1>8. SendTypeOK'
  <2>1. chain' \in [Pbufs -> Nat] /\ ref' \in [Pbufs -> Nat] /\ own' \in [Pbufs -> {0, 1}]
    <3>1. chain \in [Pbufs -> Nat] /\ ref \in [Pbufs -> Nat] /\ own \in [Pbufs -> {0, 1}]
      BY DEF SendTypeOK
    <3>2. n \in Nat
      OBVIOUS
    <3> QED BY <1>7, <3>1, <3>2
  <2>2. done' \in 0 .. Len(sends')
    BY <1>1, <1>4 DEF SendTypeOK
  <2> QED BY <1>2, <1>4, <2>1, <2>2 DEF SendTypeOK
<1>9. OutputInv'
  <2>1. own'[q] = 1
    BY <1>7 DEF SendTypeOK
  <2>2. \A p \in Pbufs : payload'[p] = IF p = q THEN ETH_PAD_SIZE ELSE 0
    BY <1>1 DEF SendTypeOK, OutputInv, ETH_PAD_SIZE
  <2> QED BY <1>1, <1>3, <1>4, <2>1, <2>2 DEF OutputInv
<1>10. \A p \in Pbufs : ref'[p] = own'[p] + Cardinality(Counted(p)')
  <2>1. \A p \in Pbufs : ref[p] = own[p] + Cardinality(Counted(p))
    BY DEF PbufsCounted
  <2>2. CASE chain[q] = 0 /\ ref[q] = 0
    <3>1. own[q] \in {0, 1} /\ Cardinality(Counted(q)) \in Nat
      BY CountedFacts DEF SendTypeOK
    <3>2. Cardinality(Counted(q)) = 0 /\ own[q] = 0
      BY <2>1, <2>2, <3>1
    <3>3. \A p \in Pbufs : /\ p = q => ref'[p] = 1 /\ own'[p] = 1
                           /\ p # q => ref'[p] = ref[p] /\ own'[p] = own[p]
      BY <1>7, <2>2, <3>2 DEF SendTypeOK
    <3> QED BY <1>5, <2>1, <3>2, <3>3
  <2>3. CASE UNCHANGED <<ref, own>>
    BY <1>5, <2>1, <2>3
  <2> QED BY <1>7, <2>2, <2>3
<1>11. \A i \in DOMAIN sends' : chain'[sends'[i].p] = Len(sends'[i].order)
  <2>1. chain'[q] = n
    BY <1>7 DEF SendTypeOK
  <2>2. ASSUME NEW i \in 1 .. L PROVE chain'[sends[i].p] = Len(sends[i].order)
    <3>1. chain[sends[i].p] = Len(sends[i].order) /\ sends[i].p \in Pbufs
      BY <1>4 DEF PbufsCounted, SendTypeOK
    <3> QED BY <1>6, <1>7, <3>1 DEF SendTypeOK
  <2>3. DOMAIN sends' = 1 .. (L + 1)
    BY <1>4
  <2> QED BY <1>3, <1>4, <2>1, <2>2, <2>3
<1> QED BY <1>8, <1>9, <1>10, <1>11 DEF PbufsCounted

\* The rest of eth_output: the message counts.
LEMMA OutputCounts ==
  ASSUME SendInv, NEW q \in Pbufs, eth_outputRef(q)
  PROVE  SendInv'
<1> USE NetAssumption DEF SendInv
<1>1. /\ running = q /\ running' = None /\ UNCHANGED <<boot, chain, own, sends, done>>
      /\ ref' = [ref EXCEPT ![q] = @ + 1]
      /\ payload' = [payload EXCEPT ![q] = @ - ETH_PAD_SIZE]
  BY DEF eth_outputRef, payloadRestored, SendTypeOK
<1>2. /\ own[q] = 1 /\ Len(sends) > 0 /\ sends[Len(sends)].p = q
      /\ payload[q] = ETH_PAD_SIZE
      /\ \A p \in Pbufs \ {q} : payload[p] = 0
  BY <1>1 DEF OutputInv
<1>3. SendTypeOK'
  BY <1>1, <1>2 DEF SendTypeOK, ETH_PAD_SIZE
<1>4. OutputInv'
  BY <1>1, <1>2 DEF OutputInv, SendTypeOK, ETH_PAD_SIZE
<1>5. ASSUME NEW p \in Pbufs
      PROVE  ref'[p] = own'[p] + Cardinality(Counted(p)')
  <2>1. ref[p] = own[p] + Cardinality(Counted(p)) /\ own[p] \in Nat /\ ref[p] \in Nat
    <3>1. ref[p] = own[p] + Cardinality(Counted(p))
      BY DEF PbufsCounted
    <3>2. own[p] \in {0, 1} /\ ref[p] \in Nat
      BY DEF SendTypeOK
    <3> QED BY <3>1, <3>2
  <2>2. CASE p = q
    <3>1. Counted(p)' = Counted(p) \cup {Len(sends)} /\ Len(sends) \notin Counted(p)
      BY <1>1, <1>2, <2>2 DEF Counted, SendTypeOK
    <3>2. Cardinality(Counted(p) \cup {Len(sends)}) = Cardinality(Counted(p)) + 1
      BY <3>1, CountedFacts, FS_AddElement
    <3>3. ref'[p] = ref[p] + 1 /\ own'[p] = own[p]
      BY <1>1, <2>2 DEF SendTypeOK
    <3> QED BY <2>1, <3>1, <3>2, <3>3, CountedFacts, SMTT(30)
  <2>3. CASE p # q
    <3>1. Counted(p)' = Counted(p)
      BY <1>1, <1>2, <2>3 DEF Counted
    <3> QED BY <1>1, <2>1, <2>3, <3>1 DEF SendTypeOK
  <2> QED BY <2>2, <2>3
<1>6. \A i \in DOMAIN sends' : chain'[sends'[i].p] = Len(sends'[i].order)
  BY <1>1 DEF PbufsCounted
<1> QED BY <1>3, <1>4, <1>5, <1>6 DEF PbufsCounted

\* A pbuf whose last reference goes is in no message.
LEMMA LastReference ==
  ASSUME SendInv, running = None, NEW q \in Pbufs, Counted(q) = {}, NEW i \in 1 .. Len(sends)
  PROVE  sends[i].p # q
BY NetAssumption DEF SendInv, SendTypeOK, Counted

\* lwIP frees its reference.
LEMMA LwipFreesCounted ==
  ASSUME SendInv, NEW q \in Pbufs, LwipFrees(q)
  PROVE  SendInv'
<1> USE NetAssumption DEF SendInv
<1>1. /\ running = None /\ own[q] = 1 /\ UNCHANGED <<boot, running, payload, sends, done>>
      /\ own' = [own EXCEPT ![q] = 0]
      /\ ref' = [ref EXCEPT ![q] = @ - 1]
      /\ chain' = [chain EXCEPT ![q] = IF ref[q] = 1 THEN 0 ELSE @]
  BY DEF LwipFrees, pbuf_free, EventsApart
<1>2. \A p \in Pbufs : ref[p] = own[p] + Cardinality(Counted(p))
  BY DEF PbufsCounted
<1>3. \A p \in Pbufs : ref[p] \in Nat /\ own[p] \in {0, 1} /\ chain[p] \in Nat
  BY DEF SendTypeOK
<1>4. \A p \in Pbufs : Cardinality(Counted(p)) \in Nat
  BY CountedFacts
<1>5. \A p \in Pbufs : /\ ref'[p] = IF p = q THEN ref[p] - 1 ELSE ref[p]
                       /\ own'[p] = IF p = q THEN 0 ELSE own[p]
                       /\ chain'[p] = IF p = q /\ ref[q] = 1 THEN 0 ELSE chain[p]
  BY <1>1 DEF SendTypeOK
<1>6. ref[q] = 1 + Cardinality(Counted(q))
  BY <1>1, <1>2
<1>7. SendTypeOK'
  <2>1. ref' \in [Pbufs -> Nat]
    BY <1>1, <1>3, <1>4, <1>6 DEF SendTypeOK
  <2>2. own' \in [Pbufs -> {0, 1}] /\ chain' \in [Pbufs -> Nat]
    BY <1>1 DEF SendTypeOK
  <2> QED BY <1>1, <2>1, <2>2 DEF SendTypeOK
<1>8. OutputInv'
  BY <1>1, <1>3, <1>5 DEF OutputInv
<1>9. \A p \in Pbufs : Counted(p)' = Counted(p)
  BY <1>1 DEF Counted
<1>10. \A p \in Pbufs : ref'[p] = own'[p] + Cardinality(Counted(p)')
  BY <1>2, <1>3, <1>4, <1>5, <1>6, <1>9
<1>11. \A i \in DOMAIN sends' : chain'[sends'[i].p] = Len(sends'[i].order)
  <2>0. sends' = sends /\ DOMAIN sends = 1 .. Len(sends)
    BY <1>1 DEF SendTypeOK
  <2> SUFFICES ASSUME NEW i \in 1 .. Len(sends)
               PROVE  chain'[sends[i].p] = Len(sends[i].order)
    BY <2>0
  <2>1. chain[sends[i].p] = Len(sends[i].order) /\ sends[i] \in Messages
    BY ElementOfSeq DEF PbufsCounted, SendTypeOK
  <2>2. sends[i].p \in Pbufs
    BY <2>1 DEF Messages
  <2>3. ref[q] = 1 => sends[i].p # q
    BY <1>1, <1>4, <1>6, CountedFacts, LastReference
  <2> QED BY <1>5, <2>1, <2>2, <2>3
<1> QED BY <1>7, <1>8, <1>10, <1>11 DEF PbufsCounted

\* The messages of p after the first has left the queue.
LEMMA CountedTail ==
  ASSUME SendTypeOK, sends # <<>>, running = None, running' = None,
         sends' = Tail(sends), NEW p \in Pbufs
  PROVE  Cardinality(Counted(p)) =
           Cardinality(Counted(p)') + (IF sends[1].p = p THEN 1 ELSE 0)
<1> USE NetAssumption
<1> DEFINE S == Counted(p)'
           T == Counted(p) \ {1}
           L == Len(sends)
<1>1. /\ L \in Nat /\ L >= 1 /\ Len(sends') = L - 1
      /\ sends' \in Seq(Messages)
      /\ \A i \in 1 .. L - 1 : sends'[i] = sends[i + 1]
  BY HeadTailProperties DEF SendTypeOK
<1>2. /\ Counted(p) = {i \in 1 .. L : sends[i].p = p}
      /\ S = {i \in 1 .. L - 1 : sends[i + 1].p = p}
  BY <1>1 DEF Counted, SendTypeOK
<1>3. IsFiniteSet(S)
  <2>1. IsFiniteSet(1 .. L - 1)
    BY <1>1, FS_Interval
  <2> QED BY <1>2, <2>1, FS_Subset
<1>4. Cardinality(T) = Cardinality(S)
  <2> DEFINE f == [i \in S |-> i + 1]
  <2>1. f \in [S -> T]
    BY <1>1, <1>2
  <2>2. \A a, b \in S : f[a] = f[b] => a = b
    BY <1>1, <1>2
  <2>3. \A t \in T : \E s \in S : f[s] = t
    <3> SUFFICES ASSUME NEW t \in T PROVE \E s \in S : f[s] = t
      OBVIOUS
    <3>1. t \in 1 .. L /\ t # 1 /\ sends[t].p = p
      BY <1>2
    <3>2. t - 1 \in 1 .. L - 1 /\ (t - 1) + 1 = t
      BY <1>1, <3>1
    <3>3. t - 1 \in S
      BY <1>2, <3>1, <3>2
    <3> QED BY <3>2, <3>3
  <2> HIDE DEF f, S, T
  <2>4. f \in Bijection(S, T)
    BY <2>1, <2>2, <2>3, Fun_IsBij
  <2>5. ExistsBijection(S, T)
    BY <2>4 DEF ExistsBijection
  <2> QED BY <1>3, <2>5, FS_Bijection
<1>5. IsFiniteSet(Counted(p)) /\ Cardinality(Counted(p)) \in Nat /\ Cardinality(S) \in Nat
  BY <1>3, CountedFacts, FS_CardinalityType
<1>6. CASE sends[1].p = p
  <2>1. 1 \in Counted(p)
    BY <1>1, <1>2, <1>6
  <2>2. Cardinality(T) = Cardinality(Counted(p)) - 1
    BY <1>5, <2>1, FS_RemoveElement
  <2> QED BY <1>4, <1>5, <1>6, <2>2
<1>7. CASE sends[1].p # p
  <2>1. T = Counted(p)
    BY <1>2, <1>7
  <2>2. Cardinality(Counted(p)) = Cardinality(S)
    BY <1>4, <2>1
  <2> HIDE DEF S
  <2> QED BY <1>5, <1>7, <2>2 DEF S
<1> QED BY <1>6, <1>7

\* The driver has done with a message.
LEMMA CleanCounted ==
  ASSUME SendInv, CleanUsedBuffer
  PROVE  SendInv'
<1> USE NetAssumption DEF SendInv
<1> DEFINE L == Len(sends)
<1>1. PICK q : q = sends[1].p
  OBVIOUS
<1>2. /\ running = None /\ UNCHANGED <<boot, running, payload, own>>
      /\ ref' = [ref EXCEPT ![q] = @ - 1]
      /\ chain' = [chain EXCEPT ![q] = IF ref[q] = 1 THEN 0 ELSE @]
      /\ sends' = Tail(sends) /\ done' = done - 1 /\ done > 0
  BY <1>1 DEF CleanUsedBuffer, CleansInEvent, pbuf_free, EventsApart
<1>3. /\ L \in Nat /\ L >= 1 /\ sends # <<>> /\ done \in 1 .. L
      /\ sends' \in Seq(Messages) /\ Len(sends') = L - 1
      /\ \A i \in 1 .. L - 1 : sends'[i] = sends[i + 1]
  BY <1>2, HeadTailProperties DEF SendTypeOK
<1>4. \A i \in 1 .. L : sends[i] \in Messages /\ sends[i].p \in Pbufs
  <2>1. \A i \in 1 .. L : sends[i] \in Messages
    BY ElementOfSeq DEF SendTypeOK
  <2> QED BY <2>1 DEF Messages
<1>5. q \in Pbufs
  BY <1>1, <1>3, <1>4
<1>6. \A p \in Pbufs : /\ ref[p] = own[p] + Cardinality(Counted(p))
                       /\ Cardinality(Counted(p)) = Cardinality(Counted(p)')
                                                      + (IF q = p THEN 1 ELSE 0)
  BY <1>1, <1>2, <1>3, CountedTail DEF PbufsCounted
<1>7. \A p \in Pbufs : ref[p] \in Nat /\ own[p] \in {0, 1} /\ chain[p] \in Nat
  BY DEF SendTypeOK
<1>8. \A p \in Pbufs : /\ Cardinality(Counted(p)') \in Nat
                       /\ Cardinality(Counted(p)') = 0 => Counted(p)' = {}
  <2> SUFFICES ASSUME NEW p \in Pbufs
               PROVE  /\ Cardinality(Counted(p)') \in Nat
                      /\ Cardinality(Counted(p)') = 0 => Counted(p)' = {}
    OBVIOUS
  <2>1. IsFiniteSet(1 .. L - 1) /\ Counted(p)' \subseteq 1 .. L - 1
    <3>1. DOMAIN sends' = 1 .. L - 1
      BY <1>3
    <3>2. IsFiniteSet(1 .. L - 1)
      BY <1>3, FS_Interval
    <3> QED BY <3>1, <3>2 DEF Counted
  <2>2. IsFiniteSet(Counted(p)')
    BY <2>1, FS_Subset
  <2> QED BY <2>2, FS_CardinalityType, FS_EmptySet
<1>9. \A p \in Pbufs : /\ ref'[p] = IF p = q THEN ref[p] - 1 ELSE ref[p]
                       /\ chain'[p] = IF p = q /\ ref[q] = 1 THEN 0 ELSE chain[p]
  BY <1>2 DEF SendTypeOK
<1>10. ref[q] = own[q] + Cardinality(Counted(q)') + 1
  BY <1>5, <1>6, <1>7, <1>8
<1>11. SendTypeOK'
  <2>1. ref' \in [Pbufs -> Nat]
    BY <1>2, <1>5, <1>7, <1>8, <1>10, SMTT(30) DEF SendTypeOK
  <2>2. chain' \in [Pbufs -> Nat]
    BY <1>2 DEF SendTypeOK
  <2>3. done' \in 0 .. Len(sends')
    BY <1>2, <1>3
  <2> QED BY <1>2, <1>3, <2>1, <2>2, <2>3 DEF SendTypeOK
<1>12. OutputInv'
  BY <1>2, <1>3 DEF OutputInv
<1>13. \A p \in Pbufs : ref'[p] = own'[p] + Cardinality(Counted(p)')
  BY <1>2, <1>5, <1>6, <1>7, <1>8, <1>9, <1>10
<1>14. \A i \in DOMAIN sends' : chain'[sends'[i].p] = Len(sends'[i].order)
  <2> SUFFICES ASSUME NEW i \in 1 .. L - 1
               PROVE  chain'[sends'[i].p] = Len(sends'[i].order)
    BY <1>3
  <2>1. i + 1 \in 1 .. L /\ sends'[i] = sends[i + 1]
    BY <1>3
  <2>2. chain[sends[i + 1].p] = Len(sends[i + 1].order) /\ sends[i + 1].p \in Pbufs
    BY <1>4, <2>1 DEF PbufsCounted, SendTypeOK
  <2>3. ref[q] = 1 => sends'[i].p # q
    <3> SUFFICES ASSUME ref[q] = 1 PROVE sends'[i].p # q
      OBVIOUS
    <3>1. Cardinality(Counted(q)') = 0
      BY <1>5, <1>7, <1>8, <1>10
    <3>2. Counted(q)' = {}
      BY <1>5, <1>8, <3>1
    <3>3. i \in DOMAIN sends' /\ running' # q
      BY <1>2, <1>3, <1>5
    <3> QED BY <3>2, <3>3 DEF Counted
  <2> QED BY <1>9, <2>1, <2>2, <2>3
<1> QED BY <1>11, <1>12, <1>13, <1>14 DEF PbufsCounted

\* Every step keeps the references of the send queue and of lwIP counted.
LEMMA SendStep == BootInv /\ SendInv /\ [Next]_netVars => SendInv'
<1> SUFFICES ASSUME BootInv, SendInv, [Next]_netVars PROVE SendInv'
  OBVIOUS
<1> USE NetAssumption
<1>1. CASE NetworkInit
  BY <1>1, SendUnchanged DEF NetworkInit, SendInv, OutputInv
<1>2. CASE NewInterface \/ AcquireAborts
  BY <1>2, SendUnchanged DEF NewInterface, AcquireAborts, SendInv, OutputInv
<1>3. CASE StatusChange \/ ResumeBoot
  BY <1>3, SendUnchanged DEF StatusChange, ResumeBoot, EventsApart, BootInv
<1>4. ASSUME NEW len \in 1 .. MaxFrame, ReceivePacket(len) PROVE SendInv'
  BY <1>4, SendUnchanged DEF ReceivePacket, EventsApart
<1>5. CASE InputReturns
  <2>1. running = "input" /\ running' = None /\ boot' = boot /\ UNCHANGED sendVars
    BY <1>5 DEF InputReturns
  <2>2. boot \notin {"init", "probe"}
    BY <2>1 DEF SendInv, OutputInv
  <2> QED BY <2>1, <2>2, SendUnchanged
<1>6. CASE DeviceUses
  <2>1. /\ done < Len(sends) /\ done' = done + 1
        /\ UNCHANGED <<boot, running, chain, ref, own, payload, sends>>
    BY <1>6 DEF DeviceUses, pbufVars
  <2>2. SendTypeOK'
    BY <2>1 DEF SendInv, SendTypeOK
  <2>3. OutputInv'
    BY <2>1 DEF SendInv, OutputInv
  <2>4. \A p \in Pbufs : Counted(p)' = Counted(p)
    BY <2>1 DEF Counted
  <2>5. PbufsCounted'
    BY <2>1, <2>4 DEF SendInv, PbufsCounted
  <2> QED BY <2>2, <2>3, <2>5 DEF SendInv
<1>7. ASSUME UNCHANGED <<running, sendVars>>, boot' = boot \/ boot' = "aborted"
      PROVE  SendInv'
  <2>1. boot' \in {"init", "probe"} => running = "boot"
    BY <1>7 DEF SendInv, OutputInv
  <2> QED BY <1>7, <2>1, SendUnchanged
<1>8. ASSUME NEW t \in Tcps,
             \/ \E k \in Pcbs : TcpNew(t, k) \/ Listen(t, k)
             \/ Bind(t) \/ Accept(t) \/ Connect(t) \/ TcpDestroy(t)
      PROVE  SendInv'
  BY <1>7, <1>8 DEF TcpNew, Listen, Bind, Accept, Connect, TcpDestroy, onlyTcp
<1>9. ASSUME NEW k \in Pcbs, Connect_Handler(k) \/ Accept_Handler(k) \/ ConnectionLost(k)
      PROVE  SendInv'
  BY <1>7, <1>9 DEF Connect_Handler, Accept_Handler, ConnectionLost, onlyTcp
<1>10. CASE UNCHANGED netVars
  BY <1>7, <1>10 DEF netVars
<1>11. CASE eth_outputAborts
  BY <1>7, <1>11 DEF eth_outputAborts
<1> QED
  BY <1>1, <1>2, <1>3, <1>4, <1>5, <1>6, <1>8, <1>9, <1>10, <1>11, AcquireSends, OutputSends,
     OutputCounts, LwipFreesCounted, CleanCounted
  DEF Next

-----------------------------------------------------------------------------
(* Frames *)

\* What lwIP finds in the first pbuf of a frame, and how many pbufs a frame
\* that fits the first one takes.
LEMMA ReceivedFrame ==
  ASSUME NEW len \in 1 .. MaxFrame,
         NEW lens, lens = PbufLens(len + ETH_PAD_SIZE),
         NEW seen, seen = [i \in DOMAIN lens |-> CopyInto(i, lens)]
  PROVE  /\ \A j \in DOMAIN seen[1] : seen[1][j] = j
         /\ len + ETH_PAD_SIZE <= FirstRoom => Len(seen) = 1 /\ Len(seen[1]) = len
<1> USE NetAssumption DEF ETH_PAD_SIZE
<1> DEFINE n == len + ETH_PAD_SIZE
           more == IF n <= FirstRoom THEN 0 ELSE (n - FirstRoom + NextRoom - 1) \div NextRoom
<1>1. more \in Nat
  <2>1. CASE n <= FirstRoom
    BY <2>1
  <2>2. CASE ~(n <= FirstRoom)
    <3>1. n - FirstRoom + NextRoom - 1 \in Nat /\ NextRoom \in Nat \ {0}
      BY <2>2
    <3>2. \A x \in Nat, y \in Nat \ {0} : x \div y \in Nat
      OBVIOUS
    <3> QED BY <2>2, <3>1, <3>2
  <2> QED BY <2>1, <2>2
<1>2. DOMAIN lens = 1 .. more + 1
  BY DEF PbufLens
<1>3. lens[1] = IF more = 0 THEN n ELSE FirstRoom
  BY <1>1 DEF PbufLens
<1>4. n <= FirstRoom => more = 0
  OBVIOUS
<1> HIDE DEF more
<1>5. lens[1] \in Nat /\ lens[1] >= 2
  BY <1>3
<1>6. 1 \in DOMAIN lens
  BY <1>1, <1>2
<1>7. seen[1] = [j \in 1 .. lens[1] - 2 |-> j]
  <2>1. seen[1] = CopyInto(1, lens)
    BY <1>6
  <2>2. CopyInto(1, lens) = [j \in 1 .. lens[1] - 2 |-> 0 + j]
    BY DEF CopyInto
  <2> QED BY <1>5, <2>1, <2>2
<1>8. ASSUME n <= FirstRoom PROVE Len(seen) = 1 /\ Len(seen[1]) = len
  <2>1. more = 0 /\ lens[1] = len + 2
    BY <1>3, <1>4, <1>8
  <2>2. DOMAIN seen = 1 .. 1
    BY <1>2, <2>1
  <2>3. DOMAIN seen[1] = 1 .. len
    BY <1>7, <2>1
  <2> QED BY <1>7, <2>1, <2>2, <2>3
<1> QED BY <1>7, <1>8

\* The two halves of FramesIntact.
FrameIn ==
  running = "input" =>
    /\ \A j \in DOMAIN frame.seen[1] : frame.seen[1][j] = j
    /\ frame.len + ETH_PAD_SIZE <= FirstRoom =>
         Len(frame.seen) = 1 /\ Len(frame.seen[1]) = frame.len

MessageOut(m) == m.start = ETH_PAD_SIZE /\ (Len(m.order) = 1 => m.order = <<1>>)

FramesOut == \A i \in DOMAIN sends : MessageOut(sends[i])

\* Every step keeps the frame being received whole.
LEMMA FrameInStep == FrameIn /\ [Next]_netVars => FrameIn'
<1> SUFFICES ASSUME FrameIn, [Next]_netVars PROVE FrameIn'
  OBVIOUS
<1> USE NetAssumption
<1>1. ASSUME NEW len \in 1 .. MaxFrame, ReceivePacket(len) PROVE FrameIn'
  <2>1. PICK lens : lens = PbufLens(len + ETH_PAD_SIZE)
    OBVIOUS
  <2>2. PICK seen : seen = [i \in DOMAIN lens |-> CopyInto(i, lens)]
    OBVIOUS
  <2>3. frame' = [len |-> len, seen |-> seen]
    BY <1>1, <2>1, <2>2 DEF ReceivePacket
  <2>4. frame'.len = len /\ frame'.seen = seen
    BY <2>3
  <2>5. /\ \A j \in DOMAIN seen[1] : seen[1][j] = j
        /\ len + ETH_PAD_SIZE <= FirstRoom => Len(seen) = 1 /\ Len(seen[1]) = len
    BY <2>1, <2>2, ReceivedFrame
  <2> QED BY <2>4, <2>5 DEF FrameIn
<1>2. ASSUME running' # "input" \/ UNCHANGED <<running, frame>> PROVE FrameIn'
  BY <1>2 DEF FrameIn
<1>3. CASE NetworkInit \/ NewInterface \/ AcquireAborts \/ AcquireIPAddress
             \/ StatusChange \/ ResumeBoot
  BY <1>2, <1>3 DEF NetworkInit, NewInterface, AcquireAborts, AcquireIPAddress,
                    StatusChange, ResumeBoot
<1>4. CASE InputReturns \/ eth_outputAborts \/ DeviceUses \/ CleanUsedBuffer
  BY <1>2, <1>4 DEF InputReturns, eth_outputAborts, DeviceUses, CleanUsedBuffer
<1>5. ASSUME NEW p \in Pbufs, \/ \E n \in 1 .. 2 : eth_outputSend(p, n)
                              \/ eth_outputRef(p) \/ LwipFrees(p)
      PROVE  FrameIn'
  BY <1>2, <1>5 DEF eth_outputSend, eth_outputRef, LwipFrees
<1>6. ASSUME NEW t \in Tcps,
             \/ \E k \in Pcbs : TcpNew(t, k) \/ Listen(t, k)
             \/ Bind(t) \/ Accept(t) \/ Connect(t) \/ TcpDestroy(t)
      PROVE  FrameIn'
  BY <1>2, <1>6 DEF TcpNew, Listen, Bind, Accept, Connect, TcpDestroy, onlyTcp
<1>7. ASSUME NEW k \in Pcbs, Connect_Handler(k) \/ Accept_Handler(k) \/ ConnectionLost(k)
      PROVE  FrameIn'
  BY <1>2, <1>7 DEF Connect_Handler, Accept_Handler, ConnectionLost, onlyTcp
<1>8. CASE UNCHANGED netVars
  BY <1>2, <1>8 DEF netVars
<1> QED BY <1>1, <1>3, <1>4, <1>5, <1>6, <1>7, <1>8 DEF Next

\* Every step keeps the frames in the send queue as they were handed over.
LEMMA FramesOutStep == SendInv /\ FramesOut /\ [Next]_netVars => FramesOut'
<1> SUFFICES ASSUME SendInv, FramesOut, [Next]_netVars PROVE FramesOut'
  OBVIOUS
<1> USE NetAssumption
<1>0. sends \in Seq(Messages) /\ DOMAIN sends = 1 .. Len(sends) /\ Len(sends) \in Nat
  BY DEF SendInv, SendTypeOK
<1>1. ASSUME UNCHANGED sends PROVE FramesOut'
  BY <1>1 DEF FramesOut
<1>2. \A p \in Pbufs, n \in 1 .. 2 : MessageOut(Message(p, ETH_PAD_SIZE, n))
  <2> SUFFICES ASSUME NEW p \in Pbufs, NEW n \in 1 .. 2
               PROVE  MessageOut(Message(p, ETH_PAD_SIZE, n))
    OBVIOUS
  <2>1. ETH_PAD_SIZE \in Nat
    BY DEF ETH_PAD_SIZE
  <2>2. Message(p, ETH_PAD_SIZE, n).start = ETH_PAD_SIZE
    BY <2>1, MessageFacts
  <2>3. n = 1 => Message(p, ETH_PAD_SIZE, n).order = <<1>>
    BY <2>1, MessageFacts
  <2>4. Len(Message(p, ETH_PAD_SIZE, n).order) = n
    BY <2>1, MessageFacts DEF Message, Messages
  <2> QED BY <2>2, <2>3, <2>4 DEF MessageOut
<1>3. CASE AcquireIPAddress
  <2>1. PICK p \in Pbufs : sends' = <<Message(p, ETH_PAD_SIZE, 1)>>
    BY <1>3 DEF AcquireIPAddress
  <2>2. DOMAIN sends' = {1} /\ sends'[1] = Message(p, ETH_PAD_SIZE, 1)
    BY <2>1
  <2>3. MessageOut(sends'[1])
    BY <1>2, <2>2
  <2> QED BY <2>2, <2>3 DEF FramesOut
<1>4. ASSUME NEW p \in Pbufs, NEW n \in 1 .. 2, eth_outputSend(p, n) PROVE FramesOut'
  <2>1. running # p
    BY <1>4 DEF eth_outputSend, EventsApart
  <2>2. payload \in [Pbufs -> Nat] /\ payload[p] = 0
    BY <2>1 DEF SendInv, SendTypeOK, OutputInv
  <2>3. payload'[p] = ETH_PAD_SIZE
    BY <1>4, <2>2 DEF eth_outputSend, ETH_PAD_SIZE
  <2>4. PICK m \in Messages : m = Message(p, ETH_PAD_SIZE, n)
    BY MessageFacts DEF ETH_PAD_SIZE
  <2>5. sends' = Append(sends, m)
    BY <1>4, <2>3, <2>4 DEF eth_outputSend
  <2>6. /\ DOMAIN sends' = 1 .. Len(sends) + 1
        /\ \A i \in 1 .. Len(sends) : sends'[i] = sends[i]
        /\ sends'[Len(sends) + 1] = m
    BY <1>0, <2>5, AppendProperties
  <2>7. MessageOut(m)
    BY <1>2, <2>4
  <2> QED BY <1>0, <2>6, <2>7 DEF FramesOut
<1>5. CASE CleanUsedBuffer
  <2>1. sends' = Tail(sends) /\ sends # <<>>
    BY <1>0, <1>5 DEF CleanUsedBuffer, CleansInEvent, SendInv, SendTypeOK
  <2>2. /\ sends' \in Seq(Messages) /\ Len(sends') = Len(sends) - 1
        /\ \A i \in 1 .. Len(sends') : sends'[i] = sends[i + 1]
    BY <1>0, <2>1, HeadTailProperties
  <2>3. ASSUME NEW i \in 1 .. Len(sends') PROVE MessageOut(sends'[i])
    <3>1. i + 1 \in DOMAIN sends
      BY <1>0, <2>2
    <3> QED BY <2>2, <3>1 DEF FramesOut
  <2> QED BY <2>2, <2>3 DEF FramesOut
<1>6. CASE NetworkInit \/ NewInterface \/ AcquireAborts \/ StatusChange \/ ResumeBoot
             \/ (\E len \in 1 .. MaxFrame : ReceivePacket(len)) \/ InputReturns \/ DeviceUses
             \/ eth_outputAborts
  BY <1>1, <1>6 DEF NetworkInit, NewInterface, AcquireAborts, StatusChange, ResumeBoot,
                    ReceivePacket, InputReturns, DeviceUses, eth_outputAborts, sendVars
<1>7. ASSUME NEW p \in Pbufs, eth_outputRef(p) \/ LwipFrees(p) PROVE FramesOut'
  BY <1>1, <1>7 DEF eth_outputRef, LwipFrees
<1>8. ASSUME NEW t \in Tcps,
             \/ \E k \in Pcbs : TcpNew(t, k) \/ Listen(t, k)
             \/ Bind(t) \/ Accept(t) \/ Connect(t) \/ TcpDestroy(t)
      PROVE  FramesOut'
  BY <1>1, <1>8 DEF TcpNew, Listen, Bind, Accept, Connect, TcpDestroy, onlyTcp, sendVars
<1>9. ASSUME NEW k \in Pcbs, Connect_Handler(k) \/ Accept_Handler(k) \/ ConnectionLost(k)
      PROVE  FramesOut'
  BY <1>1, <1>9 DEF Connect_Handler, Accept_Handler, ConnectionLost, onlyTcp, sendVars
<1>10. CASE UNCHANGED netVars
  BY <1>1, <1>10 DEF netVars, sendVars
<1> QED BY <1>3, <1>4, <1>5, <1>6, <1>7, <1>8, <1>9, <1>10 DEF Next

-----------------------------------------------------------------------------
(* The theorems *)

\* All parts of the invariant hold before the network is initialised.
LEMMA InitNetInv == Init => TcpInv /\ BootInv /\ SendInv /\ FrameIn /\ FramesOut
<1> SUFFICES ASSUME Init PROVE TcpInv /\ BootInv /\ SendInv /\ FrameIn /\ FramesOut
  OBVIOUS
<1> USE NetAssumption DEF Init
<1>1. TcpInv
  BY DEF TcpInv, TcpTypeOK, Linked, NoPcb, PcbRecords, PcbStates
<1>2. BootInv
  <2>1. BootTypeOK
    BY DEF BootTypeOK
  <2> QED BY <2>1 DEF BootInv
<1>3. SendTypeOK /\ OutputInv
  BY DEF SendTypeOK, OutputInv
<1>4. PbufsCounted
  <2>1. \A p \in Pbufs : Counted(p) = {}
    BY DEF Counted
  <2>2. Cardinality({}) = 0
    BY FS_EmptySet
  <2>3. \A p \in Pbufs : ref[p] = own[p] + Cardinality(Counted(p))
    <3> SUFFICES ASSUME NEW p \in Pbufs PROVE ref[p] = own[p] + Cardinality(Counted(p))
      OBVIOUS
    <3>1. ref[p] = 0 /\ own[p] = 0
      OBVIOUS
    <3>2. Cardinality(Counted(p)) = 0
      BY <2>1, <2>2
    <3> HIDE DEF Init
    <3> QED BY <3>1, <3>2
  <2>4. DOMAIN sends = {}
    OBVIOUS
  <2> QED BY <2>3, <2>4 DEF PbufsCounted
<1>5. FrameIn /\ FramesOut
  BY DEF FrameIn, FramesOut
<1> QED BY <1>1, <1>2, <1>3, <1>4, <1>5 DEF SendInv

\* A handler lwIP calls has a living Tcp_pcb that holds the pcb, until a
\* connection is lost or accepted.
THEOREM HandlersAlive == Spec => []HandlerArgsAlive
<1>1. TcpInv => HandlerArgsAlive
  BY DEF TcpInv, HandlerArgsAlive, NoneLost, Linked, FreePcb
<1> QED BY InitNetInv, TcpStep, <1>1, PTL DEF Spec

\* The boot event's context is saved before it is looked for and used once,
\* and nothing uses freed memory, until one of the odd things happens.
THEOREM ContextOnce == Spec => []ContextUsedOnce
<1>1. TcpInv /\ BootInv /\ [Next]_netVars => (TcpInv /\ BootInv)'
  BY TcpStep, BootStep
<1>2. BootInv => ContextUsedOnce
  BY DEF BootInv, BootTypeOK, ContextUsedOnce
<1> QED BY InitNetInv, <1>1, <1>2, PTL DEF Spec

\* BootInv and SendInv together.
LEMMA SendInvariant == Spec => [](TcpInv /\ BootInv /\ SendInv)
<1>1. TcpInv /\ BootInv /\ SendInv /\ [Next]_netVars => (TcpInv /\ BootInv /\ SendInv)'
  BY TcpStep, BootStep, SendStep
<1> QED BY InitNetInv, <1>1, PTL DEF Spec

\* A pbuf's count is lwIP's reference and one for each message that has it,
\* although eth_output counts after it has sent.
THEOREM PbufCounts == Spec => []PbufsCounted
<1>1. SendInv => PbufsCounted
  BY DEF SendInv
<1> QED BY SendInvariant, <1>1, PTL

\* Frames that fit the first pbuf arrive as they were sent; messages start at
\* their Ethernet header.
THEOREM FramesArriveIntact == Spec => []FramesIntact
<1>1. FrameIn /\ FramesOut => FramesIntact
  BY DEF FrameIn, FramesOut, MessageOut, FramesIntact
<1>2. SendInv /\ FrameIn /\ FramesOut /\ [Next]_netVars => (FrameIn /\ FramesOut)'
  BY FrameInStep, FramesOutStep
<1> QED BY InitNetInv, SendInvariant, <1>1, <1>2, PTL DEF Spec
=============================================================================
