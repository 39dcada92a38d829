---------------------------- MODULE PacketQueue ----------------------------
(***************************************************************************)
(* What the proxy promises (dns-replay-proxy-1.0): packets read from the  *)
(* TUN interface pass through one FIFO queue; each is taken by exactly    *)
(* one processing thread, in queue order, and sent to the target with its *)
(* addresses rewritten.  A packet the proxy cannot rewrite ends it.       *)
(*                                                                         *)
(* Forward(p) is the rewrite the proxy's design states: the packet leaves *)
(* from the address it was sent to, toward the target server, and a       *)
(* TCP or UDP checksum covers the new pseudo-header.                      *)
(***************************************************************************)
EXTENDS Naturals, Sequences

CONSTANTS
  Inputs,      \* the packet sequences the TUN interface may deliver
  Consumers,   \* the processing threads
  Target,      \* the target server's IPv4 address
  NoPacket     \* a thread that holds no packet

VARIABLES
  input,       \* the packets the TUN interface delivers, in order
  next,        \* the next packet to read
  queue,       \* packets read and not yet taken
  held,        \* per thread: the packet it is processing
  sent,        \* every packet sent, as [orig, out]
  stopped      \* the proxy has exited

avars == <<input, next, queue, held, sent, stopped>>

Forward(p) ==
  [p EXCEPT !.src = p.dst, !.dst = Target,
            !.ck = IF p.proto \in {"tcp", "udp"} THEN <<p.dst, Target>>
                   ELSE p.ck]

Init ==
  /\ input \in Inputs
  /\ next = 1 /\ queue = <<>> /\ held = [t \in Consumers |-> NoPacket]
  /\ sent = <<>> /\ stopped = FALSE

Read ==
  /\ ~stopped /\ next <= Len(input)
  /\ queue' = Append(queue, input[next]) /\ next' = next + 1
  /\ UNCHANGED <<input, held, sent, stopped>>

Take(t) ==
  /\ ~stopped /\ held[t] = NoPacket /\ queue # <<>>
  /\ held' = [held EXCEPT ![t] = Head(queue)] /\ queue' = Tail(queue)
  /\ UNCHANGED <<input, next, sent, stopped>>

Send(t) ==
  /\ ~stopped /\ held[t] # NoPacket /\ held[t].v = 4
  /\ sent' = Append(sent, [orig |-> held[t], out |-> Forward(held[t])])
  /\ held' = [held EXCEPT ![t] = NoPacket]
  /\ UNCHANGED <<input, next, queue, stopped>>

Stop ==
  /\ ~stopped /\ \E t \in Consumers : held[t] # NoPacket /\ held[t].v = 6
  /\ stopped' = TRUE
  /\ UNCHANGED <<input, next, queue, held, sent>>

Next == Read \/ (\E t \in Consumers : Take(t) \/ Send(t)) \/ Stop

SafeSpec == Init /\ [][Next]_avars

\* The reader reads on, some idle thread takes a waiting packet, a thread
\* with a packet sends it, and an unrewritable packet ends the proxy.
Fairness ==
  /\ WF_avars(Read) /\ WF_avars(\E t \in Consumers : Take(t))
  /\ \A t \in Consumers : WF_avars(Send(t))
  /\ WF_avars(Stop)

Spec == SafeSpec /\ Fairness
=============================================================================
