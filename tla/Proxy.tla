------------------------------- MODULE Proxy -------------------------------
(***************************************************************************)
(* The DNS replay proxy (dns-replay-proxy-1.0): one reader thread reads    *)
(* packets from the TUN interface and pushes them into a safe_queue; each *)
(* of num_threads processing threads pops a packet, rewrites its addresses *)
(* and sends it on its own raw socket.                                     *)
(*                                                                         *)
(* safe_queue guards a std::queue with one mutex and ONE condition        *)
(* variable shared by push and pop.  Each critical section (lock, while   *)
(* check, push or pop, unlock) is one atomic step here: no other thread   *)
(* can touch the queue while it holds the mutex.  cv.wait releases the    *)
(* mutex and puts the thread in waitSet; notify_one, done AFTER unlock,   *)
(* is a step of its own and removes one waiter, whichever the runtime     *)
(* picks; a woken thread goes back to the head of its while loop and      *)
(* rechecks.  A spurious wakeup may happen at any time.                   *)
(*                                                                         *)
(* A packet is a record; its ck field names the pseudo-header addresses   *)
(* the TCP/UDP checksum was computed over.                                 *)
(***************************************************************************)
EXTENDS Integers, Sequences

CONSTANTS
  Reader,      \* the read_packet thread
  Consumers,   \* the process_packet threads
  Inputs,      \* packet sequences the TUN interface may deliver
  Target,      \* target_addr, IPv4
  MaxLen,      \* safe_queue's max_len
  NoPacket

Threads == {Reader} \cup Consumers

VARIABLES
  input,       \* what read(tun_fd) will return, in order
  rpos,        \* index of the next packet read returns
  cur,         \* the reader's packet between read and push
  q,           \* safe_queue::q
  waitSet,     \* threads blocked in cv.wait
  pc,          \* where each thread is
  item,        \* per consumer: the packet popped and not yet freed
  sentLog,     \* packets sent on a raw socket, as [orig, out]
  exited       \* errx/err ended the process

vars == <<input, rpos, cur, q, waitSet, pc, item, sentLog, exited>>

(* Where cv.wait returns to: the head of the while loop in push or pop.   *)
Resume(t) == IF t = Reader THEN "push" ELSE "pop"

RewriteCksumFirst(p) ==
  LET a == [p EXCEPT !.src = p.dst, !.dst = Target]
  IN  IF a.proto \in {"tcp", "udp"} THEN [a EXCEPT !.ck = <<p.src, p.dst>>]
      ELSE a

(* process_packet_helper's rewrite of an IPv4 packet: the source becomes  *)
(* the original destination, the destination the target; then, for TCP  *)
(* and UDP, the checksum is recomputed over the NEW addresses.  The IP    *)
(* header sum is zeroed for the kernel to fill and is left out.           *)
Rewrite(p) ==
  LET a == [p EXCEPT !.src = p.dst, !.dst = Target]
  IN  IF a.proto \in {"tcp", "udp"} THEN [a EXCEPT !.ck = <<a.src, a.dst>>]
      ELSE a

Init ==
  /\ input \in Inputs
  /\ rpos = 1 /\ cur = NoPacket /\ q = <<>> /\ waitSet = {}
  /\ pc = [t \in Threads |-> IF t = Reader THEN "read" ELSE "pop"]
  /\ item = [c \in Consumers |-> NoPacket]
  /\ sentLog = <<>> /\ exited = FALSE

(* read_packet: read(tun_fd) returns the next packet, copied to the heap. *)
(* When no packet comes, read blocks: the thread has no step.             *)
ReadTun ==
  /\ ~exited /\ pc[Reader] = "read" /\ rpos <= Len(input)
  /\ cur' = input[rpos] /\ rpos' = rpos + 1
  /\ pc' = [pc EXCEPT ![Reader] = "push"]
  /\ UNCHANGED <<input, q, waitSet, item, sentLog, exited>>

PushNoNotify ==
  /\ ~exited /\ pc[Reader] = "push"
  /\ \/ /\ Len(q) >= MaxLen
        /\ waitSet' = waitSet \cup {Reader}
        /\ pc' = [pc EXCEPT ![Reader] = "waiting"]
        /\ UNCHANGED <<q, cur>>
     \/ /\ Len(q) < MaxLen
        /\ q' = Append(q, cur) /\ cur' = NoPacket
        /\ pc' = [pc EXCEPT ![Reader] = "read"]
        /\ UNCHANGED waitSet
  /\ UNCHANGED <<input, rpos, item, sentLog, exited>>

(* safe_queue::push up to unlock: wait while full, else push and unlock.  *)
Push ==
  /\ ~exited /\ pc[Reader] = "push"
  /\ \/ /\ Len(q) >= MaxLen
        /\ waitSet' = waitSet \cup {Reader}
        /\ pc' = [pc EXCEPT ![Reader] = "waiting"]
        /\ UNCHANGED <<q, cur>>
     \/ /\ Len(q) < MaxLen
        /\ q' = Append(q, cur) /\ cur' = NoPacket
        /\ pc' = [pc EXCEPT ![Reader] = "notify"]
        /\ UNCHANGED waitSet
  /\ UNCHANGED <<input, rpos, item, sentLog, exited>>

(* safe_queue::pop up to unlock: wait while empty, else take the front.   *)
Pop(c) ==
  /\ ~exited /\ pc[c] = "pop"
  /\ \/ /\ q = <<>>
        /\ waitSet' = waitSet \cup {c}
        /\ pc' = [pc EXCEPT ![c] = "waiting"]
        /\ UNCHANGED <<q, item>>
     \/ /\ q # <<>>
        /\ item' = [item EXCEPT ![c] = Head(q)] /\ q' = Tail(q)
        /\ pc' = [pc EXCEPT ![c] = "notify"]
        /\ UNCHANGED waitSet
  /\ UNCHANGED <<input, rpos, cur, sentLog, exited>>

(* cv.notify_one after unlock, at the end of push and of pop: one waiter *)
(* of either kind, if any, leaves the wait set and rechecks.              *)
NotifyOne(t) ==
  /\ ~exited /\ pc[t] = "notify"
  /\ LET after == IF t = Reader THEN "read" ELSE "process" IN
     \/ /\ waitSet = {}
        /\ pc' = [pc EXCEPT ![t] = after]
        /\ UNCHANGED waitSet
     \/ \E w \in waitSet :
          /\ waitSet' = waitSet \ {w}
          /\ pc' = [pc EXCEPT ![t] = after, ![w] = Resume(w)]
  /\ UNCHANGED <<input, rpos, cur, q, item, sentLog, exited>>

(* cv.wait may return with no notify.                                     *)
SpuriousWake ==
  /\ ~exited
  /\ \E w \in waitSet :
       /\ waitSet' = waitSet \ {w}
       /\ pc' = [pc EXCEPT ![w] = Resume(w)]
  /\ UNCHANGED <<input, rpos, cur, q, item, sentLog, exited>>

(* process_packet_helper then delete[]: an IPv6 packet hits errx, which  *)
(* ends every thread; an IPv4 one is rewritten and sent.                  *)
Process(c) ==
  /\ ~exited /\ pc[c] = "process"
  /\ \/ /\ item[c].v = 6
        /\ exited' = TRUE
        /\ UNCHANGED <<sentLog, item, pc>>
     \/ /\ item[c].v = 4
        /\ sentLog' = Append(sentLog,
                             [orig |-> item[c], out |-> Rewrite(item[c])])
        /\ item' = [item EXCEPT ![c] = NoPacket]
        /\ pc' = [pc EXCEPT ![c] = "pop"]
        /\ UNCHANGED exited
  /\ UNCHANGED <<input, rpos, cur, q, waitSet>>

Next ==
  \/ ReadTun \/ Push \/ NotifyOne(Reader)
  \/ \E c \in Consumers : Pop(c) \/ NotifyOne(c) \/ Process(c)
  \/ SpuriousWake

(* The OS schedules every runnable thread; spurious wakeups are not owed. *)
Fairness ==
  /\ WF_vars(ReadTun) /\ WF_vars(Push) /\ WF_vars(NotifyOne(Reader))
  /\ \A c \in Consumers :
       WF_vars(Pop(c)) /\ WF_vars(NotifyOne(c)) /\ WF_vars(Process(c))

Spec == Init /\ [][Next]_vars /\ Fairness


(* The refinement mapping: the reader's packet between read() and push   *)
(* has not been read yet in the abstract queue; a consumer holds its     *)
(* packet from pop until the send returns.                               *)
PQ == INSTANCE PacketQueue WITH
        next <- rpos - (IF cur = NoPacket THEN 0 ELSE 1),
        queue <- q, held <- item, sent <- sentLog, stopped <- exited

(* Every packet read from the TUN device is taken once, in queue order,  *)
(* and leaves rewritten toward the target with a checksum over the new   *)
(* addresses: the threads, the one shared cv and process_packet_helper   *)
(* implement the abstract FIFO's safety.                                  *)
PacketQueueSafe == PQ!SafeSpec

(* No packet stays in the queue while a consumer sleeps, and every popped *)
(* packet is sent: notify_one after push and after pop wakes enough       *)
(* waiters that the abstract FIFO's fairness holds.                       *)
PacketQueueLive == PQ!Fairness
=============================================================================
