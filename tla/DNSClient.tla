------------------------------ MODULE DNSClient ------------------------------
(***************************************************************************)
(* One replay worker process: class DNSClient of                           *)
(* src/dns-replay-client-1.0/client.cc.  The worker reads length-framed    *)
(* DNSMsg records from its manager, anchors the trace clock on the sync    *)
(* record, arms one libevent timer per query (or sends it at once when it  *)
(* is late), sends it on the UDP socket of its source address, and matches *)
(* responses to queries through query_table to report a latency.          *)
(*                                                                         *)
(* Time is a discrete wall clock.  A timeval is an integer number of      *)
(* ticks: evutil_timersub keeps tv_usec in [0, 10^6), so "tv.tv_sec < 0"  *)
(* holds exactly when the difference is negative, and evutil_timerisset   *)
(* is false exactly for the value 0.  libevent caches the time of the      *)
(* running loop iteration (loopTime) and event_add computes an absolute    *)
(* deadline from that cached time, not from a fresh gettimeofday.          *)
(***************************************************************************)
EXTENDS Integers, Sequences, FiniteSets, FiniteSetsExt, TLC

CONSTANTS
  Src,              \* source addresses of the trace (msg->src_ip())
  Questions,        \* question sections get_query_rr_str can print
  NoQName,          \* get_query_rr_str's "" for a packet it cannot parse
  Ids,              \* DNS ids ldns_get_random may draw in set_random_id
  Inputs,           \* the record sequences the manager may write, sync first
  NonWait,          \* non_wait (--fast): send every query at once
  UnifyUdp,         \* socket_unify & SOCKET_UNIFY_UDP
  Fds,              \* descriptor numbers socket() may return
  UdpReadTimeout,   \* UDP_READ_TIMEOUT, in ticks
  IcmpErrors,       \* whether the server's host may refuse a datagram
  MaxCallbackTicks, \* bound: ticks that pass while one callback runs
  MaxArrivalDelay,  \* bound: clock value up to which manager data may lag
  ConnType,         \* conn_type: "udp", "tcp", "tls" or "adaptive"
  Bevs,             \* bufferevents that can hold a connected socket
  TimeOut,          \* time_out: TCP/TLS read timeout in ticks, 0 = none
  PeerErrors,       \* whether the server may refuse or close a connection
  SplitReplies      \* whether a TCP reply may arrive in two reads

NoFd == 0
NoSrc == "none"
NoDeadline == -1
NoBev == 0
NoConn == <<NoBev, 0>>

ASSUME /\ NoFd \notin Fds /\ Fds \subseteq Nat \ {0}
       /\ NoBev \notin Bevs /\ Bevs \subseteq Nat \ {0}
       /\ ConnType \in {"udp", "tcp", "tls", "adaptive"}
       /\ TimeOut \in Nat

(* A DNSMsg as the worker sees it: n is its position in the input, kept   *)
(* only to name the query in properties.                                   *)
Msg == [n : Nat, ts : Nat, src : Src, q : Questions \cup {NoQName},
        sync : BOOLEAN, tcp : BOOLEAN]

(* Key of query_table.  The key built inside the do-while loop is         *)
(* to_string(id) + " " + ldns_rr2str(question), whose text ends in a tab   *)
(* separated record and a newline; fmt_str re-joins the words with single  *)
(* spaces, so the stored key is never equal to the raw one.               *)
RawKey(id, q) == [id |-> id, rr |-> q, normalized |-> FALSE]
FmtStr(k) == [k EXCEPT !.normalized = TRUE]

(* Variant of QueryKey without the fmt_str call.                          *)
QueryKeyUnformatted(id, q) == RawKey(id, q)

(* The key send_query_udp stores: fmt_str of the key of the last draw.    *)
QueryKey(id, q) == FmtStr(RawKey(id, q))

(* The key sendto_manager looks up for a response.                        *)
ResponseKey(id, q) == FmtStr(RawKey(id, q))

UnifiedFd == Min(Fds)

VARIABLES
  clock,           \* gettimeofday, in ticks
  loopTime,        \* libevent's cached time of the running callback
  alive,           \* the process has not exited through log_err / err
  pending,         \* records the manager wrote that are not read yet
  batch,           \* msg_buffer: records read by the running manager_read_cb
  startTrace,      \* start_trace_ts (0 = not set)
  startReal,       \* start_real_ts
  timers,          \* armed evtimer events of send_query_helper
  openFds,         \* descriptors of open UDP sockets
  sockGen,         \* per descriptor, how many sockets have used it
  src2udpfd,       \* src2udpfd
  udpfd2src,       \* udpfd2src
  udpReadDeadline, \* udp_read_event: absolute timeout of each read event
  udpWrites,       \* one-shot EV_WRITE events of server_udp_write_cb
  net,             \* datagrams in flight to the server
  inbound,         \* datagrams queued on a client socket
  queryTable,      \* query_table: key -> send time (and the query's n)
  sendLog,         \* history: send_query calls, in order, with their time
  wireLog,         \* history: datagrams sent, with the socket's source
  src2bev,         \* src2bev: the source's TCP/TLS bufferevent
  bev2src,         \* bev2src
  conn,            \* per bufferevent: socket state, output and input
  bevGen,          \* per bufferevent: how many connections have used it
  latencies,       \* history: latency lines written to the manager
  answered,        \* history: queries whose TCP reply server_read_cb read
  input            \* history: the record sequence the manager wrote

sched == <<clock, loopTime, alive, pending, batch, startTrace, startReal, timers>>
udp == <<openFds, sockGen, src2udpfd, udpfd2src, udpReadDeadline, udpWrites,
         net, inbound>>
tcp == <<src2bev, bev2src, conn, bevGen>>
hist == <<queryTable, sendLog, wireLog, latencies, answered, input>>
vars == <<sched, udp, tcp, hist>>

Sock(fd) == <<fd, sockGen[fd]>>

-----------------------------------------------------------------------------
(* send_query_udp: draw an id until the raw key is not in query_table,    *)
(* pick the unified socket, the source's socket, or open a new one with a  *)
(* persistent read event, record the send time, and schedule the write.   *)
SendQueryUdp(m, cached, now) ==
  \E id \in Ids :
    LET key == QueryKey(id, m.q)
        free == Fds \ openFds
        reuse == UnifyUdp \/ src2udpfd[m.src] # NoFd
        fd == IF UnifyUdp THEN UnifiedFd
              ELSE IF src2udpfd[m.src] # NoFd THEN src2udpfd[m.src]
              ELSE Min(free)
    IN
    /\ RawKey(id, m.q) \notin DOMAIN queryTable
    /\ IF ~reuse /\ free = {}
         THEN \* socket() fails: log_err exits the worker
              /\ alive' = FALSE
              /\ UNCHANGED <<udp, queryTable>>
         ELSE
         /\ alive' = alive
         /\ IF reuse
              THEN UNCHANGED <<openFds, sockGen, src2udpfd, udpfd2src,
                               udpReadDeadline>>
              ELSE /\ openFds' = openFds \cup {fd}
                   /\ sockGen' = [sockGen EXCEPT ![fd] = @ + 1]
                   /\ src2udpfd' = [src2udpfd EXCEPT ![m.src] = fd]
                   /\ udpfd2src' = [udpfd2src EXCEPT ![fd] = m.src]
                   /\ udpReadDeadline' =
                        [udpReadDeadline EXCEPT ![fd] = cached + UdpReadTimeout]
         /\ queryTable' = IF m.q # NoQName
                            THEN key :> [t |-> now, n |-> m.n, via |-> NoConn] @@ queryTable
                            ELSE queryTable
         /\ udpWrites' = udpWrites \cup {[fd |-> fd, id |-> id, m |-> m]}
         /\ UNCHANGED <<net, inbound>>
    /\ sendLog' = Append(sendLog, [n |-> m.n, src |-> m.src, t |-> now,
                                    due |-> startReal + m.ts - startTrace])
    /\ UNCHANGED <<tcp, wireLog, latencies, answered, input>>

(* A bufferevent that holds no connection.                                 *)
FreeConn == [st |-> "free", out |-> <<>>, in |-> <<>>, deadline |-> NoDeadline]

(* send_query_tcp (and send_query_tls, which calls it): the same id loop;  *)
(* with the source's bufferevent, record the send time and append the      *)
(* length-framed query to its output; else record the send time, create a  *)
(* bufferevent, enter it in src2bev and bev2src, connect (a failure        *)
(* exits through log_err), set the read timeout from the cached time when *)
(* time_out > 0, and write.  A bufferevent stands for its socket, so no    *)
(* free one means socket() fails inside bufferevent_socket_connect.       *)
SendQueryTcp(m, cached, now) ==
  \E id \in Ids :
    LET key == QueryKey(id, m.q)
        free == {b \in Bevs : conn[b].st = "free"}
        found == src2bev[m.src] # NoBev
        b == IF found THEN src2bev[m.src] ELSE Min(free)
        gen == IF found THEN bevGen[b] ELSE bevGen[b] + 1
        frame == [id |-> id, q |-> m.q, n |-> m.n]
    IN
    /\ RawKey(id, m.q) \notin DOMAIN queryTable
    /\ IF ~found /\ free = {}
         THEN /\ alive' = FALSE
              /\ UNCHANGED <<tcp, queryTable>>
         ELSE
         /\ alive' = alive
         /\ queryTable' = IF m.q # NoQName
                            THEN key :> [t |-> now, n |-> m.n, via |-> <<b, gen>>]
                                 @@ queryTable
                            ELSE queryTable
         /\ IF found
              THEN /\ conn' = [conn EXCEPT ![b].out = Append(@, frame)]
                   /\ UNCHANGED <<src2bev, bev2src, bevGen>>
              ELSE /\ conn' = [conn EXCEPT ![b] =
                                 [st |-> "connecting", out |-> <<frame>>,
                                  in |-> <<>>,
                                  deadline |-> IF TimeOut > 0
                                               THEN cached + TimeOut
                                               ELSE NoDeadline]]
                   /\ src2bev' = [src2bev EXCEPT ![m.src] = b]
                   /\ bev2src' = [bev2src EXCEPT ![b] = m.src]
                   /\ bevGen' = [bevGen EXCEPT ![b] = gen]
    /\ sendLog' = Append(sendLog, [n |-> m.n, src |-> m.src, t |-> now,
                                    due |-> startReal + m.ts - startTrace])
    /\ UNCHANGED <<udp, wireLog, latencies, answered, input>>

(* send_query: the transport is chosen by conn_type, and in adaptive mode *)
(* by the record's tcp flag.  cached is libevent's time of the running     *)
(* callback, from which event_add counts; now is what evutil_gettimeofday  *)
(* returns.                                                                *)
UseTcp(m) == ConnType \in {"tcp", "tls"} \/ (ConnType = "adaptive" /\ m.tcp)

SendQuery(m, cached, now) ==
  IF UseTcp(m) THEN SendQueryTcp(m, cached, now)
               ELSE SendQueryUdp(m, cached, now)

-----------------------------------------------------------------------------
Init ==
  /\ clock = 1
  /\ loopTime = 1
  /\ alive = TRUE
  /\ pending \in Inputs
  /\ batch = <<>>
  /\ startTrace = 0
  /\ startReal = 0
  /\ timers = {}
  /\ openFds = IF UnifyUdp THEN {UnifiedFd} ELSE {}
  /\ sockGen = [f \in Fds |-> IF UnifyUdp /\ f = UnifiedFd THEN 1 ELSE 0]
  /\ src2udpfd = [s \in Src |-> NoFd]
  /\ udpfd2src = [f \in Fds |-> NoSrc]
  /\ udpReadDeadline = [f \in Fds |-> NoDeadline]
  /\ udpWrites = {}
  /\ net = {}
  /\ inbound = {}
  /\ queryTable = <<>>
  /\ sendLog = <<>>
  /\ wireLog = {}
  /\ src2bev = [s \in Src |-> NoBev]
  /\ bev2src = [b \in Bevs |-> NoSrc]
  /\ conn = [b \in Bevs |-> FreeConn]
  /\ bevGen = [b \in Bevs |-> 0]
  /\ latencies = {}
  /\ answered = {}
  /\ input = pending

(* A callback may start only between callbacks of the single-threaded     *)
(* event loop.                                                             *)
Idle == alive /\ batch = <<>>

(* Variant of ManagerReadCb whose framing loop stops one complete record  *)
(* early, as "if (sz >= left) break" would.                                *)
ManagerReadCbShort ==
  /\ Idle
  /\ \E k \in 1..(Len(pending) - 1) :
       /\ batch' = SubSeq(pending, 1, k)
       /\ pending' = SubSeq(pending, k + 1, Len(pending))
  /\ loopTime' = clock
  /\ UNCHANGED <<clock, alive, startTrace, startReal, timers, udp, tcp, hist>>

(* manager_read_cb: read every complete record that has arrived.          *)
ManagerReadCb ==
  /\ Idle
  /\ \E k \in 1..Len(pending) :
       /\ batch' = SubSeq(pending, 1, k)
       /\ pending' = SubSeq(pending, k + 1, Len(pending))
  /\ loopTime' = clock
  /\ UNCHANGED <<clock, alive, startTrace, startReal, timers, udp, tcp, hist>>

(* msg_buffer = msg_buffer.substr(sz + 4): the record leaves the buffer.  *)
Consume == batch' = Tail(batch)

(* The sync record: re-anchoring aborts the worker (log_err).             *)
ProcessSync ==
  /\ alive
  /\ batch # <<>>
  /\ Head(batch).sync
  /\ Consume
  /\ IF startTrace # 0
       THEN alive' = FALSE /\ UNCHANGED <<startTrace, startReal>>
       ELSE /\ startTrace' = Head(batch).ts
            /\ startReal' = clock
            /\ alive' = TRUE
  /\ UNCHANGED <<clock, loopTime, pending, timers, udp, tcp, hist>>

(* tv of manager_read_cb: the trace offset of the query minus the real    *)
(* time elapsed since the anchor, read at now.                            *)
Delay(m, now) == (m.ts - startTrace) - (now - startReal)

(* Variant of ArmTimer that falls through after the immediate send of the *)
(* re-check, arming the timer as well.                                    *)
ArmTimerNoContinue(m, now) ==
  /\ IF Delay(m, now) < 0
       THEN SendQuery(m, loopTime, now)
       ELSE alive' = alive /\ UNCHANGED <<udp, tcp, hist>>
  /\ timers' = timers \cup {[m |-> m, deadline |-> loopTime + Delay(m, now)]}

(* The timer path: re-read the clock; if the query became late, free the  *)
(* event and send at once, else evtimer_add with the relative delay, which *)
(* libevent adds to its cached time.                                       *)
ArmTimer(m, now) ==
  IF Delay(m, now) < 0
    THEN SendQuery(m, loopTime, now) /\ UNCHANGED timers
    ELSE /\ timers' = timers \cup
               {[m |-> m, deadline |-> loopTime + Delay(m, now)]}
         /\ alive' = alive
         /\ UNCHANGED <<udp, tcp, hist>>

(* A query record: abort if the trace clock is not anchored; send at once *)
(* when non_wait or late; else take the timer path, during which the     *)
(* clock may move on.                                                      *)
ProcessQuery ==
  /\ alive
  /\ batch # <<>>
  /\ ~Head(batch).sync
  /\ Consume
  /\ LET m == Head(batch) IN
     IF startTrace = 0
       THEN /\ alive' = FALSE
            /\ UNCHANGED <<clock, timers, udp, tcp, hist>>
     ELSE IF NonWait \/ Delay(m, clock) < 0
       THEN /\ SendQuery(m, loopTime, clock)
            /\ UNCHANGED <<clock, timers>>
     ELSE \E now2 \in {clock, clock + 1} \cap 0..(loopTime + MaxCallbackTicks) :
            /\ clock' = now2
            /\ ArmTimer(m, now2)
  /\ UNCHANGED <<loopTime, pending, startTrace, startReal>>

(* send_query_helper: the earliest expired timer fires.                   *)
TimerFire ==
  /\ Idle
  /\ \E t \in timers :
       /\ t.deadline <= clock
       /\ \A u \in timers : t.deadline <= u.deadline
       /\ timers' = timers \ {t}
       /\ SendQuery(t.m, clock, clock)
  /\ loopTime' = clock
  /\ UNCHANGED <<clock, pending, batch, startTrace, startReal>>

(* server_udp_write_cb: the socket is writable; send the datagram.  An     *)
(* event whose descriptor was closed never fires, unless socket() handed   *)
(* the number to a new socket.  A refusal pending on the connected socket  *)
(* is reported by this send as well as by a recv: send returns -1 and     *)
(* err(1) ends the worker.                                                 *)
UdpWriteCb ==
  /\ Idle
  /\ \E w \in udpWrites :
       LET refused == {r \in inbound : r.sock = Sock(w.fd) /\ r.n = 0} IN
       /\ w.fd \in openFds
       /\ udpWrites' = udpWrites \ {w}
       /\ IF refused # {}
            THEN /\ alive' = FALSE
                 /\ \E r \in refused : inbound' = inbound \ {r}
                 /\ UNCHANGED <<net, wireLog>>
            ELSE /\ net' = net \cup {[sock |-> Sock(w.fd), id |-> w.id,
                                      q |-> w.m.q, n |-> w.m.n]}
                 /\ wireLog' = wireLog \cup
                      {[n |-> w.m.n, src |-> w.m.src, from |-> udpfd2src[w.fd]]}
                 /\ UNCHANGED <<alive, inbound>>
  /\ loopTime' = clock
  /\ UNCHANGED <<clock, pending, batch, startTrace, startReal, timers,
                 openFds, sockGen, src2udpfd, udpfd2src, udpReadDeadline,
                 tcp, queryTable, sendLog, latencies, answered, input>>

(* The server answers a datagram, echoing id and question; the answer     *)
(* reaches the socket only while that socket is still open.               *)
ServerReply ==
  \E d \in net :
    /\ net' = net \ {d}
    /\ d.sock = Sock(d.sock[1]) /\ d.sock[1] \in openFds
    /\ inbound' = inbound \cup {[sock |-> d.sock, id |-> d.id, q |-> d.q,
                                 n |-> d.n]}
    /\ UNCHANGED <<sched, openFds, sockGen, src2udpfd, udpfd2src,
                   udpReadDeadline, udpWrites, tcp, hist>>

(* The query or its answer is lost.                                        *)
ServerDrop ==
  \E d \in net :
    /\ net' = net \ {d}
    /\ UNCHANGED <<sched, openFds, sockGen, src2udpfd, udpfd2src,
                   udpReadDeadline, udpWrites, inbound, tcp, hist>>

(* The server's host refuses a datagram (ICMP port unreachable): the next *)
(* recv on that connected socket fails.                                   *)
ServerRefuse ==
  \E d \in net :
    /\ IcmpErrors
    /\ net' = net \ {d}
    /\ d.sock[1] \in openFds /\ d.sock = Sock(d.sock[1])
    /\ inbound' = inbound \cup {[sock |-> d.sock, id |-> d.id, q |-> d.q,
                                 n |-> 0]}
    /\ UNCHANGED <<sched, openFds, sockGen, src2udpfd, udpfd2src,
                   udpReadDeadline, udpWrites, tcp, hist>>

(* sendto_manager: match the response's key and report the latency.       *)
SendtoManager(r) ==
  LET key == ResponseKey(r.id, r.q) IN
  IF key \in DOMAIN queryTable
    THEN /\ latencies' = latencies \cup
              {[owner |-> queryTable[key].n, resp |-> r.n,
                lat |-> clock - queryTable[key].t]}
         /\ queryTable' = [k \in DOMAIN queryTable \ {key} |-> queryTable[k]]
    ELSE UNCHANGED <<latencies, queryTable>>

(* server_udp_read_cb: receive one datagram; a failed recv (n = 0 marks   *)
(* a pending socket error) exits the worker through log_err.  The          *)
(* persistent read event's timeout restarts.                              *)
UdpReadCb ==
  /\ Idle
  /\ \E r \in inbound :
       /\ r.sock = Sock(r.sock[1]) /\ r.sock[1] \in openFds
       /\ inbound' = inbound \ {r}
       /\ IF r.n = 0
            THEN alive' = FALSE /\ UNCHANGED <<latencies, queryTable>>
            ELSE alive' = alive /\ SendtoManager(r)
       /\ udpReadDeadline' =
            IF udpReadDeadline[r.sock[1]] = NoDeadline THEN udpReadDeadline
            ELSE [udpReadDeadline EXCEPT ![r.sock[1]] = clock + UdpReadTimeout]
  /\ loopTime' = clock
  /\ UNCHANGED <<clock, pending, batch, startTrace, startReal, timers,
                 openFds, sockGen, src2udpfd, udpfd2src, udpWrites, net,
                 tcp, sendLog, wireLog, answered, input>>

(* Variant of ForgetSocket that erases udpfd2src but not src2udpfd.       *)
ForgetSocketKeepSrc(fd) ==
  /\ src2udpfd' = src2udpfd
  /\ udpfd2src' = [udpfd2src EXCEPT ![fd] = NoSrc]

(* The tail of server_udp_read_timeout_cb: drop both map entries of the   *)
(* socket, if it belongs to a source.                                      *)
ForgetSocket(fd) ==
  /\ src2udpfd' = IF udpfd2src[fd] = NoSrc THEN src2udpfd
                  ELSE [src2udpfd EXCEPT ![udpfd2src[fd]] = NoFd]
  /\ udpfd2src' = [udpfd2src EXCEPT ![fd] = NoSrc]

(* server_udp_read_timeout_cb: no datagram for UDP_READ_TIMEOUT; close    *)
(* the socket and forget it.  Pending write events are left behind.       *)
UdpReadTimeoutCb ==
  /\ Idle
  /\ \E fd \in openFds :
       /\ udpReadDeadline[fd] # NoDeadline
       /\ udpReadDeadline[fd] <= clock
       /\ ~\E r \in inbound : r.sock = Sock(fd)
       /\ openFds' = openFds \ {fd}
       /\ udpReadDeadline' = [udpReadDeadline EXCEPT ![fd] = NoDeadline]
       /\ ForgetSocket(fd)
  /\ loopTime' = clock
  /\ UNCHANGED <<clock, alive, pending, batch, startTrace, startReal, timers,
                 sockGen, udpWrites, net, inbound, tcp, hist>>

-----------------------------------------------------------------------------
(* The TCP/TLS half.  libevent writes a bufferevent's output once the      *)
(* connection is up; the server answers frames in order.                   *)

Live(b) == conn[b].st # "free"

(* The connection (or TLS handshake) completes: server_event_cb sees      *)
(* BEV_EVENT_CONNECTED and only logs it.                                   *)
ServerAccept ==
  \E b \in Bevs :
    /\ conn[b].st = "connecting"
    /\ conn' = [conn EXCEPT ![b].st = "open"]
    /\ UNCHANGED <<sched, udp, src2bev, bev2src, bevGen, hist>>

(* The server answers the first frame written on the connection.  Its     *)
(* reply may reach the client in one read or as a length and a body.      *)
ServerTcpReply ==
  \E b \in Bevs :
    /\ conn[b].st = "open"
    /\ conn[b].out # <<>>
    /\ LET f == Head(conn[b].out)
           r(part) == [id |-> f.id, q |-> f.q, n |-> f.n, part |-> part]
       IN \E parts \in {<<r("whole")>>} \cup
                       (IF SplitReplies THEN {<<r("hdr"), r("body")>>} ELSE {}) :
            conn' = [conn EXCEPT ![b].out = Tail(@), ![b].in = @ \o parts]
    /\ UNCHANGED <<sched, udp, src2bev, bev2src, bevGen, hist>>

(* The server refuses the connection or closes it; the error or EOF is   *)
(* seen after the data already received.                                   *)
ServerClose ==
  \E b \in Bevs :
    /\ PeerErrors
    /\ conn[b].st \in {"connecting", "open"}
    /\ conn' = [conn EXCEPT ![b].st = "closed", ![b].out = <<>>]
    /\ UNCHANGED <<sched, udp, src2bev, bev2src, bevGen, hist>>

(* server_read_cb with OUTPUT_LATENCY: read everything the input buffer    *)
(* holds, skip its first two bytes and hand the rest to sendto_manager as  *)
(* one DNS message.  Only a read that starts with a reply's length and     *)
(* holds its body parses as that reply; the replies behind it are read    *)
(* and dropped.  The read resets the read timeout.                         *)
TcpReadCb ==
  /\ Idle
  /\ \E b \in Bevs : \E k \in 1..Len(conn[b].in) :
       LET got == SubSeq(conn[b].in, 1, k)
           first == got[1]
       IN
       /\ Live(b)
       /\ conn' = [conn EXCEPT
                     ![b].in = SubSeq(@, k + 1, Len(@)),
                     ![b].deadline = IF TimeOut > 0 THEN clock + TimeOut
                                     ELSE NoDeadline]
       /\ IF first.part = "whole" \/ (first.part = "hdr" /\ k >= 2)
            THEN SendtoManager(first)
            ELSE UNCHANGED <<latencies, queryTable>>
       /\ answered' = answered \cup
                        {got[i].n : i \in {i \in 1..k : got[i].part # "hdr"}}
  /\ loopTime' = clock
  /\ UNCHANGED <<clock, alive, pending, batch, startTrace, startReal, timers,
                 udp, src2bev, bev2src, bevGen, sendLog, wireLog, input>>

(* Variant of DropConnection that leaves the source's src2bev entry.      *)
DropConnectionKeepSrc(b) ==
  /\ src2bev' = src2bev
  /\ bev2src' = [bev2src EXCEPT ![b] = NoSrc]
  /\ conn' = [conn EXCEPT ![b] = FreeConn]

(* The clean-up of server_event_cb: erase the source's entries from        *)
(* src2bev and bev2src and free the bufferevent, with its unsent output.   *)
DropConnection(b) ==
  /\ src2bev' = IF bev2src[b] = NoSrc THEN src2bev
                ELSE [src2bev EXCEPT ![bev2src[b]] = NoBev]
  /\ bev2src' = [bev2src EXCEPT ![b] = NoSrc]
  /\ conn' = [conn EXCEPT ![b] = FreeConn]

(* server_event_cb on BEV_EVENT_TIMEOUT (no data for time_out), EOF or     *)
(* ERROR.  Data that is ready is read first: the read event is persistent *)
(* and its timeout restarts when it fires for input.                      *)
TcpEventCb ==
  /\ Idle
  /\ \E b \in Bevs :
       /\ Live(b)
       /\ conn[b].in = <<>>
       /\ \/ conn[b].st = "closed"
          \/ conn[b].deadline # NoDeadline /\ conn[b].deadline <= clock
       /\ DropConnection(b)
  /\ loopTime' = clock
  /\ UNCHANGED <<clock, alive, pending, batch, startTrace, startReal, timers,
                 udp, bevGen, hist>>

(* Wall-clock time passes: while a callback runs, while a timer or a read *)
(* timeout waits, and while the manager's data has not arrived.  A UDP     *)
(* socket is always writable, so its write event runs in the next loop    *)
(* iteration, before the clock moves on.                                   *)
Tick ==
  /\ alive
  /\ \/ batch # <<>> /\ clock < loopTime + MaxCallbackTicks
     \/ /\ batch = <<>>
        /\ \A w \in udpWrites : w.fd \notin openFds
        /\ \/ \E t \in timers : t.deadline > clock
           \/ \E f \in openFds : udpReadDeadline[f] > clock
           \/ \E b \in Bevs : Live(b) /\ conn[b].deadline > clock
           \/ pending # <<>> /\ clock < MaxArrivalDelay
  /\ clock' = clock + 1
  /\ UNCHANGED <<loopTime, alive, pending, batch, startTrace, startReal,
                 timers, udp, tcp, hist>>

Worker == ManagerReadCb \/ ProcessSync \/ ProcessQuery \/ TimerFire
          \/ UdpWriteCb \/ UdpReadCb \/ UdpReadTimeoutCb \/ TcpReadCb
          \/ TcpEventCb
Server == ServerReply \/ ServerDrop \/ ServerRefuse \/ ServerAccept
          \/ ServerTcpReply \/ ServerClose
Next == Worker \/ Server \/ Tick

(* libevent runs every active event, and real time keeps passing.          *)
Fairness ==
  /\ WF_vars(ManagerReadCb) /\ WF_vars(ProcessSync) /\ WF_vars(ProcessQuery)
  /\ WF_vars(TimerFire) /\ WF_vars(UdpWriteCb) /\ WF_vars(UdpReadCb)
  /\ WF_vars(UdpReadTimeoutCb) /\ WF_vars(TcpReadCb) /\ WF_vars(TcpEventCb)
  /\ WF_vars(Tick)

Spec == Init /\ [][Next]_vars /\ Fairness

-----------------------------------------------------------------------------
(* Properties.                                                             *)

TypeOK ==
  /\ clock \in Nat /\ loopTime \in Nat /\ loopTime <= clock
  /\ alive \in BOOLEAN
  /\ pending \in Seq(Msg) /\ batch \in Seq(Msg)
  /\ startTrace \in Nat /\ startReal \in Nat
  /\ \A t \in timers : t.m \in Msg /\ t.deadline \in Int
  /\ openFds \subseteq Fds
  /\ sockGen \in [Fds -> Nat]
  /\ src2udpfd \in [Src -> Fds \cup {NoFd}]
  /\ udpfd2src \in [Fds -> Src \cup {NoSrc}]
  /\ udpReadDeadline \in [Fds -> Int]
  /\ \A w \in udpWrites : w.fd \in Fds /\ w.id \in Ids /\ w.m \in Msg
  /\ \A k \in DOMAIN queryTable : k.normalized /\ queryTable[k].t \in Nat
  /\ \A i \in DOMAIN sendLog : sendLog[i].n \in Nat
  /\ src2bev \in [Src -> Bevs \cup {NoBev}]
  /\ bev2src \in [Bevs -> Src \cup {NoSrc}]
  /\ \A b \in Bevs : /\ conn[b].st \in {"free", "connecting", "open", "closed"}
                    /\ conn[b].deadline \in Int
                    /\ \A i \in DOMAIN conn[b].in :
                         conn[b].in[i].part \in {"whole", "hdr", "body"}
  /\ bevGen \in [Bevs -> Nat]
  /\ answered \subseteq Nat

Dispatched == {sendLog[i].n : i \in DOMAIN sendLog}
Armed == {t.m.n : t \in timers}

Queries == {input[i].n : i \in {i \in DOMAIN input : ~input[i].sync}}
Waiting == {pending[i].n : i \in DOMAIN pending}
           \cup {batch[i].n : i \in DOMAIN batch}

(* Every query the manager wrote sits in exactly one place: unread, in a   *)
(* timer of manager_read_cb, or in a single send_query call (both paths of *)
(* manager_read_cb, including the re-check that frees the timer event, and *)
(* send_query_helper).                                                     *)
QueryConservation ==
  /\ alive => Queries \subseteq Waiting \cup Armed \cup Dispatched
  /\ Armed \cap Dispatched = {}
  /\ Waiting \cap (Armed \cup Dispatched) = {}
  /\ \A t, u \in timers : t.m.n = u.m.n => t = u
  /\ \A i, j \in DOMAIN sendLog : i # j => sendLog[i].n # sendLog[j].n

(* The two UDP socket maps stay mutually inverse and only name open        *)
(* sockets that still have their read event, through socket creation in   *)
(* send_query_udp and the clean-up in server_udp_read_timeout_cb.  A stale *)
(* entry would make send_query_udp schedule a write on a closed socket.    *)
UdpMapsConsistent ==
  /\ \A s \in Src : src2udpfd[s] # NoFd =>
        /\ src2udpfd[s] \in openFds
        /\ udpfd2src[src2udpfd[s]] = s
        /\ udpReadDeadline[src2udpfd[s]] # NoDeadline
  /\ \A f \in Fds : udpfd2src[f] # NoSrc => src2udpfd[udpfd2src[f]] = f

(* Spec 3: at most one live connection per source address.  src2bev and  *)
(* bev2src stay mutually inverse and name exactly the bufferevents that    *)
(* are not freed, through send_query_tcp's creation and server_event_cb's  *)
(* clean-up.  A stale src2bev entry would make send_query_tcp write to a  *)
(* freed bufferevent.                                                      *)
TcpMapsConsistent ==
  /\ \A s \in Src : src2bev[s] # NoBev =>
        Live(src2bev[s]) /\ bev2src[src2bev[s]] = s
  /\ \A b \in Bevs : Live(b) <=> bev2src[b] # NoSrc
  /\ \A b \in Bevs : bev2src[b] # NoSrc => src2bev[bev2src[b]] = b

(* Every record the manager wrote is eventually read and every armed timer *)
(* eventually fires: manager_read_cb's framing loop and send_query_helper  *)
(* leave nothing behind.                                                   *)
AllQueriesDispatched ==
  <>[](alive => pending = <<>> /\ batch = <<>> /\ timers = {})

(* Spec 8.4: a latency is reported against the query the response answers; *)
(* a key collision must make send_query draw a new id.                     *)
LatencyOfOwnQuery == \A l \in latencies : l.owner = l.resp

(* Spec 4.3: TCP reads are de-framed greedily, so every reply that         *)
(* server_read_cb reads is matched and its query leaves query_table.       *)
ReadRepliesMatched ==
  \A k \in DOMAIN queryTable : queryTable[k].n \notin answered

=============================================================================
