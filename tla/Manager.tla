------------------------------ MODULE Manager ------------------------------
(***************************************************************************)
(* The client-side manager (dns-replay-client-1.0/manager.cc): the parent *)
(* of the worker processes, which hands every input record to one worker  *)
(* over its socket pair, as a 4-byte length and a body.                   *)
(*                                                                         *)
(*  - non-distributed mode: the read_input_file thread reads the trace,   *)
(*    writes the first valid record to every worker as the sync record,   *)
(*    and then routes every record with rand_client_fd;                    *)
(*  - distributed mode: the event loop holds a TCP connection to the      *)
(*    commander (the controller's postman); com_read_cb de-frames its     *)
(*    stream, forwards the first sync_time message to every worker and    *)
(*    routes the others; com_bevent_cb reconnects after an error, EOF or  *)
(*    timeout, and gives up on the FAIL_RETRY_LIMIT-th.                   *)
(*                                                                         *)
(* A record is its position n in the trace.  The commander's frame of     *)
(* record n carries a 2-byte body <<sync, n>>, so what com_read_cb cuts    *)
(* from the stream shows which bytes it took.  A worker is its index in   *)
(* client_idx2fd; what the worker does with a record is DNSClient's.      *)
(***************************************************************************)
EXTENDS Integers, Sequences, FiniteSets, Filter

IS == INSTANCE InputSource

CONSTANTS
  NumClients,    \* num_clients: the workers 0..NumClients-1
  Srcs,          \* source IPs
  NoSrc,         \* src_ip of a message that parsed to nothing ("")
  Files,         \* the input file of each input_format, as InputSource's
                 \* entries; the commander's records are lines of Files.text
  Formats,       \* values of input_format the model starts in
  Frames,        \* what the commander writes, in order: [n, sync]
  DistModes,     \* values of dist the model starts in
  MapModes,      \* values of disable_mapping the model starts in
  CutMidFrame    \* whether the commander connection may break inside a frame

ASSUME /\ NumClients \in Nat \ {0}
       /\ Formats \subseteq DOMAIN Files /\ "text" \in DOMAIN Files
       /\ \A f \in DOMAIN Files : Len(Files[f]) < 128
       /\ Frames \in Seq([n : 1..Len(Files.text), sync : BOOLEAN])
       /\ \A i \in DOMAIN Frames : IS!ValidLine(Files.text[Frames[i].n])
       /\ DistModes \subseteq BOOLEAN /\ MapModes \subseteq BOOLEAN
       /\ CutMidFrame \in BOOLEAN

FAIL_RETRY_LIMIT == 5
HeaderLen == 4
NoW == -1
Workers == 0..NumClients-1
Keys == Srcs \cup {NoSrc}
Records == Files.text

\* What the manager's InputSource makes of a question: build_dns_query's
\* query (with EDNS), build_dns_pkt's header-only packet, or no packet.
\* Only whether a message has a raw packet matters to the manager.
NoRaw == "none"
Env == [keys |-> Keys, noSrc |-> NoSrc, empty |-> NoRaw, pkts |-> {"query"},
        build |-> [name |-> "query", dash |-> "header", bad |-> NoRaw]]

\* The commander's frame: htonl(size), then the serialized message.
Frame(f) == <<0, 0, 0, 2, IF f.sync THEN 1 ELSE 0, f.n>>

\* ntohl of the first four bytes of com_msg_buffer
ComSize(b) == ((b[1] * 256 + b[2]) * 256 + b[3]) * 256 + b[4]

\* msg->ParseFromArray(d, sz): a body the commander wrote gives its record;
\* any other bytes give a message whose fields are whatever they parse to.
Parse(d) ==
  IF Len(d) = 2 /\ d[1] \in {0, 1} /\ d[2] \in 1..Len(Records)
  THEN {[n |-> d[2], sync |-> d[1] = 1, src |-> Records[d[2]].src]}
  ELSE {[n |-> 0, sync |-> sy, src |-> s] : sy \in BOOLEAN, s \in Keys}

VARIABLES
  dist,       \* Manager::dist
  fmt,        \* input_format
  noMap,      \* disable_mapping
  rpos,       \* read_input_file: next trace record
  doneSync,   \* done_sync_time
  src2w,      \* client_src2fd, as worker indices (NoW: no entry)
  out,        \* every record written to a worker, in write order
  exited,     \* log_err: the manager has terminated its workers and exited
  comState,   \* com_bev: "connecting" or "up"
  sent,       \* the commander's next frame
  wire,       \* bytes the commander wrote on com_bev's socket, not yet read
  comBuf,     \* com_msg_buffer
  looping,    \* com_read_cb is inside its while loop
  retry       \* com_fail_retry

mode == <<dist, fmt, noMap>>
com  == <<comState, sent, wire, comBuf, looping, retry>>
vars == <<mode, rpos, doneSync, src2w, out, exited, com>>

\* the file the reader thread reads
File == Files[fmt]

Entry == [kind : {"sync", "query"}, w : Workers, n : 0..127, src : Keys]

\* The Manager constructor and main_event_loop: no mapping, no sync yet;
\* in dist mode com_bev's connect is under way (and the input file unused).
Init ==
  /\ dist \in DistModes /\ noMap \in MapModes
  /\ fmt \in IF dist THEN {"text"} ELSE Formats
  /\ rpos = 1 /\ doneSync = FALSE /\ src2w = [k \in Keys |-> NoW]
  /\ out = <<>> /\ exited = FALSE
  /\ comState = "connecting" /\ sent = 1 /\ wire = <<>> /\ comBuf = <<>>
  /\ looping = FALSE /\ retry = 0

\* Manager::rand_client_fd(src): the worker and the new client_src2fd.
\* With disable_mapping any worker; else the source's worker, or a drawn
\* one that is entered for good.
RandClientFd(src) ==
  IF noMap THEN {<<w, src2w>> : w \in Workers}
  ELSE IF src2w[src] # NoW THEN {<<src2w[src], src2w>>}
  ELSE {<<w, [src2w EXCEPT ![src] = w]>> : w \in Workers}

\* write() of length and body to every client_fd, in client_fd order
SyncAll(m) ==
  [i \in 1..NumClients |-> [kind |-> "sync", w |-> i - 1, n |-> m.n,
                            src |-> m.src]]

Query(w, m) == [kind |-> "query", w |-> w, n |-> m.n, src |-> m.src]

-----------------------------------------------------------------------------
(* Non-distributed mode: the read_input_file thread.  It shares no state  *)
(* with the event-loop thread (read_client_cb only copies the workers'    *)
(* output to a file), so one iteration of its loop is one step.           *)

(* Variant of ReadInputRecord that routes the record before the sync.      *)
ReadInputRecordRouteFirst ==
  /\ ~dist /\ ~exited /\ rpos <= Len(File)
  /\ \E g \in IS!Get(fmt, File, rpos, Env) :
       /\ rpos' = g.next
       /\ IF g.kind \in {"exit", "abort"}
          THEN exited' = TRUE /\ UNCHANGED <<doneSync, src2w, out>>
          ELSE IF g.kind = "eof" \/ g.raw = NoRaw
          THEN UNCHANGED <<doneSync, src2w, out, exited>>
          ELSE LET m    == [n |-> g.next - 1, sync |-> FALSE, src |-> g.src]
                   sync == IF doneSync THEN <<>> ELSE SyncAll(m)
               IN  /\ doneSync' = TRUE /\ UNCHANGED exited
                   /\ \E r \in RandClientFd(m.src) :
                        /\ out' = out \o <<Query(r[1], m)>> \o sync
                        /\ src2w' = r[2]
  /\ UNCHANGED <<mode, com>>

\* One iteration of read_input_file's while: ins->get() (NULL ends the
\* loop; errx or an exception inside it ends the manager); skip a message
\* with an empty raw packet; before the first valid one write its sync
\* copy to every client_fd; then write the record to
\* rand_client_fd(src_ip).  The query_pace and trace_limit sleeps only
\* delay the thread, and a record is its entry's position in the file.
ReadInputRecord ==
  /\ ~dist /\ ~exited /\ rpos <= Len(File)
  /\ \E g \in IS!Get(fmt, File, rpos, Env) :
       /\ rpos' = g.next
       /\ IF g.kind \in {"exit", "abort"}
          THEN exited' = TRUE /\ UNCHANGED <<doneSync, src2w, out>>
          ELSE IF g.kind = "eof" \/ g.raw = NoRaw
          THEN UNCHANGED <<doneSync, src2w, out, exited>>
          ELSE LET m    == [n |-> g.next - 1, sync |-> FALSE, src |-> g.src]
                   sync == IF doneSync THEN <<>> ELSE SyncAll(m)
               IN  /\ doneSync' = TRUE /\ UNCHANGED exited
                   /\ \E r \in RandClientFd(m.src) :
                        /\ out' = out \o sync \o <<Query(r[1], m)>>
                        /\ src2w' = r[2]
  /\ UNCHANGED <<mode, com>>

-----------------------------------------------------------------------------
(* Distributed mode: the commander (environment) and the event loop's     *)
(* com_bev callbacks.                                                      *)

\* The commander accepts com_bev's connection (BEV_EVENT_CONNECTED: the
\* helper only logs).
ComConnected ==
  /\ dist /\ ~exited /\ comState = "connecting"
  /\ comState' = "up"
  /\ UNCHANGED <<mode, rpos, doneSync, src2w, out, exited, sent, wire, comBuf,
                 looping, retry>>

\* The commander writes its next frame on the connection.
CommanderSend ==
  /\ dist /\ ~exited /\ comState = "up" /\ sent <= Len(Frames)
  /\ wire' = wire \o Frame(Frames[sent]) /\ sent' = sent + 1
  /\ UNCHANGED <<mode, rpos, doneSync, src2w, out, exited, comState, comBuf,
                 looping, retry>>

\* Manager::com_read_cb up to its loop: bufferevent_read takes whatever
\* part of the stream has arrived and appends it to com_msg_buffer; the
\* while condition is size > 4.
ComReadCb ==
  /\ dist /\ ~exited /\ comState = "up" /\ ~looping /\ wire # <<>>
  /\ \E k \in 1..Len(wire) :
       LET buf == comBuf \o SubSeq(wire, 1, k)
       IN  /\ comBuf' = buf /\ wire' = SubSeq(wire, k + 1, Len(wire))
           /\ looping' = (Len(buf) > HeaderLen)
  /\ UNCHANGED <<mode, rpos, doneSync, src2w, out, exited, comState, sent,
                 retry>>

(* Variant of ComLoopBody that parses from the head of the buffer, as if  *)
(* d were not advanced past the length.                                    *)
ComLoopBodyNoAdvance ==
  /\ looping
  /\ LET sz   == ComSize(comBuf)
         left == Len(comBuf) - HeaderLen
         rest == SubSeq(comBuf, sz + HeaderLen + 1, Len(comBuf))
     IN  IF ULT(left, sz)
         THEN /\ looping' = FALSE
              /\ UNCHANGED <<doneSync, src2w, out, comBuf>>
         ELSE /\ comBuf' = rest /\ looping' = (Len(rest) > HeaderLen)
              /\ \E m \in Parse(SubSeq(comBuf, 1, sz)) :
                   IF ~doneSync /\ m.sync
                   THEN /\ doneSync' = TRUE /\ out' = out \o SyncAll(m)
                        /\ UNCHANGED src2w
                   ELSE /\ \E r \in RandClientFd(m.src) :
                             out' = Append(out, Query(r[1], m)) /\ src2w' = r[2]
                        /\ UNCHANGED doneSync
  /\ UNCHANGED <<mode, rpos, exited, comState, sent, wire, retry>>

(* Variant of ComLoopBody with an if in place of the while.                *)
ComLoopBodyOnce ==
  /\ looping
  /\ LET sz   == ComSize(comBuf)
         left == Len(comBuf) - HeaderLen
         rest == SubSeq(comBuf, sz + HeaderLen + 1, Len(comBuf))
     IN  IF ULT(left, sz)
         THEN /\ looping' = FALSE
              /\ UNCHANGED <<doneSync, src2w, out, comBuf>>
         ELSE /\ comBuf' = rest /\ looping' = FALSE
              /\ \E m \in Parse(SubSeq(comBuf, HeaderLen + 1, HeaderLen + sz)) :
                   IF ~doneSync /\ m.sync
                   THEN /\ doneSync' = TRUE /\ out' = out \o SyncAll(m)
                        /\ UNCHANGED src2w
                   ELSE /\ \E r \in RandClientFd(m.src) :
                             out' = Append(out, Query(r[1], m)) /\ src2w' = r[2]
                        /\ UNCHANGED doneSync
  /\ UNCHANGED <<mode, rpos, exited, comState, sent, wire, retry>>

\* One iteration of com_read_cb's while: sz = ntohl of the head, left the
\* bytes after it, both uint32_t; break when sz > left.  Else parse the
\* body; the first sync_time message goes to every client_fd, any other to
\* rand_client_fd(src_ip); then com_msg_buffer = substr(sz + 4).
ComLoopBody ==
  /\ looping
  /\ LET sz   == ComSize(comBuf)
         left == Len(comBuf) - HeaderLen
         rest == SubSeq(comBuf, sz + HeaderLen + 1, Len(comBuf))
     IN  IF ULT(left, sz)
         THEN /\ looping' = FALSE
              /\ UNCHANGED <<doneSync, src2w, out, comBuf>>
         ELSE /\ comBuf' = rest /\ looping' = (Len(rest) > HeaderLen)
              /\ \E m \in Parse(SubSeq(comBuf, HeaderLen + 1, HeaderLen + sz)) :
                   IF ~doneSync /\ m.sync
                   THEN /\ doneSync' = TRUE /\ out' = out \o SyncAll(m)
                        /\ UNCHANGED src2w
                   ELSE /\ \E r \in RandClientFd(m.src) :
                             out' = Append(out, Query(r[1], m)) /\ src2w' = r[2]
                        /\ UNCHANGED doneSync
  /\ UNCHANGED <<mode, rpos, exited, comState, sent, wire, retry>>

(* Variant of ComBeventCb that gives up only past FAIL_RETRY_LIMIT.        *)
ComBeventCbPastLimit ==
  /\ dist /\ ~exited /\ ~looping
  /\ CutMidFrame \/ comBuf = <<>>
  /\ wire' = <<>> /\ retry' = retry + 1
  /\ IF retry + 1 > FAIL_RETRY_LIMIT
     THEN exited' = TRUE /\ UNCHANGED comState
     ELSE \/ comState' = "connecting" /\ UNCHANGED exited
          \/ exited' = TRUE /\ UNCHANGED comState
  /\ UNCHANGED <<mode, rpos, doneSync, src2w, out, sent, comBuf, looping>>

\* com_bevent_cb_helper on an error, EOF or timeout of com_bev, connecting
\* or connected: bufferevent_free drops what is in flight; com_bevent_cb
\* counts the failure, log_err at FAIL_RETRY_LIMIT, else a new com_bev and
\* bufferevent_socket_connect (log_err when it returns < 0).  The counter
\* is never reset and com_msg_buffer is kept.  Unless CutMidFrame, the
\* connection breaks only while com_msg_buffer holds no partial frame.
ComBeventCb ==
  /\ dist /\ ~exited /\ ~looping
  /\ CutMidFrame \/ comBuf = <<>>
  /\ wire' = <<>> /\ retry' = retry + 1
  /\ IF retry + 1 >= FAIL_RETRY_LIMIT
     THEN exited' = TRUE /\ UNCHANGED comState
     ELSE \/ comState' = "connecting" /\ UNCHANGED exited
          \/ exited' = TRUE /\ UNCHANGED comState
  /\ UNCHANGED <<mode, rpos, doneSync, src2w, out, sent, comBuf, looping>>

-----------------------------------------------------------------------------
Commander == ComConnected \/ CommanderSend
EventLoop == ComReadCb \/ ComLoopBody \/ ComBeventCb
Next == ReadInputRecord \/ Commander \/ EventLoop

\* The reader thread runs until its input ends; libevent runs com_bev's
\* read callback while data is there; the commander (the controller's
\* postman, listening and routing) accepts and writes.  Connection failures
\* are the network's and get no fairness.
Spec == Init /\ [][Next]_vars
        /\ WF_vars(ReadInputRecord) /\ WF_vars(Commander)
        /\ WF_vars(ComReadCb) /\ WF_vars(ComLoopBody)

-----------------------------------------------------------------------------
IsQuery(e) == e.kind = "query"
Queries == SelectSeq(out, IsQuery)

\* records the manager has taken in: frames the commander wrote as queries,
\* or valid records the reader thread read
Routed ==
  IF dist THEN {Frames[i].n : i \in {j \in 1..sent-1 : ~Frames[j].sync}}
  ELSE {n \in 1..rpos-1 : IS!ValidEntry(fmt, File[n], NoRaw)}

TypeOK ==
  /\ dist \in BOOLEAN /\ fmt \in Formats \cup {"text"} /\ noMap \in BOOLEAN
  /\ rpos \in 1..Len(File) + 1 /\ doneSync \in BOOLEAN
  /\ src2w \in [Keys -> Workers \cup {NoW}]
  /\ out \in Seq(Entry) /\ exited \in BOOLEAN
  /\ comState \in {"connecting", "up"} /\ sent \in 1..Len(Frames) + 1
  /\ wire \in Seq(0..127) /\ comBuf \in Seq(0..127)
  /\ looping \in BOOLEAN /\ retry \in 0..FAIL_RETRY_LIMIT

\* Every record the manager writes to a worker is one it was given, once
\* and in order, whatever the reads and the reconnects cut (spec 8.7): in
\* dist mode a subsequence of the commander's frames, and in local mode
\* exactly the entries of the input file that its format (spec 6) calls
\* queries, each with its own source address.
RelayFaithful ==
  /\ \A i \in 1..Len(Queries) :
       /\ Queries[i].n \in Routed /\ Queries[i].src = File[Queries[i].n].src
       /\ i > 1 => Queries[i-1].n < Queries[i].n
  /\ ~dist => Len(Queries) = Cardinality(Routed)

\* The sync record reaches every worker ahead of any query and at most once
\* per worker (the sync-first order of read_input_file, done_sync_time in
\* com_read_cb).
SyncPrecedesQueries ==
  \A i, j \in DOMAIN out :
    /\ i < j /\ out[j].kind = "sync" => out[i].kind = "sync"
    /\ i # j /\ out[i].kind = "sync" /\ out[j].kind = "sync"
       => out[i].w # out[j].w

\* Every record handed to the manager is eventually written out or lost
\* with a broken connection, unless the manager exits: the reader thread
\* reaches the end of the trace, or the commander's stream is drained.
RelayCompletes ==
  <>(exited \/ IF dist THEN sent > Len(Frames) /\ wire = <<>> /\ comBuf = <<>>
                       ELSE rpos > Len(File))

====
