----------------------------- MODULE Controller -----------------------------
(***************************************************************************)
(* The controller (dns-replay-controller-1.0): the reader process, which  *)
(* writes every input record as a 4-byte length and a body to a unix      *)
(* socket pair, and the postman process, a single-threaded libevent loop  *)
(* that de-frames that stream, sends a sync copy of the first record to   *)
(* every connected manager, and routes each record to a manager chosen    *)
(* per source IP (rand_client), by the filter table or uniformly.         *)
(*                                                                         *)
(* Records are abstracted to their position n in the input; the body of   *)
(* record n is BodyLen bytes of value n, so the de-framer's output shows  *)
(* which bytes it cut.  Managers connect, disconnect and reconnect at     *)
(* will (their com_bevent_cb reconnects); accept returns the lowest free  *)
(* fd, as the kernel does, so a reconnecting manager may get the fd of a  *)
(* dead one.  A fault ends the postman (errx or a failed assert).         *)
(***************************************************************************)
EXTENDS Integers, Sequences, SequencesExt, FiniteSets, FiniteSetsExt, Filter

CONSTANTS
  NumClients,    \* --num_clients
  Fds,           \* fds accept can return for manager connections
  Srcs,          \* source IPs of the input records
  Records,       \* the input: Records[n] is the source IP of record n
  BodyLen,       \* serialized size of a record
  MaxRead,       \* bytes one read callback takes from the socket at most
  FilterInputs,  \* parsed --filter weight lists; <<>>: no --filter
  MaxAccepts     \* bound on manager connections accepted

ASSUME /\ NumClients \in Nat \ {0}
       /\ Fds \subseteq Nat /\ Cardinality(Fds) >= NumClients
       /\ Records \in Seq(Srcs)
       /\ BodyLen \in 1..255 /\ Len(Records) < 256
       \* libevent reads up to 16384 bytes per callback: never less than a
       \* header's worth of what is available
       /\ MaxRead >= 4
       /\ <<>> \in FilterInputs

HeaderLen == 4
NoFd == -1

\* reader.cc read_input: htonl(size) then the body, two write() calls.
Header == <<0, 0, 0, BodyLen>>
Body(n) == [i \in 1..BodyLen |-> n]

\* ntohl of the first four bytes of the buffer
SizeField(b) == ((b[1] * 256 + b[2]) * 256 + b[3]) * 256 + b[4]

VARIABLES
  filter,     \* client_filter's weight list (<<>>: not set)
  table,      \* client_filter's client_index
  reader,     \* "blocked" in unblock(), "reading" in read_input(), "done"
  rpos,       \* next record read_input writes
  rphase,     \* "hdr": next write is the length; "body": the body
  pipe,       \* bytes written by the reader, not yet read by the postman
  ready,      \* POSTMAN-READY written by the postman, not yet read
  sktBuf,     \* Postman::skt_buffer
  looping,    \* the postman is inside skt_read_cb's do-while
  doneSync,   \* done_sync_time
  startRead,  \* start_read_input
  live,       \* DOMAIN client_fd2bev
  gen,        \* connection generation per fd (fd numbers are reused)
  clientFds,  \* client_fds, in accept order
  fd2src,     \* client_fd2src
  src2fd,     \* client_src2fd (NoFd: no entry)
  written,    \* every record written to a manager's bufferevent, and closes
  fault,      \* "none", or why the postman ended
  accepts     \* connections accepted so far

\* main.cc sets the filter only for a non-empty --filter; the postman then
\* holds num_clients as the filter's client count, else 0.
FilterSet == filter # <<>>

\* the indices rand_client can draw: filter table of a uniform 0..99, or a
\* uniform 0..num_clients-1 (mt19937 with a fixed seed: any draw)
Draws ==
  IF FilterSet
  THEN {GetClientIndex(table, d) : d \in 0..kFilterTotalWeight-1}
  ELSE 0..NumClients-1

flt  == <<filter, table>>
rdr  == <<reader, rpos, rphase>>
chan == <<pipe, ready>>
pm   == <<sktBuf, looping, doneSync, startRead, live, gen, clientFds,
          fd2src, src2fd, written, fault, accepts>>
vars == <<flt, rdr, chan, pm>>

Conn == [fd : Fds, g : Nat]
Entry == [kind : {"sync", "query", "close"}, fd : Fds, g : Nat, n : Nat]

\* main.cc exits on a filter ValidateWeight rejects, and the Postman
\* constructor builds client_filter's table from the one it accepts.
Init ==
  /\ filter \in {f \in FilterInputs : f = <<>> \/ ValidateWeight(f, NumClients)}
  /\ table = ClientIndexTable(filter, NumClients)
  /\ reader = "blocked" /\ rpos = 1 /\ rphase = "hdr"
  /\ pipe = <<>> /\ ready = FALSE
  /\ sktBuf = <<>> /\ looping = FALSE
  /\ doneSync = FALSE /\ startRead = FALSE
  /\ live = {} /\ gen = [f \in Fds |-> 0] /\ clientFds = <<>>
  /\ fd2src = [f \in Fds |-> {}] /\ src2fd = [s \in Srcs |-> NoFd]
  /\ written = <<>> /\ fault = "none" /\ accepts = 0

-----------------------------------------------------------------------------
(* The reader process.  Once the postman is gone its writes raise SIGPIPE. *)

\* Reader::unblock: its skt_read_cb reads the flag and leaves the loop.
ReaderUnblock ==
  /\ reader = "blocked" /\ ready
  /\ reader' = "reading" /\ ready' = FALSE
  /\ UNCHANGED <<flt, rpos, rphase, pipe, pm>>

\* read_input: write(skt, &sz, 4), then write(skt, body); a blocking
\* write to a unix stream socket lands whole.
ReaderWriteHeader ==
  /\ reader = "reading" /\ fault = "none"
  /\ rpos <= Len(Records) /\ rphase = "hdr"
  /\ pipe' = pipe \o Header /\ rphase' = "body"
  /\ UNCHANGED <<flt, reader, rpos, ready, pm>>

ReaderWriteBody ==
  /\ reader = "reading" /\ fault = "none"
  /\ rphase = "body"
  /\ pipe' = pipe \o Body(rpos) /\ rphase' = "hdr" /\ rpos' = rpos + 1
  /\ UNCHANGED <<flt, reader, ready, pm>>

ReaderDone ==
  /\ reader = "reading" /\ rpos > Len(Records)
  /\ reader' = "done"
  /\ UNCHANGED <<flt, rpos, rphase, chan, pm>>


-----------------------------------------------------------------------------
(* The postman's callbacks.  The loop is single-threaded: none of them    *)
(* runs while skt_read_cb is inside its do-while.                         *)

\* The process ends: errx, a failed assert or an uncaught exception.
Abort(why) ==
  /\ fault' = why
  /\ UNCHANGED <<sktBuf, looping, doneSync, startRead, live, gen, clientFds,
                 fd2src, src2fd, written, accepts>>

\* Postman::accept_conn_cb: record the connection; once num_clients are
\* connected for the first time, write POSTMAN-READY to the reader.  It
\* accepts any number of connections; accept() needs a free descriptor.
AcceptConnCb ==
  /\ fault = "none" /\ ~looping
  /\ live # Fds /\ accepts < MaxAccepts
  /\ LET fd   == Min(Fds \ live)
         full == Cardinality(live) + 1 = NumClients
     IN  /\ live' = live \cup {fd}
         /\ gen' = [gen EXCEPT ![fd] = @ + 1]
         /\ clientFds' = Append(clientFds, fd)
         /\ fd2src' = [fd2src EXCEPT ![fd] = {}]
         /\ startRead' = (startRead \/ full)
         /\ ready' = (ready \/ (~startRead /\ full))
  /\ accepts' = accepts + 1
  /\ UNCHANGED <<flt, rdr, pipe, sktBuf, looping, doneSync, src2fd, written, fault>>

(* Variant of ClientBeventCb that leaves the fd's sources in src2fd.       *)
ClientBeventCbKeepSrc ==
  /\ fault = "none" /\ ~looping
  /\ \E fd \in live :
       /\ live' = live \ {fd}
       /\ fd2src' = [fd2src EXCEPT ![fd] = {}]
       /\ written' = Append(written, [kind |-> "close", fd |-> fd,
                                      g |-> gen[fd], n |-> 0])
  /\ UNCHANGED <<flt, rdr, chan, sktBuf, looping, doneSync, startRead, gen,
                 clientFds, fault, accepts, src2fd>>

\* client_bevent_cb_helper + client_bevent_cb: a manager's connection hits
\* EOF, an error or a timeout; its bev is freed, its fd leaves fd2bev and
\* its sources leave src2fd.  client_fds keeps the fd.
ClientBeventCb ==
  /\ fault = "none" /\ ~looping
  /\ \E fd \in live :
       /\ live' = live \ {fd}
       /\ src2fd' = [s \in Srcs |-> IF s \in fd2src[fd] THEN NoFd ELSE src2fd[s]]
       /\ fd2src' = [fd2src EXCEPT ![fd] = {}]
       /\ written' = Append(written, [kind |-> "close", fd |-> fd,
                                      g |-> gen[fd], n |-> 0])
  /\ UNCHANGED <<flt, rdr, chan, sktBuf, looping, doneSync, startRead, gen,
                 clientFds, fault, accepts>>

\* Postman::skt_read_cb up to the loop: drain what one read returns and
\* enter the do-while.
SktReadCb ==
  /\ fault = "none" /\ ~looping /\ pipe # <<>>
  /\ LET k == IF Len(pipe) < MaxRead THEN Len(pipe) ELSE MaxRead
     IN  /\ sktBuf' = sktBuf \o SubSeq(pipe, 1, k)
         /\ pipe' = SubSeq(pipe, k + 1, Len(pipe))
  /\ looping' = TRUE
  /\ UNCHANGED <<flt, rdr, ready, doneSync, startRead, live, gen, clientFds,
                 fd2src, src2fd, written, fault, accepts>>

\* the sync copies of record n, one per entry of client_fd2bev (a std::map:
\* ascending fd)
SyncCopies(n) ==
  LET fs == SetToSortSeq(live, <)
  IN  [i \in 1..Len(fs) |-> [kind |-> "sync", fd |-> fs[i],
                             g |-> gen[fs[i]], n |-> n]]

(* Variants of Deliver: a loop that runs while any byte is buffered, and   *)
(* an if in place of the do-while.                                         *)
DeliverWhileNonEmpty(fd, n, sync, rest, s2f, f2s) ==
  IF fd \notin live THEN Abort("nullbev")
  ELSE /\ written' = written \o sync \o
                     <<[kind |-> "query", fd |-> fd, g |-> gen[fd], n |-> n]>>
       /\ doneSync' = TRUE
       /\ sktBuf' = rest
       /\ looping' = (Len(rest) > 0)
       /\ src2fd' = s2f /\ fd2src' = f2s
       /\ UNCHANGED <<startRead, live, gen, clientFds, fault, accepts>>

DeliverOnce(fd, n, sync, rest, s2f, f2s) ==
  IF fd \notin live THEN Abort("nullbev")
  ELSE /\ written' = written \o sync \o
                     <<[kind |-> "query", fd |-> fd, g |-> gen[fd], n |-> n]>>
       /\ doneSync' = TRUE
       /\ sktBuf' = rest
       /\ looping' = FALSE
       /\ src2fd' = s2f /\ fd2src' = f2s
       /\ UNCHANGED <<startRead, live, gen, clientFds, fault, accepts>>

\* the end of one loop iteration: the write to client_fd2bev[fd] (NULL for
\* an fd that left the map: assert(bev) fails), then the loop condition
Deliver(fd, n, sync, rest, s2f, f2s) ==
  IF fd \notin live THEN Abort("nullbev")
  ELSE /\ written' = written \o sync \o
                     <<[kind |-> "query", fd |-> fd, g |-> gen[fd], n |-> n]>>
       /\ doneSync' = TRUE
       /\ sktBuf' = rest
       /\ looping' = (Len(rest) > HeaderLen)
       /\ src2fd' = s2f /\ fd2src' = f2s
       /\ UNCHANGED <<startRead, live, gen, clientFds, fault, accepts>>

(* Variant of Route that draws a client even for a source already mapped. *)
RouteAlwaysDraw(n, rest, sync) ==
  LET src == Records[n]
  IN  \/ /\ live = {}
         /\ Abort("noclient")
      \/ /\ live # {}
         /\ \E idx \in Draws :
              IF idx < 0 \/ idx >= Len(clientFds) THEN Abort("range")
              ELSE LET fd == clientFds[idx + 1]
                   IN  Deliver(fd, n, sync, rest,
                               [src2fd EXCEPT ![src] = fd],
                               [fd2src EXCEPT ![fd] = @ \cup {src}])

\* Postman::rand_client for the source of record n, then the write.
Route(n, rest, sync) ==
  LET src == Records[n]
  IN  \/ /\ src2fd[src] # NoFd
         /\ Deliver(src2fd[src], n, sync, rest, src2fd, fd2src)
      \/ /\ src2fd[src] = NoFd /\ live = {}
         /\ Abort("noclient")
      \/ /\ src2fd[src] = NoFd /\ live # {}
         /\ \E idx \in Draws :
              IF idx < 0 \/ idx >= Len(clientFds) THEN Abort("range")
              ELSE LET fd == clientFds[idx + 1]
                   IN  Deliver(fd, n, sync, rest,
                               [src2fd EXCEPT ![src] = fd],
                               [fd2src EXCEPT ![fd] = @ \cup {src}])

(* Variant of SktLoopBody that takes the record from the last length byte. *)
SktLoopBodyBodyOffByOne ==
  /\ fault = "none" /\ looping
  /\ IF Len(sktBuf) < HeaderLen
     THEN Abort("underflow")
     ELSE LET sz   == SizeField(sktBuf)
              left == Len(sktBuf) - HeaderLen
              n    == sktBuf[HeaderLen]
              rest == SubSeq(sktBuf, sz + HeaderLen + 1, Len(sktBuf))
          IN  IF ULT(left, sz)
              THEN /\ looping' = FALSE
                   /\ UNCHANGED <<sktBuf, doneSync, startRead, live, gen,
                                  clientFds, fd2src, src2fd, written, fault,
                                  accepts>>
              ELSE Route(n, rest, IF doneSync THEN <<>> ELSE SyncCopies(n))
  /\ UNCHANGED <<flt, rdr, chan>>

\* One iteration of skt_read_cb's do-while.  With fewer than 4 bytes the
\* memcpy reads past the data (undefined): either the garbage size breaks
\* the loop or substr throws.
SktLoopBody ==
  /\ fault = "none" /\ looping
  /\ IF Len(sktBuf) < HeaderLen
     THEN \/ Abort("underflow")
          \/ /\ looping' = FALSE
             /\ UNCHANGED <<sktBuf, doneSync, startRead, live, gen, clientFds,
                            fd2src, src2fd, written, fault, accepts>>
     ELSE LET sz   == SizeField(sktBuf)
              left == Len(sktBuf) - HeaderLen
              n    == sktBuf[HeaderLen + 1]
              rest == SubSeq(sktBuf, sz + HeaderLen + 1, Len(sktBuf))
          IN  IF ULT(left, sz)
              THEN /\ looping' = FALSE
                   /\ UNCHANGED <<sktBuf, doneSync, startRead, live, gen,
                                  clientFds, fd2src, src2fd, written, fault,
                                  accepts>>
              ELSE Route(n, rest, IF doneSync THEN <<>> ELSE SyncCopies(n))
  /\ UNCHANGED <<flt, rdr, chan>>

-----------------------------------------------------------------------------
Reader  == ReaderUnblock \/ ReaderWriteHeader \/ ReaderWriteBody \/ ReaderDone
Postman == AcceptConnCb \/ ClientBeventCb \/ SktReadCb \/ SktLoopBody
Next    == Reader \/ Postman

\* The reader is a blocking loop of its own; the postman's event loop runs
\* the socket-pair read callback whenever the socket is readable.  Manager
\* connects and disconnects are the environment's and get no fairness.
Spec == Init /\ [][Next]_vars
        /\ WF_vars(Reader) /\ WF_vars(SktReadCb) /\ WF_vars(SktLoopBody)


-----------------------------------------------------------------------------
IsQuery(e) == e.kind = "query"
Queries == SelectSeq(written, IsQuery)

TypeOK ==
  /\ reader \in {"blocked", "reading", "done"}
  /\ rpos \in 1..Len(Records) + 1 /\ rphase \in {"hdr", "body"}
  /\ pipe \in Seq(0..255) /\ sktBuf \in Seq(0..255)
  /\ live \subseteq Fds /\ gen \in [Fds -> 0..MaxAccepts]
  /\ clientFds \in Seq(Fds) /\ Len(clientFds) = accepts
  /\ fd2src \in [Fds -> SUBSET Srcs] /\ src2fd \in [Srcs -> Fds \cup {NoFd}]
  /\ written \in Seq(Entry)
  /\ fault \in {"none", "underflow", "noclient", "range", "nullbev"}
  \* a filter main.cc accepted puts a client index in every slot
  /\ filter \in FilterInputs
  /\ FilterSet => table \in [0..kFilterTotalWeight-1 -> 0..NumClients-1]

\* skt_read_cb's loop never parses a length from fewer than 4 buffered
\* bytes: the reader writes each 4-byte length in one write and a read
\* takes at least that much of what is there, so a cut inside a header
\* leaves its rest at the head of the socket.
ShortFrameNeverParsed == looping => Len(sktBuf) >= HeaderLen

\* The postman forwards every record to a manager exactly once and in input
\* order, however the reads cut the stream (spec 8.7, framing idempotence).
ForwardedInOrder == \A i \in 1..Len(Queries) : Queries[i].n = i

\* Affinity (spec 8.2): two records of one source reach the same manager
\* connection unless that connection closed in between.
AffinityStable ==
  \A i, j \in DOMAIN written :
    /\ i < j /\ IsQuery(written[i]) /\ IsQuery(written[j])
    /\ Records[written[i].n] = Records[written[j].n]
    => \/ written[i].fd = written[j].fd /\ written[i].g = written[j].g
       \/ \E k \in i+1..j-1 :
            /\ written[k].kind = "close"
            /\ written[k].fd = written[i].fd /\ written[k].g = written[i].g

\* client_src2fd only names live connections, each listing the source in
\* client_fd2src, after any run of accepts, closes and routing.
RoutingConsistent ==
  fault = "none" =>
    \A s \in Srcs : src2fd[s] # NoFd =>
      /\ src2fd[s] \in live
      /\ s \in fd2src[src2fd[s]]

\* Filter::Init's table sends draw d to the client whose weight interval
\* holds d (spec 8.3), for the filter the postman routes by.
FilterTableMatchesWeights ==
  FilterSet =>
    \A d \in 0..kFilterTotalWeight-1 :
      table[d] = RefClientIndex(filter, NumClients, d)

\* The postman ends only when no manager is left (spec 7: a connection's
\* failure never ends the process; an empty destination pool does).
NoPostmanCrash == fault \in {"none", "noclient"}

\* Once the reader is unblocked, every record is forwarded unless the
\* postman ended.
ReplayCompletes ==
  reader # "blocked" ~> (fault # "none" \/ Len(Queries) = Len(Records))
=============================================================================
