# TLA+ models of ldplayer

ldplayer replays a DNS trace against a server with the trace's original
timing. This directory holds TLA+ models of its replay core, the TLC
configurations that check them, and `PROJECT.json`. `PROJECT.json` lists the
components, runs, mutants, the map from each definition to source lines, the
findings and the hazards.

## The system

| Part | Source | State | Operations |
|---|---|---|---|
| Worker (DNSClient) | `src/dns-replay-client-1.0/client.cc` | `msg_buffer`, `start_trace_ts`/`start_real_ts`, armed timers, `src2udpfd`/`udpfd2src`/`udp_read_event`, `src2bev`/`bev2src`/`server_msg_buffer`, `query_table` | `manager_read_cb`, `send_query_helper`, `send_query` and its udp/tcp/tls variants, `server_udp_write_cb`, `server_udp_read_cb`, `server_udp_read_timeout_cb`, `server_read_cb`, `server_event_cb`, `sendto_manager` |
| Manager | `src/dns-replay-client-1.0/manager.cc` | `client_src2fd` (source affinity), `com_msg_buffer`, `done_sync_time`, retry count | `read_input_file` (reader thread), `com_read_cb`, `com_bevent_cb`, `rand_client_fd`, `read_client_cb` |
| Controller postman | `src/dns-replay-controller-1.0/postman.cc` | `client_fd2bev`, `client_fds`, `client_src2fd`, `skt_buffer`, `start_read_input` | `skt_read_cb`, `accept_conn_cb`, `client_bevent_cb`, `rand_client` |
| Controller reader | `src/dns-replay-controller-1.0/reader.cc` | position in the trace | `read_input` with `trace_limit` back-pressure; waits for `POSTMAN-READY` |
| Client filter | `src/dns-replay-controller-1.0/filter.cc` | `weight`, `client_index[100]` | `Init`, `ValidateWeight`, `GetClientIndex` |
| Proxy | `src/dns-replay-proxy-1.0/proxy.cc`, `safe_queue.cc` | `packet_queue` (a `std::queue` under one mutex and one condition variable) | `read_packet` (1 thread), `process_packet` and `process_packet_helper` (`num_threads` threads) |
| Query mutator | `src/dns-query-mutator-1.0/mutator.cc`, `dns_util.cc` | `opt`, `warehouse` (for `--loop`) | `Mutator::start`, `mutate_query`, `change_dns_pkt`, `change_dns_pkt_header`, `change_dns_pkt_edns`, `write_output` |
| Input source | `src/dns-replay-client-1.0/input_source.cc`, `src/dns-query-mutator-1.0/input_stream.cc` | position in the input file | `InputSource::get` and the mutator's `InputStream::get`, for the text, raw and trace formats |
| Worker timing output | `src/dns-replay-client-1.0/client.cc` | `server_msg_buffer[bev]` | `server_read_cb`'s `OUTPUT_TIMING` loop, `record_message_time`, `server_event_cb` |
| CLI | the three `main.cc` | | configuration. Only the mutator's format and option checks are modelled, in `Mutator`'s `Init` |

How the parts interact:

1. A trace is read by the manager's reader thread, or by the controller's
   reader and postman in distributed mode.
2. It is turned into protobuf `DNSMsg` records.
3. The records go out with a 4-byte length prefix over sockets. The first
   record is a *sync* record, which every worker receives.
4. Every later record goes to one worker, chosen by a sticky map from source
   address to worker.
5. Each worker is a single-threaded libevent loop. It anchors its trace clock
   on the sync record.
6. For each query it either arms a timer so the query goes out at
   `start_real + (ts - start_trace)`, or sends it at once when it is already
   late.
7. It keeps one UDP socket per source address (or a single unified socket),
   or one TCP/TLS connection per source address.
8. It matches responses to queries by the key `"<id> <question>"` in
   `query_table` and writes each latency back to the manager.

Behaviours that are hard to test:

- libevent's cached time;
- timer-heap order against I/O callbacks in one loop iteration;
- idle timeouts that race pending write events;
- descriptor reuse by `socket()`;
- random id collisions;
- exits through `log_err` on errors local to one source;
- byte-stream framing under arbitrary chunking;
- disconnects during start-up.

## Modules

### DNSClient (worker)

`DNSClient.tla` models one worker process. `MC_DNSClient.tla` instantiates it
for TLC.

State (variables):

- `clock` is `gettimeofday`, in ticks.
- `loopTime` is libevent's cached time for the running callback.
- `alive` is false after `log_err`/`err`.
- `pending` holds records the manager wrote that are not read yet.
- `batch` is `msg_buffer` while `manager_read_cb` runs.
- `startTrace`/`startReal` are the anchor.
- `timers` are the armed `evtimer`s.
- The UDP socket tables are `openFds`, `src2udpfd`, `udpfd2src` and
  `udpReadDeadline` (`udp_read_event`).
- `udpWrites` are the pending one-shot write events.
- `queryTable` is `query_table`.
- `net`/`inbound` are the datagrams in flight.
- `sendLog`, `wireLog`, `latencies` and `input` are history variables for the
  properties.

Actions (one per callback):

- `ManagerReadCb` reads the records that have arrived.
- `ProcessSync` and `ProcessQuery` are one iteration each of the
  `manager_read_cb` loop. They are separate steps so that wall-clock time can
  pass inside a long callback, and no other callback can start until `batch`
  is empty.
- `ArmTimer` is the timer path with its re-check.
- `TimerFire` is `send_query_helper`. It fires the earliest expired timer,
  which is libevent's min-heap order.
- `SendQueryUdp` is `send_query_udp`, with the id re-draw loop, the socket
  choice and `socket()` failure.
- `UdpWriteCb`, `UdpReadCb` with `SendtoManager`, and `UdpReadTimeoutCb` with
  `ForgetSocket` are the socket callbacks. A refusal pending on a
  connected socket fails the next `send` as well as the next `recv`, so
  `UdpWriteCb` has the `err(1)` exit of a failed `send`.
- `send_query_udp` and `send_query_tcp` return at once for a record with
  an empty raw packet. The model's records always have a packet, because
  the manager forwards only those (manager.cc:365, reader.cc:83).

The environment:

- `ServerReply`, `ServerDrop` and `ServerRefuse` (ICMP unreachable, which
  makes the next `recv` or `send` on the socket fail).
- `Tick`, the clock.

Abstractions:

- A timeval is an integer number of ticks. `evutil_timersub` normalises
  `tv_usec`, so `tv.tv_sec < 0` is "difference < 0", and `evutil_timerisset`
  is "≠ 0".
- A query_table key is a record. `RawKey` is the text built inside the
  do-while (it still carries `ldns_rr2str`'s tab and newline). `FmtStr`
  normalises it. This keeps the one fact that matters: the two are never
  equal.
- `socket()` returns the lowest free descriptor, which POSIX guarantees.
- A write event on a closed descriptor never fires, unless the number has been
  reused. Then it fires on the new socket, because libevent's `evmap` still
  holds it.
- A UDP socket is always writable, so a pending write runs before the clock
  moves on, except while a callback is still running.

The TCP/TLS half (`conn_type` tcp, tls, or adaptive with the record's `tcp`
flag, chosen by `UseTcp` as in `send_query`):

- `src2bev`, `bev2src` are the maps of the same name. `conn[b]` is one
  bufferevent: its state (`free`, `connecting`, `open`, or `closed` once the
  server refused or closed it), its unsent output frames, the replies in its
  input buffer, and its read-timeout deadline. `bevGen` counts the
  connections a bufferevent has held, so a `query_table` entry can name the
  connection it was sent on (`via`).
- `SendQueryTcp` is `send_query_tcp`: the id loop, then either append the
  frame to the source's bufferevent, or create one, enter it in both maps,
  connect, and arm the read timeout from libevent's cached time when
  `time_out > 0`. A bufferevent stands for its socket: with none free,
  `bufferevent_socket_connect` fails and the worker exits.
- `TcpReadCb` is `server_read_cb` with `OUTPUT_LATENCY`. It drains the input
  buffer (`k` replies, or a reply's length and body delivered apart), drops
  two bytes and parses the rest as one message. So only a read that starts
  with a whole reply matches, and only that first reply. The read restarts
  the timeout.
- `TcpEventCb` with `DropConnection` is `server_event_cb` on timeout, EOF or
  error. It erases both map entries and frees the bufferevent with its unsent
  output. `query_table` is left alone.
- The environment: `ServerAccept` (connected; the callback only logs),
  `ServerTcpReply` (answers the first frame, in order, whole or split when
  `SplitReplies`), `ServerClose` (refusal or close, when `PeerErrors`). TCP
  loses nothing, so there is no drop action. TLS is modelled as TCP: its
  handshake is part of `connecting`, its failure an error event.

### Runs of DNSClient

All runs use:

- two source addresses and one question (`qa`, plus `noq` for an unparsable
  packet);
- a sync record at trace time 1 and two queries with timestamps in 1..3.

Bounds:

- `MaxCallbackTicks = 1`: a callback may last one tick.
- `MaxArrivalDelay = 2`: the manager's data may lag until tick 2.
- `UdpReadTimeout = 2` ticks.

A tick stands for any interval, so one query late by a tick, and one idle
timeout, are enough to reach every branch of `manager_read_cb` and of the
socket callbacks.

| Run | Expect | Shows |
|---|---|---|
| `client_adaptive` | pass | `conn_type` adaptive over UDP traces and TCP traces (the `tcp` flag of their records, `MCAdaptiveInputs`): per-source sockets with refused datagrams (`IcmpErrors`) and read timeouts, and TCP with `time_out` = 2 ticks, refusals, closes and split replies on two bufferevents. `QueryConservation`: every query is unread, on one timer, or dispatched once. `UdpMapsConsistent`: the socket maps are mutually inverse and name only open sockets with a read event. `TcpMapsConsistent`: `src2bev`/`bev2src` are inverse and name exactly the live bufferevents, so there is at most one live connection per source (spec 3). `AllQueriesDispatched`: eventually nothing is left unread or armed. |
| `client_collide` | violation | `LatencyOfOwnQuery` (spec 8.4). The id re-draw loop never detects a collision, because it looks up the unformatted key. |
| `client_tcp_coalesce` | violation | `ReadRepliesMatched` (spec 4.3). Two pipelined queries of one source with different questions; both replies arrive in one read and the second is dropped, its entry left pending. |

The TCP traces use their own inputs: `MCTcpInputs` (a query of `s1` due at 1,
then one of either source due at 1..3, so a connection is reused, timed out
and reopened, or a second one added) and `MCPipelineInputs` (two queries of
`s1` with questions `qa`, `qb`). The model keeps every step that exits the
worker (`alive` becomes FALSE), but no run checks that the worker survives;
those exits are final states of `client_adaptive`, which has
`CHECK_DEADLOCK FALSE`. The exits are:

- a trace anchored at 0.000000, whose `start_trace_ts` of {0,0} reads as unset
  (client.cc:376). An earlier run found this one; it was retired to give the
  proxy a run, since a unit test reaches it in one call;
- one refused datagram (`IcmpErrors`, client.cc:715);
- no descriptor, or no free bufferevent, for a new source (client.cc:790,
  client.cc:592).

`--fast` (`NonWait`, client.cc:410) and the unified UDP socket (`UnifyUdp`,
client.cc:780) stay in the model, but no run sets them now: the run that did
(`--fast` with the unified socket, `AllQueriesDispatched`) was retired so the
Manager could have runs of its own.

Fairness: weak fairness on every callback and on `Tick`.

- libevent runs every active event, and time passes, so a callback that stays
  enabled does run.
- The server and the network get no fairness: a query may never be answered.

`CHECK_DEADLOCK FALSE` is set because a worker that has replayed its input
waits in `event_base_dispatch` forever. That final state has no successor.

### WorkerReply (timing output of a TCP connection)

`WorkerReply.tla` models what `server_read_cb` does with
`OUTPUT_TIMING` set (client.cc:1006-1032), the `record_message_time` it calls
(client.cc:947-977) and the clean-up of `server_event_cb`
(client.cc:1054-1083).

The server's stream is given by `Frames`, the lengths of its replies in
order. Each reply is a 2-byte length followed by that many bytes. Bytes are
counted, not carried:

- `recv` is the stream offset one past the last byte read from the socket;
- `base` is the offset of the first byte of `server_msg_buffer[bev]`, so the
  buffer's `size()` is `recv - base`;
- `timed` holds the timing lines written, each abstracted to the offset and
  length of the bytes it describes. These bytes fix the line's key (type, id
  and question);
- `open` is FALSE once `server_event_cb` has freed the bufferevent.

`WordAt(off)` is the `ntohs` of the two bytes at `off`. At the start of a
reply this is its length; inside a reply it is `BodyWord`. `Deframe` is
the `while (size() > 2)` loop, RECURSIVE. It computes `left` as
`(size - 2) % 2^16`, as the `uint16_t` does, breaks when `sz > left`, and
otherwise writes a line and cuts `sz + 2` bytes. `ServerReadCb` is one
callback: it drains `c` bytes (`c` from `Chunks`, at most what is left of
the stream), appends them and runs the loop. `ServerEventCb` is a timeout,
EOF or error. It erases the buffer, with any partial reply in it.

### Runs of WorkerReply

| Run | Expect | Shows |
|---|---|---|
| `worker_reply` | pass | `TimedInOrder` (spec 8.7): the lines written are the first k replies, at their offsets, with their lengths, in order, and the buffer starts right after the last. `NoCompleteReplyHeld` (spec 4.3): when a callback returns, every reply whose last byte was read has its line. |

The replies are 12, 61440 and 4094 bytes long. Reads are one byte (a length
split between two reads, or a reply completed byte by byte) or 4096 bytes
(two replies and the head of a third in one read). 61440 is 65536 - 4096: the
longest reply for which a buffer holding all of it but one byte, plus one
full read, is still under 65538 bytes. At 65538 bytes `left` wraps. With a
61441-byte reply, TLC reports `NoCompleteReplyHeld` violated: the reply is
complete, `left` reads 0, and its line waits for 65536 more bytes, or for
ever. This is the hazard at client.cc:1016. Spec 8.7 allows any chunk size,
so every reply over 65536 minus the read size is exposed. The 4096-byte read
is a bound of the model: the size libevent actually reads per callback is
not set anywhere in the code.

`CHECK_DEADLOCK FALSE` is set because a connection that has been read to
the end, or closed, has no more steps. No fairness is assumed, since the
properties are invariants.

### WorkerLog (worker output into the manager's log)

`WorkerLog.tla` models what the workers write to their manager and what the
manager does with it:

- `record_message_time` writes a timing line of `tmp.size()` bytes
  (client.cc:966-970);
- `sendto_manager` copies a latency line into a zeroed buffer of
  `tmp.size() + 1` bytes and writes all of them, so the line is followed by
  a NUL (client.cc:928-937);
- `Manager::read_client_cb` drains what the worker's bufferevent holds into
  a NUL-terminated copy and, with an output file, writes it with
  `out_fs << data` (manager.cc:206-236);
- `buf_ev_cb` frees a worker's bufferevent on EOF, error or timeout.

`sent[w]` is worker `w`'s byte stream and `pos[w]` how much of it the manager
has read. A line's text is `LineLen` bytes, each standing for the worker and
line number. `UpToNul` is what `operator<<` on a `char *` writes.
`ReadClientCb` takes 1..`ReadMax` bytes, which stands for however much
libevent has gathered by the time the callback runs.

| Run | Expect | Shows |
|---|---|---|
| `worker_log_nul` | violation | `ReadOutputLogged` (spec 4.4, and the comment "log to local file"). With `--output latency` (main.cc sets `output_option` to exactly one of latency and timing), a worker writes two latency lines and the manager reads four bytes at once. The log gets the first line; the second line's first byte, read in the same callback, is lost. |

Two workers with up to two lines of two bytes each (`Output = "latency"`), and reads of up to six
bytes, are enough for a read that holds a latency line and what follows it.
The same model has two workers appending to one log, with reads that end
inside a line. No run states that lines stay whole; that hazard is listed.

### Filter

`Filter.tla` holds pure operators for `filter.cc`. A filter input is the list
of integers that `str_split` and `stoi` make of `--filter`.

- `ParsedWeights` and `TotalWeight`: what `GetWeightByString` stores. Missing
  entries stay -1, and entries past `num_clients` are dropped from the total.
- `ValidateWeight`: as in the code.
- `FillFrom` (RECURSIVE) and `ClientIndexTable`: `Init`'s fill loop. Its
  `unsigned int` bounds are kept as signed representatives and compared by
  `ULT`, because TLC's integers are 32-bit signed.
- `GetClientIndex`.
- `RefClientIndex`: the reference of spec 8.3, by prefix sums of the weights.

### Controller (reader and postman)

`Controller.tla` models the two processes of `dns-replay-controller` and the
managers' connections to the postman.

Reader (`reader.cc`, `main.cc`):

- `ReaderUnblock`: `unblock` waits for `POSTMAN-READY`.
- `ReaderWriteHeader`, `ReaderWriteBody`: `read_input` writes the 4-byte
  length and the body with two blocking `write` calls. Each lands whole in
  the socket pair (`pipe`).
- The `trace_limit` sleep is a delay only, and is left to the interleaving.

Postman (`postman.cc`):

- `AcceptConnCb`: takes the lowest free fd, as the kernel does, and
  accepts any number of connections while a descriptor is free. It appends
  the fd to `clientFds` and writes `POSTMAN-READY` the first time
  `num_clients` managers are connected.
- `ClientBeventCb`: a manager's connection closes. It erases the fd from
  `client_fd2bev` and its sources from `client_src2fd`, but not from
  `client_fds`.
- `SktReadCb`: reads at most `MaxRead` bytes of the pipe into `skt_buffer`
  and enters the do-while.
- `SktLoopBody`: one iteration of the do-while.
  - It parses the length; the `uint32_t` `left` is compared with `ULT`.
  - It breaks when the frame is incomplete.
  - Otherwise it sends the sync copies (`SyncCopies`, once, in `std::map`
    order), then `Route` (`rand_client`) and `Deliver` (the write, then the
    loop condition).
- A record is its position `n`, and its body is `BodyLen` bytes of value `n`,
  so `written` shows exactly which bytes the deframer took.
- `fault` records why the process ended: `errx`, a failed `assert(bev)`, or
  the exception of `substr`.
- The draw of `mt19937` (fixed seed) is any index `Draws` allows, since the
  seed alone does not fix which record meets which draw.

Fairness: weak fairness on the reader and on the postman's read callback and
loop. The reader is a blocking loop of its own, and libevent runs the read
callback while the socket is readable. Manager connects and disconnects are
the environment's and get no fairness.

### Runs of Controller

All runs use:

- two managers (`NumClients = 2`) and three fds (5, 6, 7), so a manager
  can reconnect before the postman has handled the close of its old
  connection;
- three records with sources `s1, s2, s1`;
- `BodyLen = 1` and `MaxRead = 8`, so one read can hold two frames and can
  cut a frame inside its length;
- `MaxAccepts = 3`: one reconnect.

`MaxRead` stands for libevent's 16384-byte read. Reads never take less than
4 of the bytes available (`ASSUME MaxRead >= 4`); that is what keeps
`ShortFrameNeverParsed` true.

| Run | Expect | Shows |
|---|---|---|
| `controller_pass` | pass | Uniform routing and every filter of `MCFilterInputs`; the properties below. |
| `controller_crash` | violation | `NoPostmanCrash` (spec 7), uniform routing. A manager closes; its fd stays in `client_fds`. A new source draws its index, `client_fd2bev[fd]` is NULL, and `assert(bev)` ends the postman while the other manager is still connected. |

Properties of `controller_pass`:

- `ShortFrameNeverParsed`: the loop never parses a length from fewer than 4
  bytes (postman.cc:192).
- `ForwardedInOrder`: every record goes out once and in input order (spec
  8.7).
- `AffinityStable`: a source stays on its connection until that connection
  closes (spec 8.2).
- `RoutingConsistent`: `client_src2fd` names only live connections, which
  list the source in turn.
- `FilterTableMatchesWeights`: the table the postman routes by matches the
  reference. `Init` picks `--filter` from `MCFilterInputs`, and main.cc's
  `exit(1)` admits only the lists `ValidateWeight` accepts. The accepted lists
  are none, 50/50, 0/100, 37/63, 99/1, and 50/50 with a third entry past
  `num_clients`. None has a negative weight (see Not modelled).
- `ReplayCompletes`: once the reader is released, every record is forwarded
  unless the postman ended.

`CHECK_DEADLOCK FALSE` is set because a postman that has forwarded its input,
or has ended, has no further step.

The stale `client_fds` entry has a second effect. When the manager
reconnects it gets the same fd number back, and the old index then routes
records to a connection that never received the sync record.

### Manager

`Manager.tla` models `manager.cc`, the parent of the workers, which writes
each record to one worker's socket pair as a 4-byte length and a body.
`MC_Manager.tla` instantiates it. `dist` and `disable_mapping` are
variables fixed at `Init` from `DistModes` and `MapModes`, so one run covers
both modes and both routing policies.

- A record is the position of its entry in the input file. `Files` holds
  one file per `input_format`, as `InputSource` entries. `fmt` is fixed at
  `Init` from `Formats` in local mode, and is `"text"` in dist mode, where
  the input file is unused. The commander's records are lines of
  `Files.text`. A commander frame carries a 2-byte body `<<sync, n>>`. `Parse` is `ParseFromArray`: a body the
  commander wrote gives its record; any other bytes give a message with
  arbitrary `sync_time` and `src_ip` fields and no record (`n = 0`).
- `ReadInputRecord` is one iteration of `read_input_file` (non-distributed
  mode). It calls `InputSource::get` (`IS!Get`). On NULL the loop ends. On
  `errx`, `err`, or an exception thrown inside the call, the manager
  ends. It skips a message with an empty raw packet. Before the first valid one it writes a
  sync copy to every worker, then routes the record with `RandClientFd`.
  The thread shares no state with the event loop, so one iteration is one
  step. The `trace_limit` and `query_pace` sleeps only delay it.
- `RandClientFd` is `rand_client_fd`: a uniform worker under
  `disable_mapping`, else the source's entry in `client_src2fd`, or a drawn
  worker entered for good.
- The commander is the environment: `ComConnected` accepts the connection,
  and `CommanderSend` writes the next frame of `Frames`.
- `ComReadCb` takes any prefix of the bytes in flight, since TCP cuts the
  stream anywhere, and enters the `while (size > 4)` loop. `ComLoopBody` is
  one iteration of that loop: it breaks on `sz > left` (uint32), sends the
  first `sync_time` message to every worker, routes any other message, and
  drops `sz + 4` bytes.
- `ComBeventCb` is `com_bevent_cb_helper` on an error, EOF or timeout,
  followed by `com_bevent_cb`. It frees the bufferevent, which loses the
  bytes in flight. It bumps `com_fail_retry`, calls `log_err` at
  `FAIL_RETRY_LIMIT` (5), and otherwise reconnects. `log_err` is also
  called if `bufferevent_socket_connect` fails. `com_msg_buffer` is kept
  across the reconnect. The constant `CutMidFrame` says whether the break
  may fall while `com_msg_buffer` holds part of a frame.

Fairness: weak fairness on the reader thread, the read callback and its
loop, and on the commander. The controller's postman listens and routes
for the whole replay. Connection failures get no fairness. There are at
most five of them, because the fifth ends the manager.

### InputSource

`InputSource.tla` has no variables. `Get(fmt, f, i, env)` is the set of
results of one `InputSource::get` call that starts at entry `i` of file `f`.
The caller's `env` gives the values the parser only passes on: source
addresses, the empty packet, and the packet its build function makes for
each kind of question. Each result is a record `[next, kind, raw, src]`: `kind` is `"msg"`,
`"eof"` (NULL), `"exit"` (errx or err) or `"abort"` (an uncaught
exception, or a stack overrun that crashes). An entry keeps only what the
parser's branches test:

- `GetFromText` and `ProcessLine` model `get_from_text` and `process_line`.
  `NextLine` is the recursive skip of empty and `#` lines. A line without
  six fields gives an empty message. A question `build_dns_query` rejects
  gives an empty raw packet. A timestamp with two dots is `errx`, and a part
  `stoi` cannot parse throws.
- `GetFromRaw` models `get_from_raw`. A short read of the length or of the
  body is the end of the input. A length over `BUF_SIZE` overruns `buf`
  whether or not the body is whole, and the build may crash there or go on
  (to the parse, or to the end of the input for a short body). `ParseFromArray`'s result is not
  checked, so a garbage body gives any fields.
- `GetFromTrace` and `ProcessPacket` model `get_from_trace` and
  `process_packet`. A read error is `err(1)`. Each early return leaves the
  message without raw.

`ValidLine`, `ValidFrame` and `ValidPacket` are the reference: what each
format of spec 6 calls a query. `RelayFaithful` compares what the manager
writes against them.

### Runs of Manager

Bounds: two workers and two sources. One input file per format:

- The text file has eight lines. Three are queries (lines 1, 4 and 7; line
  4 is `- - -`). The others are a comment line with six fields, an empty
  line, a five-field line, and a line whose question does not build. The
  file ends with a two-dot timestamp, which ends the manager.
- The raw file has two records, an empty frame and a truncated last frame.
- The trace has a UDP query and a TCP segment of 14 DNS bytes. That is one
  byte too few, so it is dropped. Then come an IPv6 TCP query, a packet off
  port 53, and a read error.

The commander sends the sync copy of line 1, then lines 1, 4 and 7
(24 bytes). With reads of any length, every cut of every frame is reached,
and so is a reconnect after any frame.

| Run | Expect | Shows |
|---|---|---|
| `manager_pass` | pass | Breaks only between frames. `RelayFaithful`: the records written are ones the manager was given, once and in order, each with its entry's source. In local mode they are exactly the entries the format calls queries, in each of the three formats. `SyncPrecedesQueries`: no sync follows a query, and each worker gets at most one. `RelayCompletes`: the input is eventually drained unless the manager exits. |
| `manager_glue` | violation | `RelayFaithful` (spec 7, 8.7). The connection breaks after one byte of the sync frame. On the new stream the stale byte makes `sz = 0`, and an empty message is written to a worker. The next length is read from the bytes left behind, `2, 0, 1, 0` (over 33 million), which never fits, so every later record stays in `com_msg_buffer`. |

`CHECK_DEADLOCK FALSE` is set because a manager whose input has ended waits
in its event loop forever.

### Proxy and PacketQueue

The proxy sits on a TUN interface between the replay and the server. It is
the only multi-threaded part of ldplayer. `start` (proxy.cc:289) runs one
`read_packet` thread and `num_threads` `process_packet` threads, and they
share `packet_queue`.

`PacketQueue.tla` is the abstract specification: a FIFO from which each
packet is taken once, in order, by an idle thread, and sent rewritten.
`Forward` is the promised rewrite: the packet now comes from its original
destination, goes to the target, and its TCP/UDP checksum covers the new
pseudo-header. An unrewritable packet may `Stop` the proxy.

`Proxy.tla` is the detailed model:

- `ReadTun`: `read()` of the tunnel. When no packet is left, `read` blocks
  and the reader has no step.
- `Push` and `Pop(c)`: the critical sections of `safe_queue::push` and
  `pop`, from lock to unlock. Each is one step, because nothing else touches
  `q` while the mutex is held. A full or empty queue puts the thread in
  `waitSet` (`cv.wait`).
- `NotifyOne(t)`: the `notify_one` after the unlock, a step of its own. It
  removes any one waiter, a reader or a consumer, since one cv serves both.
  `Resume` sends the woken thread back to the head of its `while` loop.
- `SpuriousWake`: `cv.wait` returning unbidden. It has no fairness.
- `Process(c)`: `process_packet_helper` followed by `delete[]`. IPv6
  reaches `errx`, which sets `exited` and ends every thread. IPv4 is passed
  through `Rewrite`, which follows the code's order: `src = dst`,
  `dst = target`, then the checksum over the new addresses.

The refinement mapping `PQ` (in Proxy.tla) maps:

- `queue` to `q`;
- `held` to `item`;
- `sent` to `sentLog`;
- `stopped` to `exited`;
- `next` to `rpos`, minus one while the reader holds a packet it has read
  but not pushed. So `ReadTun` is an abstract stutter and `Push` is the
  abstract `Read`.

Fairness: every thread step is weakly fair, since the OS schedules runnable
threads. A thread in `waitSet` has no enabled step, so only a notify or a
spurious wake can move it, and spurious wakes are not owed.

### Runs of Proxy

Bounds: three consumer threads and three packets. Two inputs are used: UDP,
TCP, ICMP; and UDP, IPv6, TCP. Three threads let a notify wake a consumer
that then finds the queue emptied by another, and let one waiter be woken
while others sleep. `MaxLen` is 4, above the packet count, because
`safe_queue(-1)` stores 2^32-1 in an unsigned `max_len` (proxy.cc:81) and
the reader never blocks.

| Run | Expect | Shows |
|---|---|---|
| `proxy_pass` | pass | `PacketQueueSafe` (`PQ!SafeSpec`): every packet read is taken once, in queue order, and sent with the rewrite `Forward` promises; IPv6 stops the proxy. `PacketQueueLive` (`PQ!Fairness`): despite a shared cv and notify after unlock, no packet stays queued while a consumer sleeps, and every popped packet is sent. |

`CHECK_DEADLOCK FALSE` is set because a proxy whose tunnel has no more
packets blocks in `read` forever, and one that hit `errx` has ended.

What the run leaves open:

- A bounded `safe_queue` would share its one cv between a blocked producer
  and blocked consumers, and `notify_one` could wake a thread of the wrong
  kind. The code never builds one, so no run sets `MaxLen` below the packet
  count, and `Push`'s wait branch does not fire.
- Sends of different threads are not ordered, and the abstract FIFO allows
  that (proxy.cc:281).

### Mutator

The mutator is an offline tool. It rewrites the header bits and EDNS fields
of the queries in a trace, at random, by command-line options, to produce
traces for robustness tests. `Mutator.tla` models `Mutator::start` over an
abstraction of each query's raw bytes. The abstraction keeps:

- the two flag bytes of the header, `b2` and `b3`;
- the EDNS fields;
- whether ldns can parse the packet.

Its parts:

- `ProcessRecord` is one pass of `start`'s loop. It calls
  `InputStream::get` (`INS!Get`) on the input file. `InputStream.tla`
  shows that the mutator's reader takes the same branches as the
  client's `InputSource`, and reuses its operators. The difference is in
  `Env`: `build_dns_pkt_query` makes a query with RD and CD and no EDNS,
  and `- - -` gives a header-only packet. An `errx` or exception inside
  `get` ends the mutator. A record with empty `raw` is dropped. Otherwise `mutate_query` draws `do_change` for each option
  (`Draws`: every outcome `rand() % 100 + 1 <= prob` can have). `Applied`
  is what it passes on: a one-bit part is always applied, as `val` or its
  complement, and a multi-bit part only when drawn. Then `ChangePkt`
  (`change_dns_pkt`) runs. The record is kept (`--loop`) or written.
- `ChangePkt` applies the parts in `ord`, any order of the
  `unordered_map`. `ChangeHeader` applies header parts with the ldns macros
  (`&`, `|` from Bitwise, on bytes). If any EDNS part is applied, the
  packet is parsed: a failure is `errx`, and `ChangeEdns` applies the EDNS
  parts with their `uint16_t`/`uint8_t` casts. Writing the packet back with
  `ldns_pkt2wire` keeps every header field `ldns_pkt` stores, and Z is not
  one of them (`ThroughLdns`).
- `Replay` is the `--loop` loop over `warehouse`. `NextIndex` is its index
  update, where `i = -1` on an `unsigned` wraps to 0.
- `Written`: text output skips a message `dns_msg_str` cannot parse.
- `Init` starts where `main` hands over to the constructor. `TextOutput`
  is `main`'s format check: it returns for raw to raw and for text or
  trace to text, so the output is text exactly when the input is raw.
  `Configs` are option maps keyed by the long option names. `MainKey`,
  `OptCode` and `DNS_OPT_MAP` are the `getopt` switch's
  `m[DNS_OPT_MAP[...]] = tmp`. `CtorRejects` is the constructor's
  `valid_dns_option` check, and `PartOpts` is the `opt` it builds.
  `--edns-extended-rcode` looks up `"edns-extended-code"`, which is not
  in the map. `operator[]` inserts 0 for it, and the constructor then
  stops with `invalid dns option [0]`. So this option always ends the
  mutator before it reads anything. In the model, the option's config
  gives an initial state that is already `exited`. No run states this
  as a property, because the project's runs are all in use.

### Runs of Mutator

Bounds:

- inputs, one file per format:
  - a raw file of a query with RD, an empty frame, a query ldns cannot
    parse, and a query with opcode 1, CD and an OPT record;
  - a trace of the second query, a UDP packet whose payload is just a DNS
    header (12 bytes, which `process_packet` drops), a query ldns cannot
    parse, and the first query;
  - a text file of a query line, a comment, a `- - -` line, a question ldns
    rejects, and a timestamp `stoi` rejects;
- options (`MCConfigs`): none; header options with 50% and 100% draws;
  header and EDNS options together, with an opcode of 50 and a UDP size of
  70000; `--edns-extended-rcode` alone. `mutator_z` uses `MCConfigsZ`
  instead: `--dns-z 100:1 --edns-do 100:1`;
- `--loop` on and off; the output format follows from the input's;
- five writes in `--loop` mode.

| Run | Expect | Shows |
|---|---|---|
| `mutator_pass` | pass | `InputRelayed`: until the mutator exits, the records it has written (or kept for `--loop`) are the packets of the entries read so far that the format's reference definition (`ValidEntry`, spec 6) calls queries, in input order. So short packets, comments, `- - -` lines and empty frames are skipped, and nothing is written twice. `ReplayInOrder`: `--loop` writes the kept records round-robin, in input order, as the same mutated copies. |
| `mutator_z` | violation | `HeaderMutationFaithful`, which states the usage text "set Z bit to X in N% of the queries". Each written header is compared, field by field, with a reference layout (RFC 1035 fields by division, not masks). It should equal the original with exactly the applied fields replaced, for an opcode that fits its 4 bits. `LDNS_Z_SET` sets Z on the wire bytes. Then the EDNS option makes `change_dns_pkt` re-encode the packet through `ldns_wire2pkt` and `ldns_pkt2wire` (`ThroughLdns`), and `ldns_pkt` has no Z flag, so Z comes out 0. This rests on ldns's packet structure, which is outside `src/`. |

`CHECK_DEADLOCK FALSE` is set because the mutator ends when its input does.

The opcode of 50 is in `mutator_pass`'s options, and `HeaderMutationFaithful`
excludes it. That case is the hazard at dns_util.cc:153: `LDNS_OPCODE_SET`
does not mask its value, so 50 << 3 truncated to a byte sets QR, and the
"query" becomes a response. It is listed in `PROJECT.json`; no run flags it,
because the runs are capped at twelve.

The mutator has no type invariant. Its byte ranges hold by the `% 256` and
`% 65536` that stand for C's `uint8_t` and `uint16_t` stores, and no change
to the code could break them. The proxy has none for the same reason: its
wait-set bookkeeping is the model's own.

## Plan

Modules still to come, in order of importance:

1. **Postman and manager composed.** The sync copy lost with a broken
   connection (manager.cc:320) and the retry counter that is never reset
   (manager.cc:330) need the two sides together.
2. **Response matcher refinement.** An abstract matcher (a bag of
   outstanding queries, each answered at most once) is implemented by
   DNSClient's `queryTable` under a refinement mapping. This is expected to
   hold only when ids do not collide.

The project keeps at most twelve runs, and all twelve are in use. These changes made room for later modules:

- the UDP and TCP worker runs were merged into `client_adaptive`;
- `client_anchor0` was retired for the proxy;
- `client_early` was retired for the reply de-framer (`worker_reply`). Its early send is bounded by one callback's running time, which spec 8.1's slack may absorb; `ArmTimer` still models it and the hazard is kept;
- `client_fdreuse` was retired for `worker_log_nul`. Its race needs an idle timeout and a send in one loop iteration, while the lost log lines happen whenever two lines are read together. `UdpReadTimeoutCb` still models the race and the hazard is kept;
- `client_order` (`TraceOrderPerSource`, spec 5: a late query sent at once overtakes an earlier query of its source still on its timer) was retired for `mutator_z`. `DNSClient` still has the step, and the hazard at client.cc:410 is kept;
- the manager's `AffinityStable` was dropped. `client_src2fd` is written only by `rand_client_fd` and never cleared, so the property only restated that function's find-or-insert;
- `client_tcp_stranded` was retired for the mutator. A server that never answers within `time_out` reaches that defect in a unit test. Its hazard is kept in `PROJECT.json`.

New modules will get runs by retiring the weakest violations.

Not modelled:

- The manager's `signal_cb`, the clean-up after its loop exits, and
  `write()` failures to a worker: teardown, with no routing state. The
  clean-up frees a bufferevent that `buf_ev_cb` already freed
  (manager.cc:493); the hazard is listed.

- The postman's `client_read_cb` (copies the managers' output to a file) and
  `skt_event_cb` (input socket errors): I/O with no routing state.
- Negative filter weights: `ValidateWeight` accepts `[-10, 110]`, and the
  unsigned fill then gives client 0 every draw. Spec 8.3 defines no table for
  such a list.

- In the proxy:
  - the constructor's argument checks, `tun_alloc` and raw socket creation;
  - `read()` and `sendto()` failures, each an `err(1)` exit;
  - the byte layout of a packet. The helper takes the transport header at
    `pkt[20]`, which assumes IHL = 5 (proxy.cc:220). Packets are records
    here, with no header length.
- In the mutator:
  - `InputStream`'s constructor, which opens the file or the trace;
  - the text and raw encoders' byte formats;
  - the parsing of an option's `N:X` value (`is_number`, `stoi`). The
    model's options carry the numbers. `main.cc`'s format checks and
    option keys are modelled in `Init` (see the Mutator section above).
- In the input source:
  - libtrace, ldns and `is_query`, which are abstracted to flags of an entry;
  - the timestamp values, of which only whether they parse is kept. The
    manager's `trace_limit` and `query_pace` only delay the reader, and
    the worker's clock takes its timestamps from its own inputs;
  - TCP reassembly. A trace packet is one segment (input_source.cc:338).
- The manager's errx on a bad timestamp line (input_source.cc:209) breaks
  spec 7's rule that one query's error stays local. `manager_pass` reaches
  it, but the twelve-run budget has no slot for a violation run.
- `addr_util.cc` and the CLI. These are I/O and configuration.
