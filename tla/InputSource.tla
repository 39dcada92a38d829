---------------------------- MODULE InputSource ----------------------------
(***************************************************************************)
(* InputSource::get (dns-replay-client-1.0/input_source.cc): one call     *)
(* reads the next message record from the input file, in one of three     *)
(* formats.  It returns NULL at the end of the input, a message with an    *)
(* empty raw packet for an entry that is not a valid query (the caller     *)
(* skips it), or a message with its raw packet; some inputs end the        *)
(* process inside the call (errx, err, an uncaught std::stoi exception).   *)
(*                                                                         *)
(* The module has no variables: Get(fmt, f, i, env) is the set of results *)
(* of one call that starts at entry i of file f, as [next, kind, raw,     *)
(* src]; next is where the following call starts, raw a packet or         *)
(* env.empty.  The caller's env gives its source addresses (keys, noSrc), *)
(* its empty packet, the packets a garbage frame may parse to (pkts), and *)
(* build, the packet its build function makes for each kind of question.  *)
(* An entry is abstracted to what the parser's branches test:              *)
(*  - a text line: lead, its first character ("none": the line is empty);  *)
(*    nf, its number of whitespace-separated fields; dots and digits, the  *)
(*    timestamp field's number of '.' and whether each part std::stoi     *)
(*    parses; q, the question ("dash": "- - -", "bad": one that            *)
(*    ldns_pkt_query_new_frm_str rejects); src;                            *)
(*  - a raw frame: hdr, whether the 4 length bytes are there; sz, their    *)
(*    value; whole, whether sz bytes follow; body, "msg" for a serialized  *)
(*    DNSMsg or "garbage"; raw and src of the message;                     *)
(*  - a trace packet: err, a read error; l3, the network layer; port53;   *)
(*    l4 and l4ok, the transport and whether its header fits; dns, the     *)
(*    bytes after it; query, is_query of the payload; addrOK, whether the *)
(*    address strings are produced; pkt, the DNS payload; src.             *)
(***************************************************************************)
EXTENDS Integers, Sequences

BUF_SIZE == 4096
DnsHeaderLen == 12

\* a call's result; "msg" with an empty raw is the message the caller skips
Result(nx, k, r, s) == [next |-> nx, kind |-> k, raw |-> r, src |-> s]
Msg(nx, r, s) == Result(nx, "msg", r, s)
\* the end of the input, an exit inside the call, a message with no query
Stop(nx, k, env) == Result(nx, k, env.empty, env.noSrc)
NoQuery(nx, env) == Msg(nx, env.empty, env.noSrc)

-----------------------------------------------------------------------------
(* Text format *)

\* the condition of get_from_text's do-while (and process_line's first if)
Skipped(l) == l.lead \in {"none", "newline", "hash"}

\* get_from_text: getline until a line that is not skipped
RECURSIVE NextLine(_, _)
NextLine(f, i) ==
  IF i <= Len(f) /\ Skipped(f[i]) THEN NextLine(f, i + 1) ELSE i

\* process_line: six fields or an empty message; the raw packet is built
\* by the caller's build (empty when it fails); a timestamp with two dots
\* is errx, and a part stoi cannot parse throws out of the reading thread.
ProcessLine(nx, l, env) ==
  IF Skipped(l) \/ l.nf # 6 THEN NoQuery(nx, env)
  ELSE IF l.dots > 1 THEN Stop(nx, "exit", env)
  ELSE IF ~l.digits THEN Stop(nx, "abort", env)
  ELSE Msg(nx, env.build[l.q], l.src)

GetFromText(f, i, env) ==
  LET j == NextLine(f, i)
  IN  IF j > Len(f) THEN {Stop(j, "eof", env)}
      ELSE {ProcessLine(j + 1, f[j], env)}

-----------------------------------------------------------------------------
(* Raw format *)

\* msg->ParseFromArray(buf, sz), whose result is not checked: bytes that
\* are not a DNSMsg leave the fields as far as they were parsed.
ParseFromArray(nx, e, env) ==
  IF e.body = "msg" THEN {Msg(nx, e.raw, e.src)}
  ELSE {Msg(nx, r, s) : r \in env.pkts \cup {env.empty}, s \in env.keys}

\* get_from_raw: a short read of the length or of the body is the end of
\* the input; read_bytes copies up to sz bytes into buf[BUF_SIZE] with no
\* bound, so a larger sz overruns the stack, whole or short: the build may
\* crash there or go on as if nothing happened.
GetFromRaw(f, i, env) ==
  LET overrun == IF f[i].sz > BUF_SIZE THEN {Stop(i + 1, "abort", env)} ELSE {}
  IN  IF i > Len(f) \/ ~f[i].hdr THEN {Stop(Len(f) + 1, "eof", env)}
      ELSE overrun \cup (IF f[i].whole THEN ParseFromArray(i + 1, f[i], env)
                         ELSE {Stop(Len(f) + 1, "eof", env)})

-----------------------------------------------------------------------------
(* Trace format (libtrace) *)

\* Variant of ProcessPacket that keeps a payload of exactly a DNS header.
ProcessPacketOffByOne(nx, p, env) ==
  LET limit == IF p.l4 = "tcp" THEN 2 ELSE 0
      ok    == /\ p.l3 # "none" /\ p.port53 /\ p.l3 \in {"ip4", "ip6"}
               /\ p.l4 \in {"udp", "tcp"} /\ p.l4ok
               /\ p.dns >= limit + DnsHeaderLen
               /\ p.query /\ p.addrOK
  IN  IF ok THEN Msg(nx, p.pkt, p.src) ELSE NoQuery(nx, env)

\* process_packet: every early return leaves the message without raw; a
\* TCP payload must hold the 2-byte length and more than a DNS header.
ProcessPacket(nx, p, env) ==
  LET limit == IF p.l4 = "tcp" THEN 2 ELSE 0
      ok    == /\ p.l3 # "none" /\ p.port53 /\ p.l3 \in {"ip4", "ip6"}
               /\ p.l4 \in {"udp", "tcp"} /\ p.l4ok
               /\ p.dns > limit + DnsHeaderLen
               /\ p.query /\ p.addrOK
  IN  IF ok THEN Msg(nx, p.pkt, p.src) ELSE NoQuery(nx, env)

\* get_from_trace: trace_read_packet > 0 gives a packet; else an error is
\* err(1) and the end of the trace is NULL.
GetFromTrace(f, i, env) ==
  IF i > Len(f) THEN {Stop(i, "eof", env)}
  ELSE IF f[i].err THEN {Stop(i + 1, "exit", env)}
  ELSE {ProcessPacket(i + 1, f[i], env)}

-----------------------------------------------------------------------------
\* InputSource::get: dispatch on input_format
Get(fmt, f, i, env) ==
  CASE fmt = "text"  -> GetFromText(f, i, env)
    [] fmt = "raw"   -> GetFromRaw(f, i, env)
    [] fmt = "trace" -> GetFromTrace(f, i, env)

-----------------------------------------------------------------------------
(* Reference definitions: what each format calls a query.                  *)

\* spec 6, text input line format: not blank, not '#'-prefixed, six
\* fields, a timestamp seconds[.microseconds], and a question (or "- - -")
ValidLine(l) ==
  /\ ~Skipped(l) /\ l.nf = 6 /\ l.dots <= 1 /\ l.digits /\ l.q # "bad"

\* spec 6, raw format: a (4-byte length, serialized Message Record) frame
\* whose record carries a raw packet
ValidFrame(e, empty) == e.hdr /\ e.whole /\ e.body = "msg" /\ e.raw # empty

\* a DNS query over UDP or TCP (with its 2-byte length) on port 53
ValidPacket(p) ==
  /\ ~p.err /\ p.l3 \in {"ip4", "ip6"} /\ p.port53 /\ p.addrOK
  /\ p.l4 \in {"udp", "tcp"} /\ p.l4ok /\ p.query
  /\ p.dns >= DnsHeaderLen + (IF p.l4 = "tcp" THEN 2 ELSE 0) + 1

ValidEntry(fmt, e, empty) ==
  CASE fmt = "text" -> ValidLine(e)
    [] fmt = "raw"  -> ValidFrame(e, empty)
    [] fmt = "trace" -> ValidPacket(e)
=============================================================================
