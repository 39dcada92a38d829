---------------------------- MODULE InputStream ----------------------------
(***************************************************************************)
(* The query mutator's reader, InputStream::get (dns-query-mutator-1.0/   *)
(* input_stream.cc).  Its get_from_text, process_line, get_from_raw,      *)
(* get_from_trace and process_packet take the same branches, in the same  *)
(* order, as InputSource's in the replay client, so each is the           *)
(* InputSource operator.  What differs is data the caller gives in env:   *)
(*  - process_line builds its query with build_dns_pkt_query(..., false), *)
(*    without the EDNS record the client's build_dns_query adds;          *)
(*  - get_from_raw reads one frame with no loop around it, which returns  *)
(*    what the client's while (true) ... return does;                     *)
(*  - process_line's ipv4 flag (inet_pton with AF_INET tried twice) is    *)
(*    not read by the mutator and is left out.                            *)
(***************************************************************************)
LOCAL IS == INSTANCE InputSource

\* InputStream::get_from_text and process_line
GetFromText(f, i, env) == IS!GetFromText(f, i, env)

\* InputStream::get_from_raw with read_bytes
GetFromRaw(f, i, env) == IS!GetFromRaw(f, i, env)

\* InputStream::get_from_trace and process_packet
GetFromTrace(f, i, env) == IS!GetFromTrace(f, i, env)

\* what each format calls a query (InputSource's reference definition)
ValidEntry(fmt, e, empty) == IS!ValidEntry(fmt, e, empty)

\* InputStream::get: dispatch on input_format
Get(fmt, f, i, env) ==
  CASE fmt = "text"  -> GetFromText(f, i, env)
    [] fmt = "raw"   -> GetFromRaw(f, i, env)
    [] fmt = "trace" -> GetFromTrace(f, i, env)
=============================================================================
