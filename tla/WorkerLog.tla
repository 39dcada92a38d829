------------------------------ MODULE WorkerLog ------------------------------
(***************************************************************************)
(* The output path from the replay workers to the manager's log: what a    *)
(* worker writes to manager_bev (DNSClient::record_message_time and         *)
(* DNSClient::sendto_manager, dns-replay-client-1.0/client.cc) and what    *)
(* Manager::read_client_cb and buf_ev_cb (manager.cc) do with it.           *)
(*                                                                         *)
(* Each worker's connection to the manager is a byte stream, sent[w];      *)
(* the manager has read its first pos[w] bytes.  A line is LineLen bytes   *)
(* of text (its last one the '\n'), abstracted to the worker and the       *)
(* line's number; sendto_manager writes tmp.size() + 1 bytes, so a latency *)
(* line is followed by a NUL.  read_client_cb drains what one read finds   *)
(* into a NUL-terminated copy and writes it with out_fs << data, which      *)
(* stops at the first NUL.                                                 *)
(***************************************************************************)
EXTENDS Integers, Sequences, SequencesExt

CONSTANTS
  Workers,    \* the workers of one manager (client_vec)
  Output,     \* output_option of every worker: "timing" or "latency"
  MaxLines,   \* bound on the lines one worker writes
  LineLen,    \* bytes of one line's text
  ReadMax,    \* bound on the bytes one read_client_cb finds
  LogFile,    \* output_file is not empty (local mode with -o)
  NUL         \* the terminating '\0' byte

ASSUME Output \in {"timing", "latency"}
ASSUME MaxLines \in Nat /\ LineLen \in Nat \ {0} /\ ReadMax \in Nat \ {0}
ASSUME LogFile \in BOOLEAN

VARIABLES
  sent,   \* per worker, the bytes written to its manager_bev, in order
  lines,  \* per worker, the number of lines it has written
  pos,    \* per worker, the bytes read_client_cb has taken
  live,   \* per worker, its bufferevent in the manager is not freed
  file    \* the bytes written to out_fs (or cout)

vars == <<sent, lines, pos, live, file>>

(* The text of line j of worker w.                                         *)
Text(w, j) == [i \in 1..LineLen |-> [w |-> w, j |-> j]]

(* What a worker writes for one line of each kind: record_message_time     *)
(* writes tmp.size() bytes; sendto_manager copies tmp into a buffer of     *)
(* tmp.size() + 1 zeroed bytes and writes all of them.                     *)
Written(w, j, k) ==
  IF k = "latency" THEN Text(w, j) \o <<NUL>> ELSE Text(w, j)

(* out_fs << data: the bytes before the first NUL.                         *)
UpToNul(data) ==
  LET k == SelectInSeq(data, LAMBDA b : b = NUL)
  IN  IF k = 0 THEN data ELSE SubSeq(data, 1, k - 1)

Init ==
  /\ sent = [w \in Workers |-> <<>>]
  /\ lines = [w \in Workers |-> 0]
  /\ pos = [w \in Workers |-> 0]
  /\ live = [w \in Workers |-> TRUE]
  /\ file = <<>>

(* A worker writes one line to manager_bev: record_message_time for a      *)
(* query or reply with OUTPUT_TIMING, sendto_manager for a matched         *)
(* response with OUTPUT_LATENCY.  main.cc sets exactly one of the two.     *)
WorkerWrite(w) ==
  /\ lines[w] < MaxLines
  /\ sent' = [sent EXCEPT ![w] = @ \o Written(w, lines[w] + 1, Output)]
  /\ lines' = [lines EXCEPT ![w] = @ + 1]
  /\ UNCHANGED <<pos, live, file>>

(* read_client_cb: take the len > 0 bytes the input buffer holds and, with *)
(* an output file, write them up to the first NUL.                          *)
ReadClientCb(w) ==
  /\ live[w]
  /\ pos[w] < Len(sent[w])
  /\ \E n \in 1..ReadMax :
       /\ pos[w] + n <= Len(sent[w])
       /\ pos' = [pos EXCEPT ![w] = @ + n]
       /\ file' = IF LogFile
                  THEN file \o UpToNul(SubSeq(sent[w], pos[w] + 1, pos[w] + n))
                  ELSE file
  /\ UNCHANGED <<sent, lines, live>>

(* buf_ev_cb on EOF, ERROR or TIMEOUT: bufferevent_free; bytes not yet    *)
(* read are dropped.                                                        *)
BufEvCb(w) ==
  /\ live[w]
  /\ live' = [live EXCEPT ![w] = FALSE]
  /\ UNCHANGED <<sent, lines, pos, file>>

Next == \E w \in Workers : WorkerWrite(w) \/ ReadClientCb(w) \/ BufEvCb(w)

Spec == Init /\ [][Next]_vars

-----------------------------------------------------------------------------
(* The text bytes among bs.                                                *)
TextOf(bs) == SelectSeq(bs, LAMBDA b : b # NUL)

(* Spec 4.4 (on a response, emit a latency record) and read_client_cb's  *)
(* comment "log to local file": every line a worker wrote and the manager *)
(* has read is in the log, whole and in the worker's order.               *)
ReadOutputLogged ==
  LogFile =>
    \A w \in Workers :
      SelectSeq(file, LAMBDA b : b.w = w) = TextOf(SubSeq(sent[w], 1, pos[w]))
=============================================================================
