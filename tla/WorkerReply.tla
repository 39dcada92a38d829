----------------------------- MODULE WorkerReply -----------------------------
(***************************************************************************)
(* The timing output of one replay worker's TCP connection: the            *)
(* OUTPUT_TIMING branch of DNSClient::server_read_cb, record_message_time  *)
(* and the clean-up of server_event_cb (dns-replay-client-1.0/client.cc).  *)
(*                                                                         *)
(* The server answers on the connection with a stream of replies, each a   *)
(* 2-byte big-endian length and that many bytes of DNS message.  Every     *)
(* read callback drains libevent's input buffer, appends it to             *)
(* server_msg_buffer[bev] and then, while the buffer holds more than two   *)
(* bytes, reads the length sz of its head, compares it with the            *)
(* uint16_t left = size - 2, and either breaks (the reply is not all        *)
(* there) or hands the reply to record_message_time, which writes one      *)
(* timing line to the manager, and cuts sz + 2 bytes off the buffer.       *)
(*                                                                         *)
(* Bytes are counted, not carried: the stream is given by Frames, the      *)
(* lengths of the replies in the order the server sends them, and the      *)
(* buffer by the stream offsets of its first byte (base) and one past its  *)
(* last (recv).  A timing line is abstracted to the stream offset and      *)
(* length of the message it describes, which is what fixes its key (type,  *)
(* id and question of those bytes).  The two bytes at an offset that is    *)
(* not the start of a reply read as BodyWord.                              *)
(***************************************************************************)
EXTENDS Integers, Sequences, SequencesExt

CONSTANTS
  Frames,     \* the lengths of the replies the server writes, in order
  Chunks,     \* the number of bytes one read callback may find
  BodyWord    \* a length read from two bytes inside a reply

ASSUME Frames \in Seq(0..65535) /\ Frames # <<>>
ASSUME Chunks \subseteq 1..65536 /\ Chunks # {}
ASSUME BodyWord \in 0..65535

VARIABLES
  recv,   \* stream offset one past the last byte read from the socket
  base,   \* stream offset of the first byte of server_msg_buffer[bev]
  timed,  \* the timing lines record_message_time wrote, in order
  open    \* the bufferevent is live (server_event_cb has not freed it)

vars == <<recv, base, timed, open>>

(* Stream offset of reply j's length field, and the stream's length.      *)
Start(j) == FoldLeft(LAMBDA a, f : a + f + 2, 0, SubSeq(Frames, 1, j - 1))
StreamLen == Start(Len(Frames) + 1)

(* memcpy(&sz, d, 2); sz = ntohs(sz): the length at the buffer's head.    *)
WordAt(off) ==
  IF \E j \in 1..Len(Frames) : Start(j) = off
  THEN Frames[CHOOSE j \in 1..Len(Frames) : Start(j) = off]
  ELSE BodyWord

(* record_message_time(d, sz, addr): one line for sz bytes at d.           *)
TimingLine(at, sz) == [at |-> at, len |-> sz]

-----------------------------------------------------------------------------
(* Variants of the de-framing loop.                                       *)

\* the buffer's size taken for left, without the 2 bytes of the length
RECURSIVE DeframeNoLenSkip(_, _, _)
DeframeNoLenSkip(off, size, lines) ==
  IF size > 2
  THEN LET sz == WordAt(off)
           left == size % 65536
       IN  IF sz > left THEN [off |-> off, lines |-> lines]
           ELSE DeframeNoLenSkip(off + sz + 2, size - (sz + 2),
                                 Append(lines, TimingLine(off + 2, sz)))
  ELSE [off |-> off, lines |-> lines]

\* the buffer cut after the message, leaving its 2-byte length in front
RECURSIVE DeframeTrimBody(_, _, _)
DeframeTrimBody(off, size, lines) ==
  IF size > 2
  THEN LET sz == WordAt(off)
           left == (size - 2) % 65536
       IN  IF sz > left THEN [off |-> off, lines |-> lines]
           ELSE DeframeTrimBody(off + sz, size - sz,
                                Append(lines, TimingLine(off + 2, sz)))
  ELSE [off |-> off, lines |-> lines]

\* "if (sz >= left) break": a reply that ends the buffer waits for more
RECURSIVE DeframeOffByOne(_, _, _)
DeframeOffByOne(off, size, lines) ==
  IF size > 2
  THEN LET sz == WordAt(off)
           left == (size - 2) % 65536
       IN  IF sz >= left THEN [off |-> off, lines |-> lines]
           ELSE DeframeOffByOne(off + sz + 2, size - (sz + 2),
                                Append(lines, TimingLine(off + 2, sz)))
  ELSE [off |-> off, lines |-> lines]

-----------------------------------------------------------------------------
(* The while loop of server_read_cb's OUTPUT_TIMING branch, from a buffer  *)
(* of size bytes at stream offset off: the offset the buffer starts at     *)
(* after it, and the timing lines written.  left is a uint16_t, so the     *)
(* size is taken mod 2^16.                                                 *)
RECURSIVE Deframe(_, _, _)
Deframe(off, size, lines) ==
  IF size > 2
  THEN LET sz == WordAt(off)
           left == (size - 2) % 65536
       IN  IF sz > left THEN [off |-> off, lines |-> lines]
           ELSE Deframe(off + sz + 2, size - (sz + 2),
                        Append(lines, TimingLine(off + 2, sz)))
  ELSE [off |-> off, lines |-> lines]

Init ==
  /\ recv = 0
  /\ base = 0
  /\ timed = <<>>
  /\ open = TRUE

(* server_read_cb: bufferevent_read drains the n bytes the input buffer    *)
(* holds, append them to server_msg_buffer[bev], and de-frame it.          *)
ServerReadCb ==
  /\ open
  /\ recv < StreamLen
  /\ \E c \in Chunks :
       LET n == IF c < StreamLen - recv THEN c ELSE StreamLen - recv
           r == Deframe(base, recv + n - base, <<>>)
       IN  /\ recv' = recv + n
           /\ base' = r.off
           /\ timed' = timed \o r.lines
  /\ open' = open

(* server_event_cb on BEV_EVENT_TIMEOUT, EOF or ERROR: erase the buffer    *)
(* with server_msg_buffer.erase(bev) and free the bufferevent; the bytes   *)
(* of a reply not yet complete are dropped with it.                         *)
ServerEventCb ==
  /\ open
  /\ open' = FALSE
  /\ base' = recv
  /\ UNCHANGED <<recv, timed>>

Next == ServerReadCb \/ ServerEventCb

Spec == Init /\ [][Next]_vars

-----------------------------------------------------------------------------
(* Reply j has been read whole.                                            *)
Complete(j) == Start(j) + Frames[j] + 2 <= recv

(* The timing lines of the first k replies, as spec 8.7 asks of the        *)
(* de-framer: each reply's payload, unchanged, in order.                   *)
Expected(k) == [i \in 1..k |-> TimingLine(Start(i) + 2, Frames[i])]

TypeOK ==
  /\ recv \in 0..StreamLen
  /\ base \in 0..recv
  /\ timed \in Seq([at : 0..StreamLen, len : 0..65535])
  /\ open \in BOOLEAN

(* server_read_cb writes a timing line only for a reply, at the reply's    *)
(* offset and with its length, in the order of the stream, and cuts the    *)
(* buffer at the end of the last one (spec 8.7: N frames in any chunking  *)
(* yield the N payloads, unchanged, in order).                             *)
TimedInOrder ==
  /\ Len(timed) <= Len(Frames)
  /\ timed = Expected(Len(timed))
  /\ open => base = Start(Len(timed) + 1)

(* The de-framer is greedy (spec 4.3): once a read callback returns, no    *)
(* reply whose last byte it has read is still held in server_msg_buffer    *)
(* without its timing line.                                                *)
NoCompleteReplyHeld ==
  open => \A j \in 1..Len(Frames) : Complete(j) => j <= Len(timed)
=============================================================================
