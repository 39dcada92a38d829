----------------------------- MODULE MC_Manager -----------------------------
(* Model-checking instance of Manager: two workers, two sources, an input *)
(* file of each format, and the commander's stream for this manager: the  *)
(* sync copy of line 1, then lines 1, 4 and 7 of the text file.           *)
(*                                                                         *)
(* The text file holds three queries (one of them "- - -") among a       *)
(* comment with six fields, an empty line, a line of five fields and one *)
(* whose question does not build, and ends with a timestamp of two dots.  *)
(* The raw file holds two records, an empty frame and a truncated frame;  *)
(* the trace a UDP query, a TCP segment one byte too short, an IPv6 TCP   *)
(* query, a packet off port 53, and a read error.                         *)
EXTENDS Manager

CONSTANTS s1, s2

MCSrcs == {s1, s2}

Line(lead, nf, dots, q, s) ==
  [lead |-> lead, nf |-> nf, dots |-> dots, digits |-> TRUE, q |-> q, src |-> s]
RawFrame(sz, whole, raw, s) ==
  [hdr |-> TRUE, sz |-> sz, whole |-> whole, body |-> "msg", raw |-> raw, src |-> s]
Pkt(l3, l4, dns, port53, s) ==
  [err |-> FALSE, l3 |-> l3, port53 |-> port53, l4 |-> l4, l4ok |-> TRUE,
   dns |-> dns, query |-> TRUE, addrOK |-> TRUE, pkt |-> "query", src |-> s]

MCText ==
  << Line("digit", 6, 1, "name", s1), Line("hash", 6, 0, "name", s2),
     Line("none", 0, 0, "name", s2), Line("digit", 6, 0, "dash", s2),
     Line("digit", 5, 0, "name", s1), Line("space", 6, 0, "bad", s2),
     Line("digit", 6, 1, "name", s1), Line("digit", 6, 2, "name", s2) >>
MCRaw ==
  << RawFrame(40, TRUE, "query", s2), RawFrame(0, TRUE, NoRaw, NoSrc),
     RawFrame(40, TRUE, "query", s1), RawFrame(40, FALSE, "query", s2) >>
MCTrace ==
  << Pkt("ip4", "udp", 40, TRUE, s1), Pkt("ip4", "tcp", 14, TRUE, s2),
     Pkt("ip6", "tcp", 15, TRUE, s2), Pkt("ip4", "udp", 40, FALSE, s1),
     [Pkt("ip4", "udp", 40, TRUE, s1) EXCEPT !.err = TRUE] >>
MCFiles == [text |-> MCText, raw |-> MCRaw, trace |-> MCTrace]
MCFormats == {"text", "raw", "trace"}
MCFrames == <<[n |-> 1, sync |-> TRUE], [n |-> 1, sync |-> FALSE],
              [n |-> 4, sync |-> FALSE], [n |-> 7, sync |-> FALSE]>>
=============================================================================
