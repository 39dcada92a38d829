----------------------------- MODULE MC_Mutator -----------------------------
EXTENDS Mutator

CONSTANTS none

(* A query with RD; one with opcode 1, RD and CD and an EDNS OPT record; *)
(* one ldns cannot parse.                                                 *)
q1 == [b2 |-> 1, b3 |-> 0, edns |-> NoEdns, parses |-> TRUE]
q2 == [b2 |-> 9, b3 |-> 16, edns |-> [NoEdns EXCEPT !.do = 1, !.udp = 4096],
       parses |-> TRUE]
bad == [b2 |-> 0, b3 |-> 0, edns |-> NoEdns, parses |-> FALSE]

Frame(r) == [hdr |-> TRUE, sz |-> 40, whole |-> TRUE, body |-> "msg", raw |-> r,
             src |-> "src"]
Pkt(r) == [err |-> FALSE, l3 |-> "ip4", port53 |-> TRUE, l4 |-> "udp",
           l4ok |-> TRUE, dns |-> 40, query |-> TRUE, addrOK |-> TRUE, pkt |-> r,
           src |-> "src"]
\* a UDP payload of exactly a DNS header, which process_packet drops
Short(r) == [Pkt(r) EXCEPT !.dns = 12]
Line(lead, q, digits) ==
  [lead |-> lead, nf |-> 6, dots |-> 1, digits |-> digits, q |-> q, src |-> "src"]

(* A raw file of a query, an empty frame, a query ldns cannot parse and  *)
(* a query; a trace of a query, a packet too short for a DNS query, an   *)
(* unparsable query and a query; a text file of a query, a comment, a    *)
(* "- - -" line, a question ldns rejects and a timestamp stoi rejects.   *)
MCInputs ==
  { [fmt |-> "raw", file |-> <<Frame(q1), Frame(none), Frame(bad), Frame(q2)>>],
    [fmt |-> "trace", file |-> <<Pkt(q2), Short(q1), Pkt(bad), Pkt(q1)>>],
    [fmt |-> "text", file |-> <<Line("digit", "name", TRUE),
                                Line("hash", "name", TRUE),
                                Line("digit", "dash", TRUE),
                                Line("digit", "bad", TRUE),
                                Line("digit", "name", FALSE)>>] }

(* No options; header bits only, one of them drawn at 50%; header and    *)
(* EDNS together, with an opcode of 50 and a UDP size of 70000;            *)
(* --edns-extended-rcode.                                                  *)
MCConfigs ==
  { <<>>,
    ("dns-opcode" :> [prob |-> 50, val |-> 2]) @@ ("dns-rd" :> [prob |-> 50, val |-> 0])
      @@ ("dns-cd" :> [prob |-> 100, val |-> 1]),
    ("dns-opcode" :> [prob |-> 100, val |-> 50]) @@ ("edns-do" :> [prob |-> 50, val |-> 1])
      @@ ("edns-udp-size" :> [prob |-> 100, val |-> 70000]),
    "edns-extended-rcode" :> [prob |-> 100, val |-> 3] }

(* --dns-z 100:1 with --edns-do 100:1: the Z bit set on a query whose   *)
(* EDNS record is then changed through ldns.                            *)
MCConfigsZ ==
  { ("dns-z" :> [prob |-> 100, val |-> 1]) @@ ("edns-do" :> [prob |-> 100, val |-> 1]) }

MCMaxOut == 5
=============================================================================
