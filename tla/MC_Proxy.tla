------------------------------ MODULE MC_Proxy ------------------------------
EXTENDS Proxy

CONSTANTS r, c1, c2, c3, a1, a2, tgt

MCConsumers == {c1, c2, c3}

Pkt(n, ver, pr) == [id |-> n, v |-> ver, proto |-> pr, src |-> a1, dst |-> a2,
                    ck |-> <<a1, a2>>]

(* A UDP query, a TCP segment and an ICMP echo; and a run where an IPv6  *)
(* packet arrives between two IPv4 ones.                                 *)
MCInputs == { <<Pkt(1, 4, "udp"), Pkt(2, 4, "tcp"), Pkt(3, 4, "icmp")>>,
              <<Pkt(1, 4, "udp"), Pkt(2, 6, "udp"), Pkt(3, 4, "tcp")>> }

(* safe_queue(-1) stores 2^32-1 in an unsigned max_len: never reached.   *)
MCMaxLen == 4
=============================================================================
