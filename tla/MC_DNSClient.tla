---------------------------- MODULE MC_DNSClient ----------------------------
(* Model-checking instance of DNSClient: two source addresses, one         *)
(* question text, a sync record anchored at trace time 1 and two queries   *)
(* with non-decreasing trace timestamps, as Manager::read_input_file       *)
(* writes them.                                                            *)
EXTENDS DNSClient

CONSTANTS s1, s2, qa, qb, noq

MCSrc == {s1, s2}

SyncRec(ts) == [n |-> 1, ts |-> ts, src |-> s1, q |-> noq, sync |-> TRUE,
                tcp |-> FALSE]
QueryRec(n, ts, s, q) ==
  [n |-> n, ts |-> ts, src |-> s, q |-> q, sync |-> FALSE, tcp |-> FALSE]

(* A trace of two queries after the sync record.                           *)
MCInputs ==
  { <<SyncRec(1), QueryRec(2, t2, a, x), QueryRec(3, t3, b, y)>> :
      t2 \in 1..3, t3 \in 1..3, a \in MCSrc, b \in MCSrc,
      x \in {qa, noq}, y \in {qa} }

(* Trace records reach the worker in timestamp order.                     *)
MCTraceInputs == {i \in MCInputs : i[2].ts <= i[3].ts}
(* A trace whose first record carries timestamp 0.000000, as a text trace *)
(* line "0 ..." produces.                                                  *)
MCZeroAnchorInputs ==
  { <<SyncRec(0), QueryRec(2, t2, s1, qa)>> : t2 \in 0..1 }
(* Three queries: two from one source, the second due when that source's  *)
(* socket reaches its read timeout, then one from a new source.           *)
MCReuseInputs ==
  { <<SyncRec(1), QueryRec(2, 1, s1, qa), QueryRec(3, t3, s1, qa),
      QueryRec(4, t4, s2, qa)>> : t3 \in 2..3, t4 \in 3..4 }
(* A query of the first source due at 1, then one of either source due   *)
(* at 1..3: a connection is reused, timed out and reopened, or added.      *)
MCTcpInputs ==
  { <<SyncRec(1), QueryRec(2, 1, s1, qa), QueryRec(3, t3, a, qa)>> :
      t3 \in 1..3, a \in MCSrc }
(* Two queries with different questions from one source, due together, so *)
(* both are written on its connection before the server answers.          *)
MCPipelineInputs ==
  { <<SyncRec(1), QueryRec(2, 1, s1, qa), QueryRec(3, t3, s1, qb)>> :
      t3 \in 1..2 }
(* conn_type "adaptive": each query of a UDP trace or of a TCP trace      *)
(* (marked by the tcp flag of its record) takes the transport it asks for, *)
(* so one run explores both transports.                                    *)
AsTcp(i) == [k \in DOMAIN i |-> [i[k] EXCEPT !.tcp = ~i[k].sync]]
MCAdaptiveInputs == MCTraceInputs \cup {AsTcp(i) : i \in MCTcpInputs}
=============================================================================
