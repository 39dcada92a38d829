------------------------------- MODULE Filter -------------------------------
(***************************************************************************)
(* The controller's client filter (dns-replay-controller-1.0/filter.cc):  *)
(* a weight per client, read from --filter, and the 100-entry table that  *)
(* maps a uniform draw 0..99 to a client index.  Pure operators: the     *)
(* filter is built once, before the postman's event loop starts.          *)
(*                                                                         *)
(* A filter input is the sequence of integers that str_split and stoi     *)
(* produce from the --filter string; the text itself is not modelled.     *)
(***************************************************************************)
EXTENDS Integers, Sequences

kFilterTotalWeight == 100

\* unsigned int a < b for 32-bit values held as signed representatives:
\* a negative x stands for x + 2^32 (TLC's integers are 32-bit signed)
ULT(a, b) == IF (a < 0) = (b < 0) THEN a < b ELSE b < 0

\* Init + GetWeightByString: weight.resize(num_clients, -1), then
\* weight[i] = stoi(w[i]) for i < w.size() && i < weight.size(); entries
\* past num_clients are neither stored nor added to total_weight.
ParsedWeights(input, num) ==
  [i \in 0..num-1 |-> IF i < Len(input) THEN input[i+1] ELSE -1]

TotalWeight(input, num) ==
  LET S[k \in 0..Len(input)] ==
        IF k = 0 THEN 0
        ELSE S[k-1] + (IF k <= num THEN input[k] ELSE 0)
  IN  S[Len(input)]

\* Filter::ValidateWeight: no client left at -1 and the weights sum to 100.
ValidateWeight(input, num) ==
  /\ \A i \in 0..num-1 : ParsedWeights(input, num)[i] # -1
  /\ TotalWeight(input, num) = kFilterTotalWeight

(* Variant of FillFrom that sets end = weight[i], not start + weight[i].   *)
RECURSIVE FillFromNoAccumulate(_, _, _, _)
FillFromNoAccumulate(w, i, start, tbl) ==
  IF i \notin DOMAIN w THEN tbl
  ELSE LET end == w[i]
       IN  FillFromNoAccumulate(w, i + 1, end,
                    [j \in DOMAIN tbl |->
                       IF ~ULT(j, start) /\ ULT(j, end) THEN i ELSE tbl[j]])

\* The fill loop of Filter::Init: end = start + weight[i] in unsigned int,
\* then client_index[j] = i for start <= j < min(100, end).
RECURSIVE FillFrom(_, _, _, _)
FillFrom(w, i, start, tbl) ==
  IF i \notin DOMAIN w THEN tbl
  ELSE LET end == start + w[i]
       IN  FillFrom(w, i + 1, end,
                    [j \in DOMAIN tbl |->
                       IF ~ULT(j, start) /\ ULT(j, end) THEN i ELSE tbl[j]])

(* Variant of ClientIndexTable whose fill loop starts at client 1.          *)
ClientIndexTableFrom1(input, num) ==
  FillFrom(ParsedWeights(input, num), 1, 0,
           [j \in 0..kFilterTotalWeight-1 |-> -1])

ClientIndexTable(input, num) ==
  FillFrom(ParsedWeights(input, num), 0, 0,
           [j \in 0..kFilterTotalWeight-1 |-> -1])

\* Filter::GetClientIndex: -1 outside 0..99, else the table entry.
GetClientIndex(tbl, d) ==
  IF d < 0 \/ d >= kFilterTotalWeight THEN -1 ELSE tbl[d]

(***************************************************************************)
(* Reference: the weight table of spec 8.3.  Draw d goes to the client i *)
(* whose prefix of weights w[0] + .. + w[i-1] <= d < w[0] + .. + w[i].   *)
(***************************************************************************)
PrefixWeight(input, num, i) == TotalWeight(SubSeq(input, 1, i), num)

RefClientIndex(input, num, d) ==
  CHOOSE i \in 0..num-1 :
    PrefixWeight(input, num, i) <= d /\ d < PrefixWeight(input, num, i + 1)

=============================================================================
