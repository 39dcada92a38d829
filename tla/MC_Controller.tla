--------------------------- MODULE MC_Controller ---------------------------
(* Instances of the controller for TLC. *)
EXTENDS Controller

CONSTANTS s1, s2

MCSrcs == {s1, s2}

\* three records, the first source twice, so affinity is exercised
MCRecords == <<s1, s2, s1>>

\* no --filter
MCNoFilter == {<<>>}

\* --filter lists for two clients: none, valid ones (one giving client 0 no
\* draws, one with an entry past num_clients), and ones main.cc rejects
\* (too short, not summing to 100)
MCFilterInputs ==
  {<<>>, <<50, 50>>, <<0, 100>>, <<37, 63>>, <<99, 1>>, <<50, 50, 30>>,
   <<100>>, <<60, 50>>}
=============================================================================
