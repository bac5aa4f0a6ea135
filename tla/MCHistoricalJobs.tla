--------------------------- MODULE MCHistoricalJobs ---------------------------
(* Two processes; two days, the second in the last week and not a session.  *)
EXTENDS HistoricalJobs

CONSTANTS p1, p2

MCWorkers == {p1, p2}
TwoDays == {1, 2}
MCSessions == {1}
MCRecent == {2}

(* A process that ends beside a split or not, or a late fetch.             *)
MCMishaps == {<<0, 0, 0>>, <<1, 0, 0>>, <<0, 0, 1>>, <<1, 0, 1>>, <<0, 1, 0>>}
=============================================================================
