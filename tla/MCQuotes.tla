-------------------------------- MODULE MCQuotes --------------------------------
(* Two requests for one stock, from before the opening to the evening, in  *)
(* moments of which two make the 50 seconds; in one mode or the other, or  *)
(* in both at one moment.                                                  *)
EXTENDS QuoteService

CONSTANTS q1, q2

VARIABLE wanted     \* the modes that are asked for

MCRequests == {q1, q2}
MCPhase == [t \in 0..4 |-> <<"pre", "regular", "after", "after", "after">>[t + 1]]

QuotesInit == QuoteInit /\ wanted \in {{"KRX"}, {"AFT"}, Modes}

QuotesNext ==
    /\ QuoteNext
    /\ \A r \in Requests : fetch'[r] # NoFetch => fetch'[r].mode \in wanted
    /\ wanted = Modes => time' = 0
    /\ UNCHANGED wanted

QuotesSpec == QuotesInit /\ [][QuotesNext]_<<quoteVars, wanted>>
=============================================================================
