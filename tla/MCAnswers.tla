------------------------------- MODULE MCAnswers -------------------------------
(* Three parts of the server that answer from what they keep and share     *)
(* nothing, each explored alone; `part' says which.  The journal index:    *)
(* two reads and two changes at a time, two commits, one restart.  The     *)
(* current prices: the worlds of MCQuotes.  The bots: those of MCBotTrades.*)
EXTENDS StatsCache, MCQuotes, MCBotTrades

CONSTANTS r1, r2, w1, w2

VARIABLE part

MCReaders == {r1, r2}
MCWriters == {w1, w2}

AnswersInit ==
    /\ StatsInit /\ QuotesInit /\ Init
    /\ part \in {"index", "prices", "bots"} /\ (part # "prices" => wanted = Modes)

AnswersNext ==
    /\ UNCHANGED part
    /\ \/ part = "index" /\ StatsNext /\ UNCHANGED <<quoteVars, wanted, vars>>
       \/ part = "prices" /\ QuotesNext /\ UNCHANGED <<statsVars, vars>>
       \/ part = "bots" /\ BotsNext /\ UNCHANGED <<statsVars, quoteVars, wanted>>

AnswersSpec == AnswersInit /\ [][AnswersNext]_<<part, statsVars, quoteVars, wanted, vars>>
=============================================================================
