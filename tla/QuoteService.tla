----------------------------- MODULE QuoteService -----------------------------
(***************************************************************************)
(* The current price of a domestic stock: app/services/quotes.py, the      *)
(* provider chain of prices.py, and the job that keeps closing prices      *)
(* (jobs.py).                                                              *)
(*                                                                         *)
(* Requests for the same stock and market mode share one fetch, which a    *)
(* pool thread works off.  Its result is kept (quote_cache) and serves     *)
(* polls for 50 seconds; a manual refresh wants a fetch of its own.  A     *)
(* price the provider does not give is replaced by an older one, marked    *)
(* stale.  Three slots (price_cache) keep prices apart that must not be    *)
(* mixed: the close of the regular session, the latest trade of KRX, which *)
(* trades on after the close, and the trades of NXT before the opening.    *)
(*                                                                         *)
(* Time is counted in moments, of which PRICE_MEM_TTL make the 50 seconds; *)
(* a schedule says in which phase of a trading day each of them lies.      *)
(***************************************************************************)
EXTENDS Naturals, FiniteSets

CONSTANTS
    Requests,       \* request threads
    Capacity,       \* fetches that may be under way (300, of all stocks)
    Unchecked,      \* no time
    NoOne,          \* no request
    NoQuote,        \* no row of quote_cache
    PRICE_MEM_TTL,  \* moments for which a kept quote serves polls
    LastMoment,     \* bound on the moments
    Phase           \* the phase of the trading day at each moment

Moments == 0..LastMoment
Slots == {"KRX_CLOSE", "KRX", "NXT"}

(* status, when the price was looked at, and the slot it belongs to.       *)
QuoteAnswer == [status : {"none", "ok", "stale", "unavailable"},
           checked : Nat \cup {Unchecked}, slot : Slots]

ASSUME QuoteAssumption ==
    /\ NoOne \notin Requests /\ Unchecked \notin Nat /\ NoQuote \notin QuoteAnswer
    /\ {Capacity, LastMoment} \subseteq Nat /\ PRICE_MEM_TTL \in Nat \ {0}
    /\ Phase \in [Moments -> {"pre", "regular", "after", "night"}]

VARIABLES
    time,           \* the moment
    slots,          \* price_cache: the slots that have a price
    closeSince,     \* history: when KRX_CLOSE got its first price
    quotes,         \* quote_cache: the answer kept for each mode
    lock,           \* who holds _lock between submit and add_done_callback
    inflight,       \* _inflight: the fetch of each mode
    fetch,          \* the future each request last submitted
    ask             \* what each request waits for

quoteVars == <<time, slots, closeSince, quotes, lock, inflight, fetch, ask>>

Modes == {"KRX", "AFT"}

OutOfHours(t) == Phase[t] # "regular"
PreMarket(t) == Phase[t] = "pre"

NoAnswer == [status |-> "none", checked |-> Unchecked, slot |-> "KRX"]
NoFetch == [at |-> "none"]
Idle == [at |-> "idle"]

-----------------------------------------------------------------------------
(* A price the provider gave, and the slot it belongs to; a price from a   *)
(* slot (FallbackPrice, CachedPrice); or none.                             *)
Live(slot) == [from |-> "provider", slot |-> slot]
Remembered(slot) == [from |-> "slot", slot |-> slot]
Missing == [from |-> "nowhere", slot |-> "KRX"]

(* The first of two slots that has a price.                                *)
FirstOf(first, second) ==
    IF first \in slots THEN Remembered(first)
    ELSE IF second \in slots THEN Remembered(second) ELSE Missing

(* _fetch_price_uncached after every call failed: the phase is looked at   *)
(* once more.                                                              *)
LastResort(mode) ==
    CASE mode = "AFT" /\ PreMarket(time) -> FirstOf("NXT", "KRX")
      [] mode = "KRX" /\ OutOfHours(time) -> FirstOf("KRX_CLOSE", "KRX")
      [] OTHER -> FirstOf("KRX", "KRX")

(* _fetch_kr from the mobile interface on: its answer has a trade of NXT   *)
(* that is wanted, a trade of KRX only, or neither, or there is none.      *)
Mobile(mode, decided) ==
    LET useNxt == mode = "AFT" /\ PreMarket(decided)
        older == FirstOf(IF useNxt THEN "NXT" ELSE "KRX", "KRX")
    IN  {IF useNxt THEN Live("NXT") ELSE Live("KRX"),
         IF useNxt /\ "NXT" \in slots THEN Remembered("NXT") ELSE Live("KRX"),
         IF older = Missing THEN LastResort(mode) ELSE older}

(* Mutant: when the close cannot be fetched, whatever trades is shown.     *)
QuotedAfterHours(mode, decided) ==
    Mobile(mode, decided) \cup
    IF OutOfHours(decided)
      THEN IF mode = "KRX" THEN {Live("KRX_CLOSE")} ELSE {}
      ELSE {Live("KRX")}

(* _fetch_kr: out of hours, the KRX mode stands at the close of the latest *)
(* session, fetched or remembered, as long as there is one.                *)
Quoted(mode, decided) ==
    IF mode = "KRX" /\ OutOfHours(decided)
      THEN {Live("KRX_CLOSE")} \cup
           IF "KRX_CLOSE" \in slots THEN {Remembered("KRX_CLOSE")} ELSE Mobile(mode, decided)
      ELSE Mobile(mode, decided) \cup
           IF OutOfHours(decided) THEN {} ELSE {Live("KRX")}

-----------------------------------------------------------------------------
(* _schedule.  A fetch holds its place until its callback has run.         *)

Held == Cardinality({r \in Requests : fetch[r] # NoFetch})

(* A request waits for fetch f.  `due' is when it asked, or when the fetch *)
(* it found under way began.                                               *)
Waiting(f, manual, due) == [at |-> "waiting", of |-> f, manual |-> manual, due |-> due]

Submitted(r, mode, manual) ==
    /\ fetch' = [fetch EXCEPT ![r] =
                   [at |-> "queued", mode |-> mode, manual |-> manual, registered |-> FALSE,
                    began |-> Unchecked, answer |-> NoAnswer]]
    /\ inflight' = [inflight EXCEPT ![mode] = r]
    /\ ask' = [ask EXCEPT ![r] = Waiting(r, manual, time)]
    /\ lock' = r
    /\ UNCHANGED <<time, slots, closeSince, quotes>>

(* Mutant: a fetch under way is not looked for.                            *)
SubmitAlone(r, mode, manual) ==
    /\ ask[r] = Idle /\ fetch[r] = NoFetch
    /\ lock = NoOne
    /\ Held < Capacity
    /\ Submitted(r, mode, manual)

Submit(r, mode, manual) ==
    /\ ask[r] = Idle /\ fetch[r] = NoFetch
    /\ lock = NoOne
    /\ inflight[mode] = NoOne
    /\ Held < Capacity
    /\ Submitted(r, mode, manual)

(* The fetch has begun and its callback is yet to come.                    *)
UnderWay(f) ==
    fetch[f].began # Unchecked /\ (fetch[f].at = "done" => fetch[f].registered)

(* The fetch of another request serves this one as well, whether the one   *)
(* or the other is a manual refresh or a poll.                             *)
Join(r, mode, manual) ==
    /\ ask[r] = Idle
    /\ lock = NoOne
    /\ inflight[mode] # NoOne
    /\ LET f == inflight[mode]
       IN  ask' = [ask EXCEPT ![r] =
                     Waiting(f, manual, IF UnderWay(f) THEN fetch[f].began ELSE time)]
    /\ UNCHANGED <<time, slots, closeSince, quotes, lock, inflight, fetch>>

(* Too much is under way, the fetches of other stocks included: the answer *)
(* has no price.                                                           *)
Refuse(r, mode) ==
    /\ ask[r] = Idle
    /\ lock = NoOne
    /\ inflight[mode] = NoOne
    /\ UNCHANGED quoteVars

(* The callback; whoever waits still has the future.                       *)
Forgotten(f) ==
    /\ inflight' = [inflight EXCEPT ![fetch[f].mode] = NoOne]
    /\ fetch' = [fetch EXCEPT ![f] = NoFetch]
    /\ ask' = [r \in Requests |->
                 IF ask[r] # Idle /\ ask[r].of = f THEN Idle ELSE ask[r]]

(* Mutant: a callback registered after the end never runs.                 *)
RegisterOnly(r) ==
    /\ lock = r
    /\ lock' = NoOne
    /\ fetch' = [fetch EXCEPT ![r].registered = (fetch[r].at # "done")]
    /\ UNCHANGED <<time, slots, closeSince, quotes, ask, inflight>>

(* add_done_callback: if the fetch has already ended, the request runs the *)
(* callback itself (the lock is reentrant).                                *)
Register(r) ==
    /\ lock = r
    /\ lock' = NoOne
    /\ IF fetch[r].at = "done"
         THEN Forgotten(r)
         ELSE /\ fetch' = [fetch EXCEPT ![r].registered = TRUE]
              /\ UNCHANGED <<inflight, ask>>
    /\ UNCHANGED <<time, slots, closeSince, quotes>>

(* future.result().                                                        *)
Take(r) ==
    /\ ask[r] # Idle /\ lock # r
    /\ fetch[ask[r].of].at = "done"
    /\ ask' = [ask EXCEPT ![r] = Idle]
    /\ UNCHANGED <<time, slots, closeSince, quotes, lock, inflight, fetch>>

-----------------------------------------------------------------------------
(* _fetch, in a pool thread.                                               *)

Answered(f, answer) ==
    fetch' = [fetch EXCEPT ![f].at = "done", ![f].answer = answer,
                           ![f].began = IF @ = Unchecked THEN time ELSE @]

(* Checked within the last 50 seconds.                                     *)
Fresh(quote) == quote # NoQuote /\ time < quote.checked + PRICE_MEM_TTL

(* A poll is served the fresh quote that is kept, as it is; else the       *)
(* provider is asked, with the kept one in reserve.                        *)
Begin(f) ==
    /\ fetch[f].at = "queued"
    /\ LET kept == quotes[fetch[f].mode]
       IN  IF ~fetch[f].manual /\ Fresh(kept)
             THEN Answered(f, kept)
             ELSE fetch' = [fetch EXCEPT ![f].at = "begun", ![f].began = time,
                              ![f].answer = IF kept = NoQuote THEN NoAnswer ELSE kept]
    /\ UNCHANGED <<time, slots, closeSince, quotes, lock, inflight, ask>>

(* save_price_cache, which may fail in silence.                            *)
SaveSlot(slot) ==
    \/ /\ slots' = slots \cup {slot}
       /\ closeSince' = IF slot = "KRX_CLOSE" /\ closeSince = Unchecked THEN time ELSE closeSince
    \/ UNCHANGED <<slots, closeSince>>

(* The provider answers, or something fails.  Only a price it gave is      *)
(* current, and kept, here and in its slot; else the last one known is     *)
(* marked stale.                                                           *)
FinishFetch(f) ==
    /\ fetch[f].at = "begun"
    /\ LET g == fetch[f]
           live(slot) == [status |-> "ok", checked |-> g.began, slot |-> slot]
       IN  \E v \in Quoted(g.mode, g.began) \cup {Missing} :
             IF v.from = "provider"
               THEN /\ SaveSlot(v.slot)
                    /\ quotes' = [quotes EXCEPT ![g.mode] = live(v.slot)]
                    /\ Answered(f, live(v.slot))
               ELSE /\ UNCHANGED <<slots, closeSince, quotes>>
                    /\ LET known == g.answer.checked # Unchecked \/ v # Missing
                       IN  Answered(f, [g.answer EXCEPT
                                          !.status = IF known THEN "stale" ELSE "unavailable"])
    /\ UNCHANGED <<time, lock, inflight, ask>>

(* quote_cache cannot be read or written: the exception reaches whoever    *)
(* waits, who answers without a price (_empty).                            *)
FetchFails(f) ==
    /\ \/ fetch[f].at = "queued" /\ UNCHANGED <<slots, closeSince>>
       \/ /\ fetch[f].at = "begun"
          /\ \E v \in Quoted(fetch[f].mode, fetch[f].began) :
                v.from = "provider" /\ SaveSlot(v.slot)
    /\ Answered(f, [NoAnswer EXCEPT !.status = "unavailable"])
    /\ UNCHANGED <<time, quotes, lock, inflight, ask>>

(* The callback, in the pool thread.                                       *)
Forget(f) ==
    /\ fetch[f].at = "done" /\ fetch[f].registered
    /\ lock = NoOne
    /\ Forgotten(f)
    /\ UNCHANGED <<time, slots, closeSince, quotes, lock>>

-----------------------------------------------------------------------------
(* auto_fetch_nxt_close_job, between the close and 20:30: each price it    *)
(* gets.                                                                   *)
KeepCloses ==
    /\ Phase[time] = "after"
    /\ \E slot \in {"NXT", "KRX_CLOSE"} : SaveSlot(slot)
    /\ UNCHANGED <<time, quotes, lock, inflight, fetch, ask>>

MomentPasses ==
    /\ time < LastMoment
    /\ time' = time + 1
    /\ UNCHANGED <<slots, closeSince, quotes, lock, inflight, fetch, ask>>

-----------------------------------------------------------------------------
QuoteInit ==
    /\ time = 0
    /\ slots = {} /\ closeSince = Unchecked
    /\ quotes = [m \in Modes |-> NoQuote]
    /\ lock = NoOne
    /\ inflight = [m \in Modes |-> NoOne]
    /\ fetch = [r \in Requests |-> NoFetch]
    /\ ask = [r \in Requests |-> Idle]

QuoteNext ==
    \/ \E r \in Requests :
          \/ \E mode \in Modes :
                \/ \E manual \in BOOLEAN : Submit(r, mode, manual) \/ Join(r, mode, manual)
                \/ Refuse(r, mode)
          \/ Register(r) \/ Take(r)
          \/ Begin(r) \/ FinishFetch(r) \/ FetchFails(r) \/ Forget(r)
    \/ KeepCloses \/ MomentPasses

QuoteSpec == QuoteInit /\ [][QuoteNext]_quoteVars

-----------------------------------------------------------------------------
QuoteTypeOK ==
    /\ time \in Moments
    /\ slots \subseteq Slots /\ closeSince \in Moments \cup {Unchecked}
    /\ quotes \in [Modes -> QuoteAnswer \cup {NoQuote}]
    /\ lock \in Requests \cup {NoOne}
    /\ inflight \in [Modes -> Requests \cup {NoOne}]

(* What is kept of a price never goes back to an earlier look at it, though*)
(* any number of requests want it and threads finish in any order.         *)
QuotesNeverGoBack ==
    [][\A m \in Modes : quotes[m] # NoQuote =>
          quotes'[m] # NoQuote /\ quotes'[m].checked >= quotes[m].checked]_quoteVars

(* request r gets its answer, a price that is called current.              *)
Serves(r) == ask[r] # Idle /\ ask'[r] = Idle
ServesCurrent(r) == Serves(r) /\ fetch[ask[r].of].answer.status = "ok"

(* A price called current was looked at within 50 seconds before the       *)
(* request asked for it, and not before it asked if the fetch that serves  *)
(* it is that of a manual refresh.  (A request that finds a fetch under way*)
(* is served what that fetch has seen.)  A fetch that has ended and been   *)
(* forgotten, or should have been, serves nobody.                          *)
AnswersAreCurrent ==
    [][\A r \in Requests : ServesCurrent(r) =>
          LET g == fetch[ask[r].of]
          IN  IF g.manual THEN g.answer.checked >= ask[r].due
                          ELSE g.answer.checked + PRICE_MEM_TTL > ask[r].due]_quoteVars

(* What api.py:585 and prices.py:628 say: a manual refresh is always given *)
(* a live price.  One that joins the fetch of a poll may not be.           *)
ManualIsLive ==
    [][\A r \in Requests : ServesCurrent(r) /\ ask[r].manual =>
          fetch[ask[r].of].answer.checked >= ask[r].due]_quoteVars

(* Out of hours, once the close of the session has been known for longer   *)
(* than a quote is kept, nobody is served what trades after it as the      *)
(* current price of the KRX mode: not by a fetch of his own or another's,  *)
(* not from the kept quote, and not when the provider fails.               *)
CloseStands ==
    [][\A r \in Requests :
          /\ ServesCurrent(r) /\ fetch[ask[r].of].mode = "KRX"
          /\ closeSince # Unchecked /\ closeSince + PRICE_MEM_TTL <= ask[r].due
          /\ \A t \in Moments : t <= time /\ ask[r].due < t + PRICE_MEM_TTL => OutOfHours(t)
          => fetch[ask[r].of].answer.slot = "KRX_CLOSE"]_quoteVars
=============================================================================
