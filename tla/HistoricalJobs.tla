---------------------------- MODULE HistoricalJobs ----------------------------
(***************************************************************************)
(* The queue that collects daily closes: app/services/historical_prices.py.*)
(*                                                                         *)
(* Requests plan ranges of days (enqueue); workers - one thread in each    *)
(* server process - claim one job at a time, fetch from the vendor without *)
(* a transaction, and store what they got if they still hold the lease.    *)
(* A process may end at any point; its job is claimed again once the lease *)
(* has run out.                                                            *)
(*                                                                         *)
(* One asset is modelled, with days that lie close enough to be collected  *)
(* in one batch, and whose splits are later than all of them.  The vendor  *)
(* divides a close by the splits it knows when it answers; the worker      *)
(* undoes the ones it was told of before.  A close is represented by both. *)
(* Time is what has passed since something was written: `due' of a job and *)
(* `age' of a price or an asset.                                           *)
(***************************************************************************)
EXTENDS Naturals, FiniteSets, FiniteSetsExt

CONSTANTS
    Workers,        \* worker threads
    Days,           \* days, numbers from 1 on at most a week apart
    Sessions,       \* the days on which the exchange is open
    Recent,         \* the days of the last week
    NoJob, NoClose, NoPrice, NoAsset,
    MAX_ATTEMPTS,   \* attempts before a job fails
    MaxPlans,       \* bound on the number of calls of enqueue
    Mishaps         \* bound: how many processes end, fetches are late and splits are
                    \* made, together

ASSUME QueueAssumption ==
    /\ Days \subseteq Nat \ {0} /\ IsFiniteSet(Days)
    /\ Sessions \subseteq Days /\ Recent \subseteq Days
    /\ MAX_ATTEMPTS \in Nat \ {0}
    /\ MaxPlans \in Nat
    /\ Mishaps \subseteq Nat \X Nat \X Nat

VARIABLES
    jobs,       \* historical_jobs: a row or NoJob for each range
    prices,     \* historical_prices
    asset,      \* historical_assets: the row of the asset
    worker,     \* the locals of run_one
    splits,     \* the number of splits the vendor reports
    claims,     \* number of claims so far: what tells one lease from another
    plans,      \* number of calls of enqueue
    crashes,    \* number of processes that ended
    late        \* number of fetches that took longer than their lease

vars == <<jobs, prices, asset, worker, splits, claims, plans, crashes, late>>

(* start and end of a job; without them it is about the asset alone.       *)
AssetOnly == <<0, 0>>
Ranges == {r \in Days \X Days : r[1] <= r[2]} \cup {AssetOnly}
In(r) == {d \in Days : r[1] <= d /\ d <= r[2]}

(* due: "wait" until next_attempt, or until the lease runs out; "retry"    *)
(* once a failed job may be retried by hand; "due".                        *)
Job == [id : Nat, status : {"queued", "running", "done", "failed"},
        attempts : Nat, due : {"wait", "retry", "due"}, lease : Nat]

(* age of checked_at: "never" is 0, "day" more than a day, "minute" more   *)
(* than a minute.                                                          *)
Ages == {"never", "new", "minute", "day"}
Close == [adjusted : Nat, undone : Nat]
Price == [close : Close \cup {NoClose}, age : Ages]
Asset == [splits : Nat, age : Ages]

ASSUME NullsAssumption ==
    NoJob \notin Job /\ NoClose \notin Close /\ NoPrice \notin Price /\ NoAsset \notin Asset

Idle == [pc |-> "idle"]
Claimed == [pc : {"claimed"}, range : Ranges, lease : Nat, attempts : Nat]
Fetching == [pc : {"asking", "fetching", "storing"}, range : Ranges, lease : Nat,
             attempts : Nat, quotes : [Days -> Price \cup {NoPrice}],
             metadata : Asset \cup {NoAsset}, found : Asset \cup {NoAsset},
             closes : [Days -> Close \cup {NoClose}]]

Verified(price) == price # NoPrice /\ price.close # NoClose /\ price.age # "never"

(* The price of the day's trades: the splits the vendor adjusted for have  *)
(* been undone.                                                            *)
AsTraded(close) == close.adjusted = close.undone

(* status 'missing': no close although the exchange was open.              *)
Lacking(price, d) == price.close = NoClose /\ d \in Sessions

-----------------------------------------------------------------------------
(* enqueue.                                                                *)

(* The wanted days whose price is unknown, in doubt, missing or recent.    *)
Missing(wanted, retry) ==
    {d \in wanted :
        \/ prices[d] = NoPrice
        \/ prices[d].age = "never"
        \/ Lacking(prices[d], d) /\ prices[d].age \in (IF retry THEN {"minute", "day"} ELSE {"day"})
        \/ d \in Recent /\ prices[d].age = "day"}

(* Mutant: a running job is planned again.                                 *)
PendingQueued(job, retry) ==
    /\ job # NoJob
    /\ \/ job.status = "queued"
       \/ /\ job.status = "failed"
          /\ job.due = "wait" \/ (job.due = "retry" /\ ~retry)

(* Jobs that take their days out of the plan.                              *)
Pending(job, retry) ==
    /\ job # NoJob
    /\ \/ job.status \in {"queued", "running"}
       \/ /\ job.status = "failed"
          /\ job.due = "wait" \/ (job.due = "retry" /\ ~retry)

Planned(retry) == UNION {In(r) : r \in {x \in Ranges : Pending(jobs[x], retry)}}

NextId == Cardinality({r \in Ranges : jobs[r] # NoJob}) + 1

(* The row of (start, end) is queued anew, with the id it has if it exists.*)
Queue(r) ==
    /\ plans < MaxPlans
    /\ plans' = plans + 1
    /\ jobs' = [jobs EXCEPT ![r] =
                  [id |-> IF @ = NoJob THEN NextId ELSE @.id, status |-> "queued",
                   attempts |-> 0, due |-> "due", lease |-> 0]]
    /\ UNCHANGED <<prices, asset, worker, splits, claims, crashes, late>>

Enqueue(wanted, retry) ==
    LET missing == Missing(wanted, retry) \ Planned(retry)
    IN  missing # {} /\ Queue(<<Min(missing), Max(missing)>>)

(* enqueue_assets: splits are asked for once a day.                        *)
EnqueueAsset ==
    /\ asset # NoAsset => asset.age = "day"
    /\ ~Pending(jobs[AssetOnly], FALSE)
    /\ Queue(AssetOnly)

-----------------------------------------------------------------------------
(* run_one.                                                                *)

(* Mutant: a job whose worker died stays running.                          *)
ClaimableQueued(r) == jobs[r] # NoJob /\ jobs[r].status = "queued" /\ jobs[r].due = "due"

(* Queued and due, or running without a valid lease.                       *)
Claimable(r) ==
    jobs[r] # NoJob /\ jobs[r].status \in {"queued", "running"} /\ jobs[r].due = "due"

Collecting(r) == jobs[r] # NoJob /\ jobs[r].status = "running" /\ jobs[r].due # "due"

(* claim: at most one lease is valid; the job with the lowest id is next.  *)
Claim(w) ==
    /\ worker[w] = Idle
    /\ \A r \in Ranges : ~Collecting(r)
    /\ \E r \in Ranges :
          /\ Claimable(r)
          /\ \A x \in Ranges : Claimable(x) => jobs[r].id <= jobs[x].id
          /\ claims' = claims + 1
          /\ jobs' = [jobs EXCEPT ![r] = [@ EXCEPT !.status = "running", !.due = "wait",
                            !.attempts = jobs[r].attempts + 1, !.lease = claims + 1]]
          /\ worker' = [worker EXCEPT ![w] = [pc |-> "claimed", range |-> r,
                            lease |-> claims + 1, attempts |-> jobs[r].attempts + 1]]
    /\ UNCHANGED <<prices, asset, splits, plans, crashes, late>>

(* claim returns None: something is being collected, or nothing is due.    *)
Sleep(w) ==
    /\ worker[w] = Idle
    /\ (\E r \in Ranges : Collecting(r)) \/ (\A r \in Ranges : ~Claimable(r))
    /\ UNCHANGED vars

(* fetch_asset is called if the metadata is unknown or a day old.          *)
Outdated(metadata) == metadata = NoAsset \/ metadata.age = "day"

Read(w, pc) ==
    LET range == worker[w].range
    IN  worker' = [worker EXCEPT ![w] =
                     [pc |-> pc, range |-> range, lease |-> worker[w].lease,
                      attempts |-> worker[w].attempts,
                      quotes |-> [d \in Days |-> IF d \in In(range) THEN prices[d] ELSE NoPrice],
                      metadata |-> asset, found |-> asset,
                      closes |-> [d \in Days |-> NoClose]]]

(* read: prices and metadata before the vendor is asked.                   *)
ReadCache(w) ==
    /\ worker[w].pc = "claimed"
    /\ Read(w, IF Outdated(asset) THEN "asking" ELSE "fetching")
    /\ UNCHANGED <<jobs, prices, asset, splits, claims, plans, crashes, late>>

(* The vendor answers fetch_asset; fetch_closes is next.                   *)
FetchAsset(w) ==
    /\ worker[w].pc = "asking"
    /\ worker' = [worker EXCEPT ![w].pc = "fetching",
                                ![w].found = [splits |-> splits, age |-> "new"]]
    /\ UNCHANGED <<jobs, prices, asset, splits, claims, plans, crashes, late>>

(* The vendor answers fetch_closes, with the splits it knows by now:       *)
(* `answered' are the days it has a close for.  A job about the asset      *)
(* alone has no day to ask for.                                            *)
FetchCloses(w, answered) ==
    /\ worker[w].pc = "fetching"
    /\ answered \subseteq In(worker[w].range)
    /\ worker' = [worker EXCEPT ![w].pc = "storing",
                     ![w].closes = [d \in Days |->
                         IF d \in answered
                           THEN [adjusted |-> splits, undone |-> worker[w].found.splits]
                           ELSE NoClose]]
    /\ UNCHANGED <<jobs, prices, asset, splits, claims, plans, crashes, late>>

Return(w) == worker' = [worker EXCEPT ![w] = Idle]

HoldsLease(w) ==
    LET job == jobs[worker[w].range]
    IN  job.status = "running" /\ job.lease = worker[w].lease

(* Mutant: whatever the vendor does not answer is gone.                    *)
KeptNothing(old, changed) == NoClose

(* A close that was verified outlives an empty answer.                     *)
Kept(old, changed) ==
    IF Verified(old) /\ ~changed THEN old.close ELSE NoClose

(* Mutant: prices of other ranges stay valid when a split is corrected.    *)
InDoubtNone(price, changed) == price

InDoubt(price, changed) ==
    IF changed /\ price # NoPrice THEN [price EXCEPT !.age = "never"] ELSE price

(* The answers are stored, with the splits they were undone with.          *)
Store(w) ==
    /\ worker[w].pc = "storing"
    /\ HoldsLease(w)
    /\ LET me == worker[w]
           new == me.found
           changed == new.splits # (IF me.metadata = NoAsset THEN 0 ELSE me.metadata.splits)
       IN  /\ asset' = new
           /\ prices' = [d \in Days |->
                 IF d \in In(me.range)
                   THEN [close |-> IF me.closes[d] # NoClose THEN me.closes[d]
                                   ELSE Kept(me.quotes[d], changed),
                         age |-> "new"]
                   ELSE InDoubt(prices[d], changed)]
           /\ jobs' = [jobs EXCEPT ![me.range] = [@ EXCEPT !.status = "done", !.lease = 0,
                                                           !.due = "due"]]
    /\ Return(w)
    /\ UNCHANGED <<splits, claims, plans, crashes, late>>

(* The lease was lost: the result is thrown away.                          *)
Discard(w) ==
    /\ worker[w].pc = "storing"
    /\ ~HoldsLease(w)
    /\ Return(w)
    /\ UNCHANGED <<jobs, prices, asset, splits, claims, plans, crashes, late>>

(* The vendor fails: the job waits for its next attempt, or has failed.    *)
(* The update has the lease in its condition.                              *)
Fail(w) ==
    /\ worker[w].pc # "idle"
    /\ LET me == worker[w] IN
       jobs' = IF HoldsLease(w)
                 THEN [jobs EXCEPT ![me.range] = [@ EXCEPT !.lease = 0, !.due = "wait",
                         !.status = IF me.attempts >= MAX_ATTEMPTS THEN "failed" ELSE "queued"]]
                 ELSE jobs
    /\ Return(w)
    /\ UNCHANGED <<prices, asset, splits, claims, plans, crashes, late>>

(* The process ends.                                                       *)
Crash(w) ==
    /\ worker[w].pc # "idle"
    /\ <<crashes + 1, late, splits>> \in Mishaps
    /\ crashes' = crashes + 1
    /\ Return(w)
    /\ UNCHANGED <<jobs, prices, asset, splits, claims, plans, late>>

-----------------------------------------------------------------------------
(* Time.                                                                   *)

Busy == {w \in Workers : worker[w].pc # "idle"}

(* next_attempt or the end of the lease has come.                          *)
Pass(r) ==
    jobs' = [jobs EXCEPT ![r].due =
               IF jobs[r].status = "failed" /\ @ = "wait" THEN "retry" ELSE "due"]

AtWork(r) == \E w \in Busy : worker[w].lease = jobs[r].lease

Elapse(r) ==
    /\ jobs[r] # NoJob
    /\ jobs[r].due # "due"
    /\ jobs[r].status = "running" => ~AtWork(r)
    /\ Pass(r)
    /\ UNCHANGED <<prices, asset, worker, splits, claims, plans, crashes, late>>

(* A fetch takes longer than its lease: its time limits are those of a     *)
(* single read of the socket.                                              *)
ElapseLate(r) ==
    /\ jobs[r] # NoJob
    /\ jobs[r].status = "running" /\ jobs[r].due # "due"
    /\ AtWork(r)
    /\ <<crashes, late + 1, splits>> \in Mishaps
    /\ late' = late + 1
    /\ Pass(r)
    /\ UNCHANGED <<prices, asset, worker, splits, claims, plans, crashes>>

(* A minute or a day passes for every row, and for the metadata a worker   *)
(* has in its hands; a minute matters to the prices without a close.       *)
Older(row, age) ==
    IF row.age \in {"never", "day"} THEN row ELSE [row EXCEPT !.age = age]

Aged(me) ==
    IF me.pc \in {"asking", "fetching", "storing"} /\ me.found # NoAsset
      THEN [me EXCEPT !.found = Older(@, "day")] ELSE me

Minute ==
    /\ \E d \in Days : prices[d] # NoPrice /\ Lacking(prices[d], d) /\ prices[d].age = "new"
    /\ prices' = [d \in Days |-> IF prices[d] # NoPrice /\ Lacking(prices[d], d)
                                   THEN Older(prices[d], "minute") ELSE prices[d]]
    /\ UNCHANGED <<jobs, asset, worker, splits, claims, plans, crashes, late>>

Day ==
    /\ asset # NoAsset /\ asset.age = "new"
    /\ asset' = [asset EXCEPT !.age = "day"]
    /\ prices' = [d \in Days |-> IF prices[d] = NoPrice THEN NoPrice ELSE Older(prices[d], "day")]
    /\ worker' = [w \in Workers |-> Aged(worker[w])]
    /\ UNCHANGED <<jobs, splits, claims, plans, crashes, late>>

Split ==
    /\ <<crashes, late, splits + 1>> \in Mishaps
    /\ splits' = splits + 1
    /\ UNCHANGED <<jobs, prices, asset, worker, claims, plans, crashes, late>>

-----------------------------------------------------------------------------
Init ==
    /\ jobs = [r \in Ranges |-> NoJob]
    /\ prices = [d \in Days |-> NoPrice]
    /\ asset = NoAsset
    /\ worker = [w \in Workers |-> Idle]
    /\ splits = 0 /\ claims = 0 /\ plans = 0 /\ crashes = 0 /\ late = 0

(* worker(): runs for ever.                                                *)
Work(w) ==
    \/ Claim(w) \/ Sleep(w) \/ ReadCache(w) \/ FetchAsset(w)
    \/ \E answered \in SUBSET Days : FetchCloses(w, answered)
    \/ Store(w) \/ Discard(w) \/ Fail(w)

Time == \/ \E r \in Ranges : Elapse(r) \/ ElapseLate(r)
        \/ Minute \/ Day \/ Split

Next ==
    \/ \E wanted \in SUBSET Days, retry \in BOOLEAN : Enqueue(wanted, retry)
    \/ EnqueueAsset
    \/ \E w \in Workers : Work(w) \/ Crash(w)
    \/ Time

Spec == Init /\ [][Next]_vars

(* worker() loops, and jobs.start_all starts it again with the server;     *)
(* time passes.                                                            *)
FairSpec ==
    /\ Spec
    /\ \A w \in Workers : WF_vars(Work(w))
    /\ WF_vars(\E r \in Ranges : Elapse(r))

-----------------------------------------------------------------------------
TypeOK ==
    /\ jobs \in [Ranges -> Job \cup {NoJob}]
    /\ prices \in [Days -> Price \cup {NoPrice}]
    /\ asset \in Asset \cup {NoAsset}
    /\ worker \in [Workers -> {Idle} \cup Claimed \cup Fetching]
    /\ {splits, claims, plans, crashes, late} \subseteq Nat

(* Who collects holds the lease of a running job: planning never queues a  *)
(* job again under its worker, so no answer is thrown away but a late one. *)
NobodyWorksInVain == Cardinality({w \in Busy : ~HoldsLease(w)}) <= late

(* A close that was verified is never lost to an empty answer or to a job  *)
(* that read the cache before; only a corrected split puts it in doubt.    *)
(* Late fetches are not covered: two of them may collect the same day.     *)
VerifiedClosesStay ==
    [][\A d \in Days :
          /\ Verified(prices[d]) /\ ~Verified(prices'[d]) /\ late = 0
          => asset' # NoAsset /\ (asset = NoAsset \/ asset'.splits # asset.splits)]_vars

(* No valuation mixes closes whose splits were undone differently: one     *)
(* undone with other splits than the asset's is in doubt and planned       *)
(* again.  A close that misses a split, found between the two answers of   *)
(* the vendor or while the metadata was young, is wrong no longer than the *)
(* asset misses it.  A late fetch breaks this: while nobody has claimed    *)
(* its job again, it stores the splits of before over the ones another job *)
(* has found since.                                                        *)
ClosesFitSplits ==
    late = 0 =>
        \A d \in Days :
            Verified(prices[d]) =>
                /\ asset # NoAsset
                /\ prices[d].close.undone = asset.splits
                /\ asset.splits = splits => AsTraded(prices[d].close)

(* What historical_provider.py:1 says: the vendor's split adjustment is    *)
(* undone and the price of the day's trades stored.  The splits are those  *)
(* of an earlier answer, or of metadata up to a day old.                   *)
StoredAsTraded == \A d \in Days : Verified(prices[d]) => AsTraded(prices[d].close)

(* A planned job is done or fails, although processes end.                 *)
JobsEnd ==
    \A r \in Ranges :
        (jobs[r] # NoJob /\ jobs[r].status = "queued")
            ~> (jobs[r] # NoJob /\ jobs[r].status \in {"done", "failed"})
=============================================================================
