------------------------- MODULE HistoricalJobsProofs -------------------------
(***************************************************************************)
(* Proofs about HistoricalJobs, for any workers, days, plans, mishaps and  *)
(* splits.                                                                 *)
(*                                                                         *)
(* The argument counts the workers whose lease has run out or is lost:     *)
(* only a late fetch adds one to them.  While there has been none, a new   *)
(* claim finds every other worker idle, so that what a worker read before  *)
(* it asked the vendor still holds when it stores the answer.              *)
(***************************************************************************)
EXTENDS HistoricalJobs, FiniteSetTheorems, WellFoundedInduction, TLAPS

(* Workers whose lease has run out, or whose job another one has.          *)
Overdue == {w \in Busy : ~HoldsLease(w) \/ jobs[worker[w].range].due = "due"}

LeaseInv ==
    /\ \A w \in Busy : worker[w].lease \in 1 .. claims /\ jobs[worker[w].range] # NoJob
    /\ \A v, w \in Busy : worker[v].lease = worker[w].lease => v = w

OverdueInv == IsFiniteSet(Overdue) /\ Cardinality(Overdue) <= late

(* Until a fetch is late, workers work one after the other.                *)
OneByOne == late = 0 => \A v, w \in Busy : v = w

(* What was read before the vendor was asked, up to its age.               *)
SameSplits(metadata) ==
    /\ metadata = NoAsset <=> asset = NoAsset
    /\ asset # NoAsset => metadata.splits = asset.splits

SameClose(quote, price) ==
    /\ Verified(quote) <=> Verified(price)
    /\ Verified(price) => quote.close = price.close

ReadHolds ==
    late = 0 =>
        \A w \in Busy :
            worker[w].pc # "claimed" =>
                /\ SameSplits(worker[w].metadata)
                /\ \A d \in In(worker[w].range) : SameClose(worker[w].quotes[d], prices[d])

FoundInv ==
    \A w \in Workers : worker[w].pc \in {"fetching", "storing"} => worker[w].found # NoAsset

(* Nobody knows of more splits than the vendor, whose count only grows: a  *)
(* close was adjusted for the undone ones at least, and for `reported' at  *)
(* most.                                                                   *)
Known(row, reported) == row = NoAsset \/ row.splits <= reported

Undoes(close, reported) ==
    close = NoClose \/ (close.undone <= close.adjusted /\ close.adjusted <= reported)

PriceUndoes(price, reported) == price = NoPrice \/ Undoes(price.close, reported)

Carries(me, reported) ==
    /\ Known(me.found, reported)
    /\ \A d \in Days :
          /\ PriceUndoes(me.quotes[d], reported)
          /\ Undoes(me.closes[d], reported)
          /\ me.closes[d] # NoClose => me.pc = "storing" /\ me.closes[d].undone = me.found.splits

SplitsInv ==
    /\ Known(asset, splits)
    /\ \A d \in Days : PriceUndoes(prices[d], splits)
    /\ \A w \in Workers : worker[w].pc \notin {"idle", "claimed"} => Carries(worker[w], splits)

(* Until a fetch is late, the splits that were undone are the asset's.     *)
UndoneFit ==
    late = 0 =>
        \A d \in Days :
            Verified(prices[d]) => asset # NoAsset /\ prices[d].close.undone = asset.splits

JobsInv ==
    /\ TypeOK
    /\ LeaseInv
    /\ OverdueInv
    /\ OneByOne
    /\ ReadHolds
    /\ FoundInv
    /\ SplitsInv
    /\ UndoneFit

-----------------------------------------------------------------------------
(* Ranges and their days.                                                  *)

(* A finite set that is not empty has an element that no other one follows *)
(* in a strict order R: the one with the fewest elements after it.         *)
LEMMA LastOne ==
    ASSUME NEW S, IsFiniteSet(S), S # {}, NEW R,
           \A x, y, z \in S : <<x, y>> \in R /\ <<y, z>> \in R => <<x, z>> \in R,
           \A x \in S : <<x, x>> \notin R
    PROVE  \E x \in S : \A y \in S : <<x, y>> \notin R
<1> DEFINE After(x) == {y \in S : <<x, y>> \in R}
           Tails == {After(x) : x \in S}
<1>1. Tails \subseteq FiniteSubsetsOf(S) /\ Tails # {}
    <2>1. \A x \in S : After(x) \in SUBSET S /\ IsFiniteSet(After(x))
        BY FS_Subset
    <2>2. PICK x \in S : TRUE
        OBVIOUS
    <2> HIDE DEF After
    <2> QED BY <2>1, <2>2 DEF FiniteSubsetsOf
<1>2. PICK least \in Tails : \A t \in Tails : <<t, least>> \notin StrictSubsetOrdering(S)
    <2> HIDE DEF Tails
    <2> QED BY <1>1, FS_StrictSubsetOrderingWellFounded, WFMin
<1>3. PICK x \in S : least = After(x)
    OBVIOUS
<1>4. ASSUME NEW y \in S, <<x, y>> \in R PROVE FALSE
    <2>1. After(y) \in Tails /\ After(y) \subseteq After(x)
        BY <1>4
    <2>2. y \in After(x) /\ y \notin After(y)
        BY <1>4
    <2> QED BY <1>2, <1>3, <2>1, <2>2 DEF StrictSubsetOrdering
<1> QED BY <1>4

(* Min and Max of a finite set of numbers are in it.                       *)
LEMMA LeastAndGreatest ==
    ASSUME NEW S, S \subseteq Nat, IsFiniteSet(S), S # {}
    PROVE  /\ Min(S) \in S /\ \A x \in S : Min(S) <= x
           /\ Max(S) \in S /\ \A x \in S : x <= Max(S)
<1>1. \E x \in S : \A y \in S : x <= y
    <2> DEFINE R == {p \in S \X S : p[1] > p[2]}
    <2>1. \A x, y \in S : <<x, y>> \in R <=> x > y
        OBVIOUS
    <2> HIDE DEF R
    <2>2. PICK x \in S : \A y \in S : <<x, y>> \notin R
        <3>1. \A x, y, z \in S : <<x, y>> \in R /\ <<y, z>> \in R => <<x, z>> \in R
            BY <2>1
        <3>2. \A x \in S : <<x, x>> \notin R
            BY <2>1
        <3> QED BY <3>1, <3>2, LastOne
    <2>3. \A y \in S : ~(x > y)
        BY <2>1, <2>2
    <2> QED BY <2>3
<1>2. \E x \in S : \A y \in S : x >= y
    <2> DEFINE R == {p \in S \X S : p[1] < p[2]}
    <2>1. \A x, y \in S : <<x, y>> \in R <=> x < y
        OBVIOUS
    <2> HIDE DEF R
    <2>2. PICK x \in S : \A y \in S : <<x, y>> \notin R
        <3>1. \A x, y, z \in S : <<x, y>> \in R /\ <<y, z>> \in R => <<x, z>> \in R
            BY <2>1
        <3>2. \A x \in S : <<x, x>> \notin R
            BY <2>1
        <3> QED BY <3>1, <3>2, LastOne
    <2>3. \A y \in S : ~(x < y)
        BY <2>1, <2>2
    <2> QED BY <2>3
<1>3. Min(S) \in S /\ \A x \in S : Min(S) <= x
    BY <1>1 DEF Min
<1>4. Max(S) \in S /\ \A x \in S : x <= Max(S)
    <2>1. Max(S) \in S /\ \A x \in S : Max(S) >= x
        BY <1>2 DEF Max
    <2> QED BY <2>1
<1> QED BY <1>3, <1>4

(* The range that is queued for some missing days starts on one of them.   *)
LEMMA RangeOfDays ==
    ASSUME NEW missing, missing \subseteq Days, missing # {}
    PROVE  /\ <<Min(missing), Max(missing)>> \in Ranges
           /\ Min(missing) \in missing
           /\ Min(missing) \in In(<<Min(missing), Max(missing)>>)
<1>1. missing \subseteq Nat /\ IsFiniteSet(missing)
    BY QueueAssumption, FS_Subset
<1>2. Min(missing) \in missing /\ Max(missing) \in missing /\ Min(missing) <= Max(missing)
    BY <1>1, LeastAndGreatest
<1>3. Min(missing) \in Days /\ Max(missing) \in Days
    BY <1>2
<1>4. Min(missing) \in Nat
    BY <1>1, <1>2
<1>5. Min(missing) <= Min(missing)
    BY <1>4
<1> QED BY <1>2, <1>3, <1>5 DEF Ranges, In

LEMMA RangesFinite == IsFiniteSet(Ranges)
<1>1. IsFiniteSet(Days \X Days)
    BY QueueAssumption, FS_Product
<1>2. IsFiniteSet({r \in Days \X Days : r[1] <= r[2]})
    BY <1>1, FS_Subset
<1>3. IsFiniteSet({AssetOnly})
    BY FS_Singleton
<1> QED BY <1>2, <1>3, FS_Union DEF Ranges

-----------------------------------------------------------------------------
(* Types.                                                                  *)

(* What a worker at work carries with it.                                  *)
LEMMA WorkerTyped ==
    ASSUME TypeOK, NEW w \in Workers, worker[w].pc # "idle"
    PROVE  /\ worker[w] \in Claimed \cup Fetching
           /\ worker[w].range \in Ranges
           /\ worker[w].lease \in Nat /\ worker[w].attempts \in Nat
           /\ worker[w].pc = "claimed" => worker[w] \in Claimed
           /\ worker[w].pc # "claimed" => worker[w] \in Fetching
    BY DEF TypeOK, Idle, Claimed, Fetching

(* A worker changes to another state of its shape.                         *)
LEMMA WorkerSet ==
    ASSUME TypeOK, NEW w \in Workers, NEW me \in {Idle} \cup Claimed \cup Fetching
    PROVE  [worker EXCEPT ![w] = me] \in [Workers -> {Idle} \cup Claimed \cup Fetching]
    BY DEF TypeOK

LEMMA JobTyped ==
    ASSUME TypeOK, NEW r \in Ranges, jobs[r] # NoJob
    PROVE  jobs[r] \in Job
    BY DEF TypeOK

LEMMA QueueTyped ==
    ASSUME TypeOK, NEW r \in Ranges, Queue(r)
    PROVE  TypeOK' /\ jobs'[r] \in Job
<1> DEFINE row == [id |-> IF jobs[r] = NoJob THEN NextId ELSE jobs[r].id, status |-> "queued",
                   attempts |-> 0, due |-> "due", lease |-> 0]
<1>1. NextId \in Nat
    <2>1. IsFiniteSet({x \in Ranges : jobs[x] # NoJob})
        BY RangesFinite, FS_Subset
    <2>2. Cardinality({x \in Ranges : jobs[x] # NoJob}) \in Nat
        BY <2>1, FS_CardinalityType
    <2> QED BY <2>2 DEF NextId
<1>2. row \in Job
    BY <1>1, JobTyped DEF Job
<1>3. jobs' = [jobs EXCEPT ![r] = row]
    BY DEF Queue
<1> HIDE DEF row
<1>4. jobs' \in [Ranges -> Job \cup {NoJob}]
    BY <1>2, <1>3 DEF TypeOK
<1>5. plans' \in Nat
    BY DEF Queue, TypeOK
<1>6. jobs'[r] \in Job
    BY <1>2, <1>3 DEF TypeOK
<1> QED BY <1>4, <1>5, <1>6 DEF Queue, TypeOK

LEMMA ClaimTyped ==
    ASSUME TypeOK, NEW w \in Workers, Claim(w)
    PROVE  TypeOK'
<1>1. PICK r \in Ranges :
        /\ Claimable(r)
        /\ claims' = claims + 1
        /\ jobs' = [jobs EXCEPT ![r] = [@ EXCEPT !.status = "running", !.due = "wait",
                            !.attempts = jobs[r].attempts + 1, !.lease = claims + 1]]
        /\ worker' = [worker EXCEPT ![w] = [pc |-> "claimed", range |-> r,
                            lease |-> claims + 1, attempts |-> jobs[r].attempts + 1]]
    BY DEF Claim
<1>2. jobs[r] \in Job /\ claims + 1 \in Nat
    BY <1>1, JobTyped DEF Claimable, TypeOK
<1> DEFINE row == [jobs[r] EXCEPT !.status = "running", !.due = "wait",
                            !.attempts = jobs[r].attempts + 1, !.lease = claims + 1]
           me == [pc |-> "claimed", range |-> r,
                  lease |-> claims + 1, attempts |-> jobs[r].attempts + 1]
<1>3. jobs[r].attempts + 1 \in Nat
    BY <1>2 DEF Job
<1>4. row \in Job /\ me \in Claimed
    BY <1>2, <1>3 DEF Job, Claimed
<1>5. jobs' = [jobs EXCEPT ![r] = row] /\ worker' = [worker EXCEPT ![w] = me]
    BY <1>1
<1> HIDE DEF row, me
<1>6. jobs' \in [Ranges -> Job \cup {NoJob}]
    BY <1>4, <1>5 DEF TypeOK
<1>7. worker' \in [Workers -> {Idle} \cup Claimed \cup Fetching]
    BY <1>4, <1>5, WorkerSet
<1> QED BY <1>1, <1>2, <1>6, <1>7 DEF Claim, TypeOK

(* What a worker does between its claim and the end of its job.            *)
Reads(w) ==
    ReadCache(w) \/ FetchAsset(w) \/ \E answered \in SUBSET Days : FetchCloses(w, answered)

LEMMA ReadTyped ==
    ASSUME TypeOK, FoundInv, NEW w \in Workers, Reads(w)
    PROVE  TypeOK'
<1>1. PICK me \in Fetching : worker' = [worker EXCEPT ![w] = me]
    <2>1. CASE ReadCache(w)
        <3> DEFINE pc == IF Outdated(asset) THEN "asking" ELSE "fetching"
                   quotes == [d \in Days |-> IF d \in In(worker[w].range) THEN prices[d] ELSE NoPrice]
                   none == [d \in Days |-> NoClose]
                   me == [pc |-> pc, range |-> worker[w].range, lease |-> worker[w].lease,
                          attempts |-> worker[w].attempts, quotes |-> quotes,
                          metadata |-> asset, found |-> asset, closes |-> none]
        <3>1. quotes \in [Days -> Price \cup {NoPrice}] /\ none \in [Days -> Close \cup {NoClose}]
            BY DEF TypeOK
        <3>2. pc \in {"asking", "fetching"}
            OBVIOUS
        <3>3. worker' = [worker EXCEPT ![w] = me]
            BY <2>1 DEF ReadCache, Read
        <3> HIDE DEF quotes, pc, none
        <3>4. me \in Fetching
            BY <2>1, <3>1, <3>2, WorkerTyped DEF ReadCache, Fetching, TypeOK
        <3> QED BY <3>3, <3>4
    <2>2. CASE FetchAsset(w)
        <3> DEFINE new == [splits |-> splits, age |-> "new"]
                   me == [worker[w] EXCEPT !.pc = "fetching", !.found = new]
        <3>1. new \in Asset
            BY DEF TypeOK, Asset, Ages
        <3> HIDE DEF new
        <3>2. worker[w] \in Fetching
            BY <2>2, WorkerTyped DEF FetchAsset
        <3>3. me \in Fetching
            BY <3>1, <3>2 DEF Fetching
        <3>4. worker' = [worker EXCEPT ![w] = me]
            BY <2>2, <3>2 DEF FetchAsset, new, TypeOK
        <3> QED BY <3>3, <3>4
    <2>3. ASSUME NEW answered \in SUBSET Days, FetchCloses(w, answered)
          PROVE  \E me \in Fetching : worker' = [worker EXCEPT ![w] = me]
        <3> DEFINE new == [d \in Days |->
                             IF d \in answered
                               THEN [adjusted |-> splits, undone |-> worker[w].found.splits]
                               ELSE NoClose]
                   me == [worker[w] EXCEPT !.pc = "storing", !.closes = new]
        <3>1. worker[w] \in Fetching /\ worker[w].found \in Asset
            BY <2>3, WorkerTyped DEF FetchCloses, FoundInv, Fetching
        <3>2. new \in [Days -> Close \cup {NoClose}]
            BY <3>1 DEF TypeOK, Asset, Close
        <3>3. worker' = [worker EXCEPT ![w] = me]
            BY <2>3, <3>1 DEF FetchCloses, TypeOK
        <3> HIDE DEF new
        <3>4. me \in Fetching
            BY <3>1, <3>2 DEF Fetching
        <3> QED BY <3>3, <3>4
    <2> QED BY <2>1, <2>2, <2>3 DEF Reads
<1>2. worker' \in [Workers -> {Idle} \cup Claimed \cup Fetching]
    BY <1>1, WorkerSet
<1> QED BY <1>2 DEF Reads, ReadCache, FetchAsset, FetchCloses, TypeOK

LEMMA PriceTyped ==
    ASSUME TypeOK, NEW d \in Days
    PROVE  prices[d] = NoPrice \/ prices[d] \in Price
    BY DEF TypeOK

LEMMA OlderTyped ==
    ASSUME NEW price \in Price, NEW age \in {"minute", "day"}
    PROVE  /\ Older(price, age) \in Price
           /\ Older(price, age).close = price.close
           /\ Older(price, age).age = "never" <=> price.age = "never"
    BY DEF Older, Price, Ages

(* A day that passes changes the age of what a worker found, nothing else. *)
LEMMA AgedTyped ==
    ASSUME NEW me \in {Idle} \cup Claimed \cup Fetching
    PROVE  /\ Aged(me) \in {Idle} \cup Claimed \cup Fetching
           /\ Aged(me).pc = me.pc
           /\ me.pc \in {"idle", "claimed"} => Aged(me) = me
           /\ me.pc # "idle" => /\ Aged(me).range = me.range
                                /\ Aged(me).lease = me.lease
           /\ me.pc \notin {"idle", "claimed"} =>
                /\ Aged(me).quotes = me.quotes /\ Aged(me).closes = me.closes
                /\ Aged(me).metadata = me.metadata
                /\ Aged(me).found = NoAsset <=> me.found = NoAsset
                /\ me.found # NoAsset => Aged(me).found.splits = me.found.splits
<1>1. CASE me \in Fetching /\ me.found # NoAsset
    <2> DEFINE older == Older(me.found, "day")
    <2>1. older \in Asset /\ older.splits = me.found.splits
        BY <1>1 DEF Older, Fetching, Asset, Ages
    <2>2. Aged(me) = [me EXCEPT !.found = older]
        BY <1>1 DEF Aged, Fetching
    <2> HIDE DEF older
    <2>3. [me EXCEPT !.found = older] \in Fetching
        BY <1>1, <2>1 DEF Fetching
    <2> QED BY <1>1, <2>1, <2>2, <2>3, NullsAssumption DEF Fetching
<1>2. CASE ~(me \in Fetching /\ me.found # NoAsset)
    <2>1. Aged(me) = me
        BY <1>2 DEF Aged, Idle, Claimed, Fetching
    <2> QED BY <2>1
<1> QED BY <1>1, <1>2

LEMMA DoubtTyped ==
    ASSUME NEW price \in Price \cup {NoPrice}, NEW changed \in BOOLEAN
    PROVE  /\ InDoubt(price, changed) \in Price \cup {NoPrice}
           /\ changed => ~Verified(InDoubt(price, changed))
           /\ ~changed => InDoubt(price, changed) = price
<1>1. CASE changed /\ price # NoPrice
    <2>1. InDoubt(price, changed) = [price EXCEPT !.age = "never"]
        BY <1>1 DEF InDoubt
    <2>2. /\ [price EXCEPT !.age = "never"] \in Price
          /\ [price EXCEPT !.age = "never"].age = "never"
        BY <1>1 DEF Price, Ages
    <2> QED BY <1>1, <2>1, <2>2 DEF Verified
<1>2. CASE ~(changed /\ price # NoPrice)
    BY <1>2 DEF InDoubt, Verified
<1> QED BY <1>1, <1>2

(* What a worker stores for a day of its range and for any other.          *)
Changed(w) ==
    worker[w].found.splits #
        (IF worker[w].metadata = NoAsset THEN 0 ELSE worker[w].metadata.splits)

Stored(w, d) ==
    [close |-> IF worker[w].closes[d] # NoClose THEN worker[w].closes[d]
               ELSE Kept(worker[w].quotes[d], Changed(w)),
     age |-> "new"]

LEMMA StoreSteps ==
    ASSUME TypeOK, FoundInv, NEW w \in Workers, Store(w)
    PROVE  /\ worker[w] \in Fetching /\ worker[w].found \in Asset
           /\ asset' = worker[w].found
           /\ prices' \in [Days -> Price \cup {NoPrice}]
           /\ \A d \in In(worker[w].range) : prices'[d] = Stored(w, d)
           /\ \A d \in Days \ In(worker[w].range) : prices'[d] = InDoubt(prices[d], Changed(w))
<1>1. worker[w] \in Fetching /\ worker[w].pc = "storing"
    BY WorkerTyped DEF Store
<1>2. worker[w].found \in Asset
    BY <1>1 DEF Fetching, FoundInv
<1>3. /\ asset' = worker[w].found
      /\ prices' = [d \in Days |-> IF d \in In(worker[w].range) THEN Stored(w, d)
                                   ELSE InDoubt(prices[d], Changed(w))]
    BY DEF Store, Stored, Changed
<1>4. \A d \in Days : d \in In(worker[w].range) => Stored(w, d) \in Price
    <2> TAKE d \in Days
    <2>1. /\ worker[w].quotes[d] \in Price \cup {NoPrice}
          /\ worker[w].closes[d] \in Close \cup {NoClose}
        BY <1>1 DEF Fetching
    <2> QED BY <2>1 DEF Stored, Kept, Verified, Price, Ages
<1>5. \A d \in Days : InDoubt(prices[d], Changed(w)) \in Price \cup {NoPrice}
    <2>1. Changed(w) \in BOOLEAN
        BY DEF Changed
    <2> QED BY <2>1, PriceTyped, DoubtTyped
<1>6. In(worker[w].range) \subseteq Days
    BY DEF In
<1> HIDE DEF Stored, InDoubt, Changed
<1> QED BY <1>1, <1>2, <1>3, <1>4, <1>5, <1>6

LEMMA StoreTyped ==
    ASSUME TypeOK, FoundInv, NEW w \in Workers, Store(w),
           jobs[worker[w].range] # NoJob
    PROVE  TypeOK'
<1> DEFINE row == [jobs[worker[w].range] EXCEPT !.status = "done", !.lease = 0, !.due = "due"]
<1>1. worker[w].range \in Ranges
    BY WorkerTyped DEF Store
<1>2. row \in Job
    BY <1>1, JobTyped DEF Job
<1>3. jobs' = [jobs EXCEPT ![worker[w].range] = row] /\ worker' = [worker EXCEPT ![w] = Idle]
    BY DEF Store, Return
<1> HIDE DEF row
<1>4. jobs' \in [Ranges -> Job \cup {NoJob}]
    BY <1>1, <1>2, <1>3 DEF TypeOK
<1>5. worker' \in [Workers -> {Idle} \cup Claimed \cup Fetching]
    BY <1>3, WorkerSet
<1>6. asset' \in Asset /\ prices' \in [Days -> Price \cup {NoPrice}]
    BY StoreSteps
<1> QED BY <1>4, <1>5, <1>6 DEF Store, TypeOK

LEMMA EndTyped ==
    ASSUME TypeOK, NEW w \in Workers, Fail(w) \/ Discard(w) \/ Crash(w),
           jobs[worker[w].range] # NoJob
    PROVE  TypeOK'
<1>1. worker' = [worker EXCEPT ![w] = Idle]
    BY DEF Fail, Discard, Crash, Return
<1>2. worker' \in [Workers -> {Idle} \cup Claimed \cup Fetching]
    BY <1>1, WorkerSet
<1>3. jobs' \in [Ranges -> Job \cup {NoJob}]
    <2>1. CASE Fail(w)
        <3> DEFINE status == IF worker[w].attempts >= MAX_ATTEMPTS THEN "failed" ELSE "queued"
                   row == [jobs[worker[w].range] EXCEPT !.lease = 0, !.due = "wait",
                                                        !.status = status]
        <3>1. worker[w].range \in Ranges
            BY <2>1, WorkerTyped DEF Fail
        <3>2. status \in {"failed", "queued"}
            OBVIOUS
        <3>3. jobs' = [jobs EXCEPT ![worker[w].range] = row] \/ jobs' = jobs
            BY <2>1 DEF Fail
        <3> HIDE DEF status
        <3>4. row \in Job
            BY <3>1, <3>2, JobTyped DEF Job
        <3> HIDE DEF row
        <3> QED BY <3>1, <3>3, <3>4 DEF TypeOK
    <2>2. CASE Discard(w) \/ Crash(w)
        BY <2>2 DEF Discard, Crash, TypeOK
    <2> QED BY <2>1, <2>2
<1>4. crashes' \in Nat
    BY DEF Fail, Discard, Crash, TypeOK
<1> QED BY <1>2, <1>3, <1>4 DEF Fail, Discard, Crash, TypeOK

LEMMA PassTyped ==
    ASSUME TypeOK, NEW r \in Ranges, jobs[r] # NoJob, Pass(r)
    PROVE  jobs' \in [Ranges -> Job \cup {NoJob}]
<1> DEFINE due == IF jobs[r].status = "failed" /\ jobs[r].due = "wait" THEN "retry" ELSE "due"
           row == [jobs[r] EXCEPT !.due = due]
<1>1. due \in {"retry", "due"}
    OBVIOUS
<1>2. jobs' = [jobs EXCEPT ![r] = row]
    BY JobTyped DEF Pass, TypeOK, Job
<1> HIDE DEF due
<1>3. row \in Job
    BY <1>1, JobTyped DEF Job
<1> HIDE DEF row
<1> QED BY <1>2, <1>3 DEF TypeOK

LEMMA DayPasses ==
    ASSUME TypeOK, Day, NEW w \in Workers
    PROVE  /\ worker'[w].pc = worker[w].pc
           /\ worker[w].pc # "idle" => /\ worker'[w].range = worker[w].range
                                       /\ worker'[w].lease = worker[w].lease
           /\ worker[w].pc \notin {"idle", "claimed"} =>
                /\ worker'[w].quotes = worker[w].quotes /\ worker'[w].closes = worker[w].closes
                /\ worker'[w].metadata = worker[w].metadata
                /\ worker'[w].found = NoAsset <=> worker[w].found = NoAsset
                /\ worker[w].found # NoAsset => worker'[w].found.splits = worker[w].found.splits
<1>1. worker[w] \in {Idle} \cup Claimed \cup Fetching /\ worker'[w] = Aged(worker[w])
    BY DEF Day, TypeOK
<1> QED BY <1>1, AgedTyped

LEMMA TimeTyped ==
    ASSUME TypeOK, Time
    PROVE  TypeOK'
<1>1. ASSUME NEW r \in Ranges, Elapse(r) \/ ElapseLate(r) PROVE TypeOK'
    <2>1. jobs' \in [Ranges -> Job \cup {NoJob}]
        BY <1>1, PassTyped DEF Elapse, ElapseLate
    <2>2. late' \in Nat
        BY <1>1 DEF Elapse, ElapseLate, TypeOK
    <2> QED BY <1>1, <2>1, <2>2 DEF Elapse, ElapseLate, TypeOK
<1>2. CASE Minute
    <2>1. prices' \in [Days -> Price \cup {NoPrice}]
        BY <1>2, PriceTyped, OlderTyped DEF Minute
    <2> QED BY <1>2, <2>1 DEF Minute, TypeOK
<1>3. CASE Day
    <2>1. prices' \in [Days -> Price \cup {NoPrice}]
        BY <1>3, PriceTyped, OlderTyped DEF Day
    <2>2. asset' \in Asset
        BY <1>3 DEF Day, TypeOK, Asset, Ages
    <2>3. worker' \in [Workers -> {Idle} \cup Claimed \cup Fetching]
        <3>1. \A w \in Workers : Aged(worker[w]) \in {Idle} \cup Claimed \cup Fetching
            BY AgedTyped DEF TypeOK
        <3> QED BY <1>3, <3>1 DEF Day
    <2> QED BY <1>3, <2>1, <2>2, <2>3 DEF Day, TypeOK
<1>4. CASE Split
    BY <1>4 DEF Split, TypeOK
<1> QED BY <1>1, <1>2, <1>3, <1>4 DEF Time

-----------------------------------------------------------------------------
(* Leases.                                                                 *)

(* The row of a range changes and nothing else of the table.               *)
LEMMA RowChanges ==
    ASSUME TypeOK, NEW r \in Ranges, NEW row, jobs' = [jobs EXCEPT ![r] = row]
    PROVE  jobs'[r] = row /\ \A x \in Ranges : x # r => jobs'[x] = jobs[x]
    BY DEF TypeOK

(* A worker that returns is not busy, the others are as they were.         *)
LEMMA Returns ==
    ASSUME TypeOK, NEW w \in Workers, Return(w)
    PROVE  /\ Busy' = Busy \ {w}
           /\ \A v \in Busy' : worker'[v] = worker[v]
<1>1. worker'[w].pc = "idle" /\ \A v \in Workers \ {w} : worker'[v] = worker[v]
    BY DEF Return, TypeOK, Idle
<1> QED BY <1>1 DEF Busy

(* Without a late fetch, who is overdue was overdue.                       *)
LEMMA OverdueShrinks ==
    ASSUME TypeOK, OverdueInv, Overdue' \subseteq Overdue, late' = late
    PROVE  OverdueInv'
<1>1. IsFiniteSet(Overdue') /\ Cardinality(Overdue') <= Cardinality(Overdue)
    BY FS_Subset DEF OverdueInv
<1>2. Cardinality(Overdue') \in Nat /\ Cardinality(Overdue) \in Nat
    BY <1>1, FS_CardinalityType DEF OverdueInv
<1>3. Cardinality(Overdue') <= late'
    BY <1>1, <1>2 DEF OverdueInv, TypeOK
<1> QED BY <1>1, <1>3 DEF OverdueInv

(* Queueing touches no job that a worker still holds the lease of.         *)
LEMMA QueueKeepsLeases ==
    ASSUME TypeOK, LeaseInv, NEW r \in Ranges, Queue(r),
           jobs[r] = NoJob \/ jobs[r].status # "running"
    PROVE  LeaseInv' /\ Overdue' \subseteq Overdue
<1> DEFINE row == [id |-> IF jobs[r] = NoJob THEN NextId ELSE jobs[r].id, status |-> "queued",
                   attempts |-> 0, due |-> "due", lease |-> 0]
<1>1. worker' = worker /\ claims' = claims /\ jobs' = [jobs EXCEPT ![r] = row]
    BY DEF Queue
<1>2. row.status = "queued" /\ row # NoJob
    <2>1. jobs'[r] = row
        BY <1>1 DEF TypeOK
    <2>2. row \in Job
        <3>1. jobs'[r] \in Job
            BY QueueTyped
        <3> QED BY <2>1, <3>1
    <2>3. row.status = "queued"
        OBVIOUS
    <2> HIDE DEF row
    <2> QED BY <2>2, <2>3, NullsAssumption
<1> HIDE DEF row
<1>3. jobs'[r] = row /\ \A x \in Ranges : x # r => jobs'[x] = jobs[x]
    BY <1>1, RowChanges
<1>4. \A w \in Busy : worker[w].range \in Ranges
    BY WorkerTyped DEF Busy
<1>5. Busy' = Busy
    BY <1>1 DEF Busy
<1>6. LeaseInv'
    BY <1>1, <1>2, <1>3, <1>4, <1>5 DEF LeaseInv
<1>7. \A w \in Busy : worker[w].range = r => ~HoldsLease(w)
    BY DEF LeaseInv, HoldsLease
<1>8. \A w \in Busy : worker[w].range # r =>
          /\ HoldsLease(w)' <=> HoldsLease(w)
          /\ jobs'[worker'[w].range] = jobs[worker[w].range]
    BY <1>1, <1>3, <1>4 DEF HoldsLease
<1>9. ASSUME NEW w \in Overdue' PROVE w \in Overdue
    <2>1. w \in Busy
        BY <1>5 DEF Overdue
    <2>2. CASE worker[w].range = r
        BY <1>7, <2>1, <2>2 DEF Overdue
    <2>3. CASE worker[w].range # r
        BY <1>8, <2>1, <2>3 DEF Overdue
    <2> QED BY <2>2, <2>3
<1> QED BY <1>6, <1>9

(* A claim finds the workers of its job overdue already.                   *)
LEMMA ClaimKeepsLeases ==
    ASSUME TypeOK, LeaseInv, NEW w \in Workers, Claim(w)
    PROVE  LeaseInv' /\ Overdue' \subseteq Overdue
<1>1. PICK r \in Ranges :
        /\ Claimable(r)
        /\ claims' = claims + 1
        /\ jobs' = [jobs EXCEPT ![r] = [@ EXCEPT !.status = "running", !.due = "wait",
                            !.attempts = jobs[r].attempts + 1, !.lease = claims + 1]]
        /\ worker' = [worker EXCEPT ![w] = [pc |-> "claimed", range |-> r,
                            lease |-> claims + 1, attempts |-> jobs[r].attempts + 1]]
    BY DEF Claim
<1>2. jobs[r] \in Job /\ jobs[r].due = "due" /\ claims \in Nat
    BY <1>1, JobTyped DEF Claimable, TypeOK
<1> DEFINE row == [jobs[r] EXCEPT !.status = "running", !.due = "wait",
                            !.attempts = jobs[r].attempts + 1, !.lease = claims + 1]
           me == [pc |-> "claimed", range |-> r,
                  lease |-> claims + 1, attempts |-> jobs[r].attempts + 1]
<1>3. row.status = "running" /\ row.due = "wait" /\ row.lease = claims + 1
    BY <1>2 DEF Job
<1>4. me.pc = "claimed" /\ me.range = r /\ me.lease = claims + 1
    OBVIOUS
<1>5. jobs' = [jobs EXCEPT ![r] = row] /\ worker' = [worker EXCEPT ![w] = me]
    BY <1>1
<1>6. row # NoJob
    <2>1. TypeOK'
        BY ClaimTyped
    <2>2. jobs'[r] = row
        BY <1>5 DEF TypeOK
    <2>3. jobs[r].attempts + 1 \in Nat /\ claims + 1 \in Nat
        BY <1>2 DEF Job
    <2>4. row \in Job
        BY <1>2, <2>3 DEF Job
    <2> QED BY <2>4, NullsAssumption
<1> HIDE DEF row, me
<1>7. jobs'[r] = row /\ \A x \in Ranges : x # r => jobs'[x] = jobs[x]
    BY <1>5, RowChanges
<1>8. worker'[w] = me /\ \A v \in Workers \ {w} : worker'[v] = worker[v]
    BY <1>5 DEF TypeOK
<1>9. w \notin Busy /\ Busy' = Busy \cup {w}
    <2>1. worker[w].pc = "idle"
        BY DEF Claim, Idle
    <2> QED BY <1>4, <1>8, <2>1 DEF Busy
<1>10. \A v \in Busy : worker[v].range \in Ranges /\ v # w /\ worker'[v] = worker[v]
    BY <1>8, <1>9, WorkerTyped DEF Busy
<1>11. LeaseInv'
    <2>1. \A v \in Busy : worker[v].lease <= claims /\ worker[v].lease \in Nat \ {0}
        BY <1>2 DEF LeaseInv
    <2>2. ASSUME NEW v \in Busy' PROVE worker'[v].lease \in 1 .. claims' /\ jobs'[worker'[v].range] # NoJob
        <3>1. CASE v = w
            <4>1. worker'[v].lease \in 1 .. claims'
                BY <1>1, <1>2, <1>4, <1>8, <3>1
            <4> QED BY <1>4, <1>6, <1>7, <1>8, <3>1, <4>1
        <3>2. CASE v \in Busy
            <4>1. worker'[v].lease \in 1 .. claims'
                BY <1>1, <1>2, <1>10, <2>1, <3>2
            <4>2. jobs'[worker'[v].range] # NoJob
                BY <1>6, <1>7, <1>10, <3>2 DEF LeaseInv
            <4> QED BY <4>1, <4>2
        <3> QED BY <1>9, <3>1, <3>2
    <2>3. ASSUME NEW u \in Busy', NEW v \in Busy', worker'[u].lease = worker'[v].lease PROVE u = v
        <3>1. \A x \in Busy : worker'[x].lease # worker'[w].lease
            BY <1>2, <1>4, <1>8, <1>10, <2>1
        <3> QED BY <1>9, <1>10, <2>3, <3>1 DEF LeaseInv
    <2> QED BY <2>2, <2>3 DEF LeaseInv
<1>12. ASSUME NEW v \in Overdue' PROVE v \in Overdue
    <2>1. v \in Busy' /\ (~HoldsLease(v)' \/ jobs'[worker'[v].range].due = "due")
        BY DEF Overdue
    <2>2. v # w
        BY <1>3, <1>4, <1>7, <1>8, <2>1 DEF HoldsLease
    <2>3. v \in Busy /\ worker'[v] = worker[v]
        BY <1>9, <1>10, <2>1, <2>2
    <2>4. CASE worker[v].range = r
        BY <1>2, <2>3, <2>4 DEF Overdue
    <2>5. CASE worker[v].range # r
        BY <1>7, <1>10, <2>1, <2>3, <2>5 DEF Overdue, HoldsLease
    <2> QED BY <2>4, <2>5
<1> QED BY <1>11, <1>12

(* Whoever stores an answer, fails, gives up or dies leaves the others as  *)
(* overdue as they were.                                                   *)
LEMMA EndKeepsLeases ==
    ASSUME TypeOK, LeaseInv, NEW w \in Workers, worker[w].pc # "idle", Return(w), claims' = claims,
           \/ jobs' = jobs
           \/ HoldsLease(w) /\ \E row \in Job : jobs' = [jobs EXCEPT ![worker[w].range] = row]
    PROVE  LeaseInv' /\ Overdue' \subseteq Overdue
<1>1. /\ Busy' = Busy \ {w}
      /\ \A v \in Busy' : worker'[v] = worker[v]
    BY Returns
<1>2. \A v \in Busy : worker[v].range \in Ranges
    BY WorkerTyped DEF Busy
<1>3. w \in Busy
    BY DEF Busy
<1>4. CASE jobs' = jobs
    BY <1>1, <1>4 DEF LeaseInv, Overdue, HoldsLease
<1>5. ASSUME HoldsLease(w), NEW row \in Job, jobs' = [jobs EXCEPT ![worker[w].range] = row]
      PROVE  LeaseInv' /\ Overdue' \subseteq Overdue
    <2>1. /\ jobs'[worker[w].range] = row
          /\ \A x \in Ranges : x # worker[w].range => jobs'[x] = jobs[x]
        BY <1>2, <1>3, <1>5, RowChanges
    <2>2. row # NoJob
        BY NullsAssumption
    <2>3. LeaseInv'
        BY <1>1, <1>2, <2>1, <2>2 DEF LeaseInv
    <2>4. ASSUME NEW v \in Overdue' PROVE v \in Overdue
        <3>1. v \in Busy /\ v # w /\ worker'[v] = worker[v]
            BY <1>1 DEF Overdue
        <3>2. CASE worker[v].range = worker[w].range
            BY <1>3, <1>5, <3>1, <3>2 DEF LeaseInv, HoldsLease, Overdue
        <3>3. CASE worker[v].range # worker[w].range
            BY <1>2, <2>1, <3>1, <3>3 DEF Overdue, HoldsLease
        <3> QED BY <3>2, <3>3
    <2> QED BY <2>3, <2>4
<1> QED BY <1>4, <1>5

(* The end of a lease in which nobody works makes nobody late; a fetch     *)
(* that takes longer makes the one worker late that holds the lease.       *)
LEMMA PassKeepsLeases ==
    ASSUME TypeOK, LeaseInv, NEW r \in Ranges, jobs[r] # NoJob, Pass(r),
           worker' = worker, claims' = claims
    PROVE  /\ LeaseInv'
           /\ Overdue' \subseteq
                Overdue \cup {w \in Busy : worker[w].range = r /\ HoldsLease(w)}
<1> DEFINE due == IF jobs[r].status = "failed" /\ jobs[r].due = "wait" THEN "retry" ELSE "due"
           row == [jobs[r] EXCEPT !.due = due]
<1>1. jobs' = [jobs EXCEPT ![r] = row]
    BY JobTyped DEF Pass, TypeOK, Job
<1>2. jobs[r] \in Job /\ due \in {"retry", "due"}
    BY JobTyped
<1> HIDE DEF due
<1>3. row \in Job /\ row.status = jobs[r].status /\ row.lease = jobs[r].lease
    BY <1>2 DEF Job
<1> HIDE DEF row
<1>4. jobs'[r] = row /\ \A x \in Ranges : x # r => jobs'[x] = jobs[x]
    BY <1>1, RowChanges
<1>5. Busy' = Busy /\ \A w \in Busy : worker[w].range \in Ranges
    BY WorkerTyped DEF Busy
<1>6. row # NoJob
    BY <1>3, NullsAssumption
<1>7. LeaseInv'
    BY <1>4, <1>5, <1>6 DEF LeaseInv
<1>8. \A w \in Busy : HoldsLease(w)' <=> HoldsLease(w)
    BY <1>3, <1>4, <1>5 DEF HoldsLease
<1>9. ASSUME NEW w \in Overdue', w \notin Overdue PROVE worker[w].range = r /\ HoldsLease(w)
    <2>1. w \in Busy /\ HoldsLease(w) /\ HoldsLease(w)' /\ jobs[worker[w].range].due # "due"
        BY <1>5, <1>8, <1>9 DEF Overdue
    <2>2. jobs'[worker[w].range].due = "due"
        BY <1>9, <2>1 DEF Overdue
    <2> QED BY <1>4, <1>5, <2>1, <2>2
<1>10. Overdue' \subseteq Busy
    BY <1>5 DEF Overdue
<1> QED BY <1>7, <1>9, <1>10

LEMMA ElapseKeepsLeases ==
    ASSUME TypeOK, LeaseInv, NEW r \in Ranges, Elapse(r)
    PROVE  LeaseInv' /\ Overdue' \subseteq Overdue
<1>1. {w \in Busy : worker[w].range = r /\ HoldsLease(w)} = {}
    BY DEF Elapse, AtWork, HoldsLease
<1>2. Pass(r) /\ jobs[r] # NoJob /\ worker' = worker /\ claims' = claims
    BY DEF Elapse
<1> QED BY <1>1, <1>2, PassKeepsLeases

LEMMA LateKeepsLeases ==
    ASSUME TypeOK, LeaseInv, OverdueInv, NEW r \in Ranges, ElapseLate(r)
    PROVE  LeaseInv' /\ OverdueInv'
<1>1. Pass(r) /\ jobs[r] # NoJob /\ worker' = worker /\ claims' = claims /\ late' = late + 1
    BY DEF ElapseLate
<1>2. PICK w \in Busy : worker[w].lease = jobs[r].lease
    BY DEF ElapseLate, AtWork
<1>3. {v \in Busy : worker[v].range = r /\ HoldsLease(v)} \subseteq {w}
    BY <1>2 DEF LeaseInv, HoldsLease
<1>4. LeaseInv' /\ Overdue' \subseteq Overdue \cup {w}
    BY <1>1, <1>3, PassKeepsLeases
<1>5. /\ IsFiniteSet(Overdue \cup {w})
      /\ Cardinality(Overdue \cup {w}) <= Cardinality(Overdue) + 1
      /\ Cardinality(Overdue) \in Nat
    <2>1. Cardinality(Overdue) \in Nat
        BY FS_CardinalityType DEF OverdueInv
    <2>2. /\ IsFiniteSet(Overdue \cup {w})
          /\ \/ Cardinality(Overdue \cup {w}) = Cardinality(Overdue)
             \/ Cardinality(Overdue \cup {w}) = Cardinality(Overdue) + 1
        BY FS_AddElement DEF OverdueInv
    <2> QED BY <2>1, <2>2
<1>6. IsFiniteSet(Overdue') /\ Cardinality(Overdue') <= Cardinality(Overdue \cup {w})
    BY <1>4, <1>5, FS_Subset
<1>7. Cardinality(Overdue') \in Nat /\ Cardinality(Overdue \cup {w}) \in Nat
    BY <1>5, <1>6, FS_CardinalityType
<1>8. Cardinality(Overdue) <= late /\ late \in Nat
    BY DEF OverdueInv, TypeOK
<1>9. Cardinality(Overdue') <= late'
    BY <1>1, <1>5, <1>6, <1>7, <1>8
<1> QED BY <1>4, <1>6, <1>9 DEF OverdueInv

(* What is planned leaves out the days of every job that waits or runs.    *)
LEMMA EnqueueSpares ==
    ASSUME NEW wanted \in SUBSET Days, NEW retry \in BOOLEAN, Enqueue(wanted, retry)
    PROVE  \E r \in Ranges : Queue(r) /\ ~Pending(jobs[r], retry)
<1> DEFINE missing == Missing(wanted, retry) \ Planned(retry)
           r == <<Min(missing), Max(missing)>>
<1>1. missing \subseteq Days /\ missing # {} /\ Queue(r)
    BY DEF Enqueue, Missing
<1>2. r \in Ranges /\ Min(missing) \in missing /\ Min(missing) \in In(r)
    BY <1>1, RangeOfDays
<1>3. ~Pending(jobs[r], retry)
    <2> SUFFICES ASSUME Pending(jobs[r], retry) PROVE FALSE
        OBVIOUS
    <2>1. Min(missing) \in Planned(retry)
        BY <1>2 DEF Planned
    <2> QED BY <1>2, <2>1
<1> QED BY <1>1, <1>2, <1>3

(* Every step but a late fetch leaves late as it is.                       *)
LEMMA LeaseStep ==
    ASSUME TypeOK, LeaseInv, OverdueInv, FoundInv, [Next]_vars
    PROVE  TypeOK' /\ LeaseInv' /\ OverdueInv'
<1>1. CASE UNCHANGED vars
    BY <1>1 DEF vars, TypeOK, LeaseInv, OverdueInv, Overdue, Busy, HoldsLease
<1>2. ASSUME NEW r \in Ranges, Queue(r), jobs[r] = NoJob \/ jobs[r].status # "running"
      PROVE  TypeOK' /\ LeaseInv' /\ OverdueInv'
    <2>1. late' = late
        BY <1>2 DEF Queue
    <2> QED BY <1>2, <2>1, QueueTyped, QueueKeepsLeases, OverdueShrinks
<1>3. ASSUME NEW wanted \in SUBSET Days, NEW retry \in BOOLEAN, Enqueue(wanted, retry)
      PROVE  TypeOK' /\ LeaseInv' /\ OverdueInv'
    <2>1. PICK r \in Ranges : Queue(r) /\ ~Pending(jobs[r], retry)
        BY <1>3, EnqueueSpares
    <2> QED BY <1>2, <2>1 DEF Pending
<1>4. CASE EnqueueAsset
    <2>1. AssetOnly \in Ranges /\ Queue(AssetOnly) /\ ~Pending(jobs[AssetOnly], FALSE)
        BY <1>4 DEF EnqueueAsset, Ranges
    <2> QED BY <1>2, <2>1 DEF Pending
<1>5. ASSUME NEW w \in Workers, Claim(w) PROVE TypeOK' /\ LeaseInv' /\ OverdueInv'
    <2>1. late' = late
        BY <1>5 DEF Claim
    <2> QED BY <1>5, <2>1, ClaimTyped, ClaimKeepsLeases, OverdueShrinks
<1>6. ASSUME NEW w \in Workers, Reads(w)
      PROVE  TypeOK' /\ LeaseInv' /\ OverdueInv'
    <2>1. TypeOK'
        BY <1>6, ReadTyped
    <2>2. /\ worker'[w].range = worker[w].range /\ worker'[w].lease = worker[w].lease
          /\ worker'[w].pc # "idle" /\ worker[w].pc # "idle"
        <3>1. CASE ReadCache(w)
            BY <3>1 DEF ReadCache, Read, TypeOK
        <3>2. CASE FetchAsset(w)
            <4>1. worker[w] \in Fetching
                BY <3>2, WorkerTyped DEF FetchAsset
            <4> QED BY <3>2, <4>1 DEF FetchAsset, TypeOK, Fetching
        <3>3. ASSUME NEW answered \in SUBSET Days, FetchCloses(w, answered)
              PROVE  /\ worker'[w].range = worker[w].range /\ worker'[w].lease = worker[w].lease
                     /\ worker'[w].pc # "idle" /\ worker[w].pc # "idle"
            <4>1. worker[w] \in Fetching
                BY <3>3, WorkerTyped DEF FetchCloses
            <4> QED BY <3>3, <4>1 DEF FetchCloses, TypeOK, Fetching
        <3> QED BY <1>6, <3>1, <3>2, <3>3 DEF Reads
    <2>3. \A v \in Workers : v # w => worker'[v] = worker[v]
        BY <1>6 DEF Reads, ReadCache, Read, FetchAsset, FetchCloses, TypeOK
    <2>4. jobs' = jobs /\ claims' = claims /\ late' = late
        BY <1>6 DEF Reads, ReadCache, FetchAsset, FetchCloses
    <2>5. Busy' = Busy
        BY <2>2, <2>3 DEF Busy
    <2>6. \A v \in Busy : worker'[v].range = worker[v].range /\ worker'[v].lease = worker[v].lease
        BY <2>2, <2>3 DEF Busy
    <2>7. LeaseInv' /\ Overdue' = Overdue
        BY <2>4, <2>5, <2>6 DEF LeaseInv, Overdue, HoldsLease
    <2> QED BY <2>1, <2>4, <2>7, OverdueShrinks
<1>7. ASSUME NEW w \in Workers, Store(w)
      PROVE  TypeOK' /\ LeaseInv' /\ OverdueInv'
    <2>1. worker[w].pc # "idle" /\ Return(w) /\ claims' = claims /\ late' = late
        BY <1>7 DEF Store
    <2>2. worker[w].range \in Ranges /\ jobs[worker[w].range] # NoJob
        BY <2>1, WorkerTyped DEF LeaseInv, Busy
    <2>3. \E row \in Job : jobs' = [jobs EXCEPT ![worker[w].range] = row]
        <3> DEFINE row == [jobs[worker[w].range] EXCEPT !.status = "done", !.lease = 0, !.due = "due"]
        <3>1. row \in Job
            BY <2>2, JobTyped DEF Job
        <3>2. jobs' = [jobs EXCEPT ![worker[w].range] = row]
            BY <1>7 DEF Store
        <3> QED BY <3>1, <3>2
    <2>4. TypeOK'
        BY <1>7, <2>2, StoreTyped
    <2>5. HoldsLease(w)
        BY <1>7 DEF Store
    <2>6. LeaseInv' /\ Overdue' \subseteq Overdue
        BY <2>1, <2>3, <2>5, EndKeepsLeases
    <2> QED BY <2>1, <2>4, <2>6, OverdueShrinks
<1>8. ASSUME NEW w \in Workers, Fail(w) \/ Discard(w) \/ Crash(w)
      PROVE  TypeOK' /\ LeaseInv' /\ OverdueInv'
    <2>1. worker[w].pc # "idle" /\ Return(w) /\ claims' = claims /\ late' = late
        BY <1>8 DEF Fail, Discard, Crash
    <2>2. worker[w].range \in Ranges /\ jobs[worker[w].range] # NoJob
        BY <2>1, WorkerTyped DEF LeaseInv, Busy
    <2>3. \/ jobs' = jobs
          \/ HoldsLease(w) /\ \E row \in Job : jobs' = [jobs EXCEPT ![worker[w].range] = row]
        <3> DEFINE status == IF worker[w].attempts >= MAX_ATTEMPTS THEN "failed" ELSE "queued"
                   row == [jobs[worker[w].range] EXCEPT !.lease = 0, !.due = "wait",
                                                        !.status = status]
        <3>1. status \in {"failed", "queued"}
            OBVIOUS
        <3>2. \/ jobs' = jobs
              \/ HoldsLease(w) /\ jobs' = [jobs EXCEPT ![worker[w].range] = row]
            BY <1>8 DEF Fail, Discard, Crash
        <3> HIDE DEF status
        <3>3. row \in Job
            BY <2>2, <3>1, JobTyped DEF Job
        <3> HIDE DEF row
        <3> QED BY <3>2, <3>3
    <2>4. TypeOK'
        BY <1>8, <2>2, EndTyped
    <2>5. LeaseInv' /\ Overdue' \subseteq Overdue
        BY <2>1, <2>3, EndKeepsLeases
    <2> QED BY <2>1, <2>4, <2>5, OverdueShrinks
<1>9. CASE Time
    <2>1. TypeOK'
        BY <1>9, TimeTyped
    <2>2. ASSUME NEW r \in Ranges, Elapse(r) PROVE LeaseInv' /\ OverdueInv'
        <3>1. late' = late
            BY <2>2 DEF Elapse
        <3> QED BY <2>2, <3>1, ElapseKeepsLeases, OverdueShrinks
    <2>3. ASSUME NEW r \in Ranges, ElapseLate(r) PROVE LeaseInv' /\ OverdueInv'
        BY <2>3, LateKeepsLeases
    <2>4. CASE Minute \/ Day \/ Split
        <3>1. jobs' = jobs /\ claims' = claims /\ late' = late
            BY <2>4 DEF Minute, Day, Split
        <3>2. /\ Busy' = Busy
              /\ \A w \in Busy : worker'[w].range = worker[w].range
                               /\ worker'[w].lease = worker[w].lease
            <4>1. CASE worker' = worker
                BY <4>1 DEF Busy
            <4>2. CASE Day
                BY <4>2, DayPasses DEF Busy
            <4> QED BY <2>4, <4>1, <4>2 DEF Minute, Split
        <3>3. LeaseInv' /\ Overdue' = Overdue
            BY <3>1, <3>2 DEF LeaseInv, Overdue, HoldsLease
        <3> QED BY <2>1, <3>1, <3>3, OverdueShrinks
    <2> QED BY <1>9, <2>1, <2>2, <2>3, <2>4 DEF Time
<1>10. ASSUME NEW w \in Workers, Sleep(w) PROVE TypeOK' /\ LeaseInv' /\ OverdueInv'
    BY <1>1, <1>10 DEF Sleep
<1> QED BY <1>1, <1>3, <1>4, <1>5, <1>6, <1>7, <1>8, <1>9, <1>10 DEF Next, Work, Reads

-----------------------------------------------------------------------------
(* What was read.                                                          *)

(* Until a fetch is late nobody is overdue: who is busy, collects.         *)
LEMMA NobodyOverdue ==
    ASSUME TypeOK, OverdueInv, late = 0
    PROVE  \A w \in Busy : HoldsLease(w) /\ jobs[worker[w].range].due # "due"
<1>1. Cardinality(Overdue) \in Nat
    BY FS_CardinalityType DEF OverdueInv
<1>2. Cardinality(Overdue) = 0
    BY <1>1 DEF OverdueInv
<1>3. Overdue = {}
    BY <1>2, FS_EmptySet DEF OverdueInv
<1> QED BY <1>3 DEF Overdue

(* So a claim, which waits for the end of every lease, finds all idle.     *)
LEMMA ClaimFindsIdle ==
    ASSUME TypeOK, LeaseInv, OverdueInv, late = 0, NEW w \in Workers, Claim(w)
    PROVE  Busy = {}
<1> SUFFICES ASSUME NEW v \in Busy PROVE FALSE
    OBVIOUS
<1>1. HoldsLease(v) /\ jobs[worker[v].range].due # "due"
    BY NobodyOverdue
<1>2. worker[v].range \in Ranges /\ jobs[worker[v].range] # NoJob
    BY WorkerTyped DEF Busy, LeaseInv
<1>3. Collecting(worker[v].range)
    BY <1>1, <1>2 DEF Collecting, HoldsLease
<1> QED BY <1>2, <1>3 DEF Claim

(* Steps of planning and of leases, which no price and no worker sees.     *)
Aside ==
    \/ \E r \in Ranges : Queue(r) \/ Elapse(r) \/ ElapseLate(r)
    \/ Split
    \/ UNCHANGED vars

LEMMA Steps ==
    ASSUME [Next]_vars
    PROVE  \/ Aside
           \/ Minute \/ Day
           \/ \E w \in Workers : Claim(w) \/ Reads(w)
           \/ \E w \in Workers : Fail(w) \/ Discard(w) \/ Crash(w)
           \/ \E w \in Workers : Store(w)
<1>1. ASSUME NEW wanted \in SUBSET Days, NEW retry \in BOOLEAN, Enqueue(wanted, retry) PROVE Aside
    BY <1>1, EnqueueSpares DEF Aside
<1>2. ASSUME EnqueueAsset PROVE Aside
    BY <1>2 DEF EnqueueAsset, Aside, Ranges
<1>3. ASSUME NEW w \in Workers, Sleep(w) PROVE Aside
    BY <1>3 DEF Sleep, Aside
<1>4. ASSUME Time PROVE Aside \/ Minute \/ Day
    BY <1>4 DEF Time, Aside
<1>5. ASSUME UNCHANGED vars PROVE Aside
    BY <1>5 DEF Aside
<1> QED BY <1>1, <1>2, <1>3, <1>4, <1>5 DEF Next, Work, Reads

LEMMA LateStays ==
    ASSUME TypeOK, [Next]_vars, late' = 0
    PROVE  late = 0
<1>1. late \in Nat
    BY DEF TypeOK
<1>2. late' = late \/ late' = late + 1
    <2>1. CASE Aside
        BY <2>1 DEF Aside, Queue, Elapse, ElapseLate, Split, vars
    <2>2. CASE Minute \/ Day
        BY <2>2 DEF Minute, Day
    <2>3. ASSUME NEW w \in Workers, Claim(w) \/ Reads(w) PROVE late' = late
        BY <2>3 DEF Claim, Reads, ReadCache, FetchAsset, FetchCloses
    <2>4. ASSUME NEW w \in Workers, Fail(w) \/ Discard(w) \/ Crash(w) PROVE late' = late
        BY <2>4 DEF Fail, Discard, Crash
    <2>5. ASSUME NEW w \in Workers, Store(w) PROVE late' = late
        BY <2>5 DEF Store
    <2> QED BY <2>1, <2>2, <2>3, <2>4, <2>5, Steps
<1> QED BY <1>1, <1>2

LEMMA AsideSeesNothing ==
    ASSUME Aside
    PROVE  worker' = worker /\ asset' = asset /\ prices' = prices
    BY DEF Aside, Queue, Elapse, ElapseLate, Split, vars

(* Minutes and days change no close and verify none.                       *)
LEMMA AgeKeepsCloses ==
    ASSUME TypeOK, Minute \/ Day
    PROVE  /\ \A d \in Days : /\ Verified(prices'[d]) <=> Verified(prices[d])
                              /\ Verified(prices[d]) => prices'[d].close = prices[d].close
           /\ asset' = NoAsset <=> asset = NoAsset
           /\ asset # NoAsset => asset'.splits = asset.splits
<1>1. ASSUME NEW d \in Days
      PROVE  /\ Verified(prices'[d]) <=> Verified(prices[d])
             /\ Verified(prices[d]) => prices'[d].close = prices[d].close
    <2>1. \/ prices'[d] = prices[d]
          \/ prices[d] # NoPrice /\ \E age \in {"minute", "day"} : prices'[d] = Older(prices[d], age)
        BY DEF Minute, Day
    <2>2. ASSUME prices[d] # NoPrice, NEW age \in {"minute", "day"}, prices'[d] = Older(prices[d], age)
          PROVE  /\ Verified(prices'[d]) <=> Verified(prices[d])
                 /\ Verified(prices[d]) => prices'[d].close = prices[d].close
        <3>1. prices[d] \in Price
            BY <2>2, PriceTyped
        <3>2. prices'[d] \in Price /\ prices'[d] # NoPrice
            BY <2>2, <3>1, OlderTyped, NullsAssumption
        <3> QED BY <2>2, <3>1, <3>2, OlderTyped DEF Verified
    <2> QED BY <2>1, <2>2
<1>2. /\ asset' = NoAsset <=> asset = NoAsset
      /\ asset # NoAsset => asset'.splits = asset.splits
    <2>1. CASE Minute
        BY <2>1 DEF Minute
    <2>2. CASE Day
        <3>1. asset \in Asset
            BY <2>2 DEF Day, TypeOK
        <3>2. [asset EXCEPT !.age = "day"] \in Asset /\ [asset EXCEPT !.age = "day"].splits = asset.splits
            BY <3>1 DEF Asset, Ages
        <3> QED BY <2>2, <3>2, NullsAssumption DEF Day
    <2> QED BY <2>1, <2>2
<1> QED BY <1>1, <1>2

(* What a store that is not late does to closes: the splits it found are   *)
(* undone in them, and a verified one is lost only if these are others     *)
(* than before.                                                            *)
LEMMA StoreFits ==
    ASSUME JobsInv, late = 0, NEW w \in Workers, Store(w)
    PROVE  /\ asset' # NoAsset
           /\ \A d \in Days : Verified(prices'[d]) => prices'[d].close.undone = asset'.splits
           /\ (\E d \in Days : Verified(prices[d]) /\ ~Verified(prices'[d]))
                => asset = NoAsset \/ asset'.splits # asset.splits
<1> DEFINE found == worker[w].found
           metadata == worker[w].metadata
           quotes == worker[w].quotes
           closes == worker[w].closes
           range == worker[w].range
<1>1. /\ worker[w] \in Fetching /\ found \in Asset
      /\ asset' = found
      /\ \A d \in In(range) : prices'[d] = Stored(w, d)
      /\ \A d \in Days \ In(range) : prices'[d] = InDoubt(prices[d], Changed(w))
    BY StoreSteps DEF JobsInv
<1>2. /\ SameSplits(metadata)
      /\ \A d \in In(range) : SameClose(quotes[d], prices[d])
    <2>1. w \in Busy /\ worker[w].pc # "claimed"
        BY DEF Store, Busy
    <2> QED BY <2>1 DEF JobsInv, ReadHolds
<1>3. \A d \in Days : Verified(prices[d]) => asset # NoAsset /\ prices[d].close.undone = asset.splits
    BY DEF JobsInv, UndoneFit
<1>4. asset # NoAsset => (Changed(w) <=> found.splits # asset.splits)
    BY <1>2 DEF Changed, SameSplits
<1>5. found.splits \in Nat /\ found # NoAsset /\ Changed(w) \in BOOLEAN
    BY <1>1, NullsAssumption DEF Asset, Changed
<1>6. \A d \in Days : closes[d] # NoClose => closes[d].undone = found.splits
    BY DEF Store, JobsInv, SplitsInv, Carries
<1> HIDE DEF found, metadata, quotes, closes, range
<1>7. ASSUME NEW d \in In(range)
      PROVE  /\ Verified(prices'[d]) => prices'[d].close.undone = found.splits
             /\ Verified(prices[d]) /\ ~Verified(prices'[d]) => Changed(w)
    <2>1. d \in Days
        BY DEF In
    <2>2. /\ Stored(w, d).age = "new"
          /\ Stored(w, d).close =
                IF closes[d] # NoClose THEN closes[d] ELSE Kept(quotes[d], Changed(w))
        BY DEF Stored, closes, quotes
    <2>3. Stored(w, d) # NoPrice
        <3>1. quotes[d] \in Price \cup {NoPrice} /\ closes[d] \in Close \cup {NoClose}
            BY <1>1, <2>1 DEF Fetching, quotes, closes
        <3>2. Stored(w, d) \in Price
            BY <3>1 DEF Stored, closes, quotes, Kept, Verified, Price, Ages
        <3> QED BY <3>2, NullsAssumption
    <2>4. Verified(Stored(w, d)) <=> Stored(w, d).close # NoClose
        BY <2>2, <2>3 DEF Verified
    <2>5. CASE closes[d] # NoClose
        BY <1>1, <1>6, <2>1, <2>2, <2>4, <2>5
    <2>6. CASE closes[d] = NoClose
        <3>1. SameClose(quotes[d], prices[d])
            BY <1>2
        <3>2. CASE Verified(quotes[d]) /\ ~Changed(w)
            <4>1. Stored(w, d).close = prices[d].close /\ Verified(prices[d])
                BY <2>2, <2>6, <3>1, <3>2 DEF Kept, SameClose
            <4>2. prices[d].close.undone = found.splits
                BY <1>3, <1>4, <2>1, <3>2, <4>1
            <4> QED BY <1>1, <2>4, <4>1, <4>2 DEF Verified
        <3>3. CASE ~(Verified(quotes[d]) /\ ~Changed(w))
            BY <1>1, <2>2, <2>4, <2>6, <3>1, <3>3 DEF Kept, SameClose
        <3> QED BY <3>2, <3>3
    <2> QED BY <2>5, <2>6
<1>8. ASSUME NEW d \in Days \ In(range)
      PROVE  /\ Verified(prices'[d]) => prices'[d].close.undone = found.splits
             /\ Verified(prices[d]) /\ ~Verified(prices'[d]) => Changed(w)
    <2>1. prices[d] \in Price \cup {NoPrice}
        BY DEF JobsInv, TypeOK
    <2>2. /\ Changed(w) => ~Verified(prices'[d])
          /\ ~Changed(w) => prices'[d] = prices[d]
        BY <1>1, <1>5, <2>1, DoubtTyped
    <2> QED BY <1>3, <1>4, <2>2
<1> QED BY <1>1, <1>3, <1>4, <1>5, <1>7, <1>8

(* Whoever ends alone leaves nobody at work.                               *)
LEMMA EndsAlone ==
    ASSUME TypeOK, OneByOne, late = 0, NEW w \in Workers, worker[w].pc # "idle", Return(w)
    PROVE  Busy' = {}
<1>1. Busy \subseteq {w}
    BY DEF OneByOne, Busy
<1> QED BY <1>1, Returns

LEMMA ReadStep ==
    ASSUME JobsInv, late = 0, NEW w \in Workers, Reads(w)
    PROVE  /\ Busy' = Busy
           /\ SameSplits(worker'[w].metadata)
           /\ \A d \in In(worker'[w].range) : SameClose(worker'[w].quotes[d], prices[d])
<1>1. \A v \in Workers : v # w => worker'[v] = worker[v]
    BY DEF Reads, ReadCache, Read, FetchAsset, FetchCloses, JobsInv, TypeOK
<1>2. CASE ReadCache(w)
    <2> DEFINE pc == IF Outdated(asset) THEN "asking" ELSE "fetching"
               quotes == [d \in Days |-> IF d \in In(worker[w].range) THEN prices[d] ELSE NoPrice]
    <2>1. worker'[w] = [pc |-> pc, range |-> worker[w].range, lease |-> worker[w].lease,
                        attempts |-> worker[w].attempts, quotes |-> quotes,
                        metadata |-> asset, found |-> asset,
                        closes |-> [d \in Days |-> NoClose]]
        BY <1>2 DEF ReadCache, Read, JobsInv, TypeOK
    <2>2. pc # "idle" /\ \A d \in In(worker[w].range) : quotes[d] = prices[d]
        BY DEF In
    <2> HIDE DEF pc, quotes
    <2>3. /\ worker'[w].pc = pc /\ worker'[w].range = worker[w].range
          /\ worker'[w].quotes = quotes /\ worker'[w].metadata = asset
        BY <2>1
    <2>4. Busy' = Busy
        BY <1>1, <1>2, <2>2, <2>3 DEF Busy, ReadCache
    <2> QED BY <2>2, <2>3, <2>4 DEF SameSplits, SameClose
<1>3. CASE FetchAsset(w)
    <2>1. worker[w] \in Fetching /\ worker[w].pc = "asking"
        BY <1>3, WorkerTyped DEF FetchAsset, JobsInv
    <2>2. /\ worker'[w].pc = "fetching" /\ worker'[w].range = worker[w].range
          /\ worker'[w].quotes = worker[w].quotes /\ worker'[w].metadata = worker[w].metadata
        BY <1>3, <2>1 DEF FetchAsset, JobsInv, TypeOK, Fetching
    <2>3. Busy' = Busy /\ w \in Busy
        BY <1>1, <2>1, <2>2 DEF Busy
    <2> QED BY <2>1, <2>2, <2>3 DEF JobsInv, ReadHolds
<1>4. ASSUME NEW answered \in SUBSET Days, FetchCloses(w, answered)
      PROVE  /\ Busy' = Busy
             /\ SameSplits(worker'[w].metadata)
             /\ \A d \in In(worker'[w].range) : SameClose(worker'[w].quotes[d], prices[d])
    <2>1. worker[w] \in Fetching /\ worker[w].pc = "fetching"
        BY <1>4, WorkerTyped DEF FetchCloses, JobsInv
    <2>2. /\ worker'[w].pc = "storing" /\ worker'[w].range = worker[w].range
          /\ worker'[w].quotes = worker[w].quotes /\ worker'[w].metadata = worker[w].metadata
        BY <1>4, <2>1 DEF FetchCloses, JobsInv, TypeOK, Fetching
    <2>3. Busy' = Busy /\ w \in Busy
        BY <1>1, <2>1, <2>2 DEF Busy
    <2> QED BY <2>1, <2>2, <2>3 DEF JobsInv, ReadHolds
<1> QED BY <1>2, <1>3, <1>4 DEF Reads

LEMMA FoundStep ==
    ASSUME TypeOK, FoundInv, [Next]_vars
    PROVE  FoundInv'
<1>1. CASE worker' = worker
    BY <1>1 DEF FoundInv
<1>2. ASSUME NEW w \in Workers, NEW me, worker' = [worker EXCEPT ![w] = me],
             me.pc \in {"fetching", "storing"} => me.found # NoAsset
      PROVE  FoundInv'
    BY <1>2 DEF FoundInv, TypeOK
<1>3. ASSUME NEW w \in Workers, Claim(w) PROVE FoundInv'
    BY <1>2, <1>3 DEF Claim
<1>4. ASSUME NEW w \in Workers, ReadCache(w) PROVE FoundInv'
    <2> DEFINE pc == IF Outdated(asset) THEN "asking" ELSE "fetching"
               me == [pc |-> pc, range |-> worker[w].range, lease |-> worker[w].lease,
                      attempts |-> worker[w].attempts,
                      quotes |-> [d \in Days |-> IF d \in In(worker[w].range) THEN prices[d] ELSE NoPrice],
                      metadata |-> asset, found |-> asset,
                      closes |-> [d \in Days |-> NoClose]]
    <2>1. worker' = [worker EXCEPT ![w] = me]
        BY <1>4 DEF ReadCache, Read
    <2>2. me.pc \in {"fetching", "storing"} => me.found # NoAsset
        BY DEF Outdated
    <2> HIDE DEF me
    <2> QED BY <1>2, <2>1, <2>2
<1>5. ASSUME NEW w \in Workers, FetchAsset(w) PROVE FoundInv'
    <2> DEFINE new == [splits |-> splits, age |-> "new"]
               me == [worker[w] EXCEPT !.pc = "fetching", !.found = new]
    <2>1. new \in Asset
        BY DEF TypeOK, Asset, Ages
    <2>2. worker[w] \in Fetching
        BY <1>5, WorkerTyped DEF FetchAsset
    <2>3. worker' = [worker EXCEPT ![w] = me]
        BY <1>5, <2>2 DEF FetchAsset, TypeOK
    <2> HIDE DEF new
    <2>4. me.found = new
        BY <2>2 DEF Fetching
    <2> HIDE DEF me
    <2> QED BY <1>2, <2>1, <2>3, <2>4, NullsAssumption
<1>6. ASSUME NEW w \in Workers, Return(w) PROVE FoundInv'
    BY <1>2, <1>6 DEF Return, Idle
<1>7. ASSUME NEW w \in Workers, NEW answered \in SUBSET Days, FetchCloses(w, answered)
      PROVE  FoundInv'
    <2>1. worker[w] \in Fetching /\ worker[w].found # NoAsset
        BY <1>7, WorkerTyped DEF FetchCloses, FoundInv
    <2>2. worker'[w].found = worker[w].found
        BY <1>7, <2>1 DEF FetchCloses, TypeOK, Fetching
    <2>3. \A v \in Workers \ {w} : worker'[v] = worker[v]
        BY <1>7 DEF FetchCloses, TypeOK
    <2> QED BY <2>1, <2>2, <2>3 DEF FoundInv
<1>8. CASE Day
    BY <1>8, DayPasses DEF FoundInv
<1>9. CASE Minute
    BY <1>1, <1>9 DEF Minute
<1> QED BY <1>1, <1>3, <1>4, <1>5, <1>6, <1>7, <1>8, <1>9, Steps, AsideSeesNothing
        DEF Reads, Fail, Discard, Crash, Store

(* What was known of the splits is still known when there are more.        *)
LEMMA MoreSplits ==
    ASSUME NEW m \in Nat, NEW n \in Nat, m <= n
    PROVE  /\ \A row \in Asset \cup {NoAsset} : Known(row, m) => Known(row, n)
           /\ \A close \in Close \cup {NoClose} : Undoes(close, m) => Undoes(close, n)
           /\ \A price \in Price \cup {NoPrice} : PriceUndoes(price, m) => PriceUndoes(price, n)
           /\ \A me \in Fetching : Carries(me, m) => Carries(me, n)
<1>1. \A row \in Asset \cup {NoAsset} : Known(row, m) => Known(row, n)
    BY DEF Known, Asset
<1>2. \A close \in Close \cup {NoClose} : Undoes(close, m) => Undoes(close, n)
    BY DEF Undoes, Close
<1>3. \A price \in Price \cup {NoPrice} : PriceUndoes(price, m) => PriceUndoes(price, n)
    BY <1>2 DEF PriceUndoes, Price
<1>4. ASSUME NEW me \in Fetching, Carries(me, m) PROVE Carries(me, n)
    <2>1. me.found \in Asset \cup {NoAsset}
        BY DEF Fetching
    <2>2. \A d \in Days : me.quotes[d] \in Price \cup {NoPrice} /\ me.closes[d] \in Close \cup {NoClose}
        BY DEF Fetching
    <2> QED BY <1>1, <1>2, <1>3, <1>4, <2>1, <2>2 DEF Carries
<1> QED BY <1>1, <1>2, <1>3, <1>4

LEMMA SplitsStep ==
    ASSUME TypeOK, FoundInv, SplitsInv, [Next]_vars
    PROVE  SplitsInv'
<1>1. splits \in Nat /\ splits' \in Nat /\ splits <= splits'
    <2>1. splits \in Nat
        BY DEF TypeOK
    <2>2. splits' = splits \/ splits' = splits + 1
        BY Steps DEF Aside, Queue, Elapse, ElapseLate, Split, vars, Minute, Day, Claim, Reads,
           ReadCache, FetchAsset, FetchCloses, Fail, Discard, Crash, Store
    <2> QED BY <2>1, <2>2
<1>2. /\ Known(asset, splits')
      /\ \A d \in Days : PriceUndoes(prices[d], splits')
      /\ \A w \in Workers : worker[w].pc \notin {"idle", "claimed"} => Carries(worker[w], splits')
    <2>1. /\ asset \in Asset \cup {NoAsset}
          /\ \A d \in Days : prices[d] \in Price \cup {NoPrice}
          /\ \A w \in Workers : worker[w].pc \notin {"idle", "claimed"} => worker[w] \in Fetching
        BY WorkerTyped DEF TypeOK
    <2> QED BY <1>1, <2>1, MoreSplits DEF SplitsInv
<1>3. CASE Aside
    BY <1>2, <1>3, AsideSeesNothing DEF SplitsInv
<1>4. CASE Minute \/ Day
    <2>1. Known(asset', splits')
        BY <1>2, <1>4, AgeKeepsCloses DEF Known
    <2>2. ASSUME NEW d \in Days PROVE PriceUndoes(prices'[d], splits')
        <3>1. \/ prices'[d] = prices[d]
              \/ /\ prices[d] # NoPrice
                 /\ \E age \in {"minute", "day"} : prices'[d] = Older(prices[d], age)
            BY <1>4 DEF Minute, Day
        <3>2. prices[d] # NoPrice => prices[d] \in Price
            BY PriceTyped
        <3>3. prices'[d] = prices[d] \/ (prices[d] # NoPrice /\ prices'[d].close = prices[d].close)
            BY <3>1, <3>2, OlderTyped
        <3> QED BY <1>2, <3>3 DEF PriceUndoes
    <2>3. ASSUME NEW w \in Workers, worker'[w].pc \notin {"idle", "claimed"}
          PROVE  Carries(worker'[w], splits')
        <3>1. CASE Minute
            BY <1>2, <2>3, <3>1 DEF Minute
        <3>2. CASE Day
            BY <1>2, <2>3, <3>2, DayPasses DEF Carries, Known
        <3> QED BY <1>4, <3>1, <3>2
    <2> QED BY <2>1, <2>2, <2>3 DEF SplitsInv
<1>5. ASSUME prices' = prices, asset' = asset, NEW w \in Workers,
             \A v \in Workers \ {w} : worker'[v] = worker[v],
             worker'[w].pc \in {"idle", "claimed"} \/ Carries(worker'[w], splits')
      PROVE  SplitsInv'
    BY <1>2, <1>5 DEF SplitsInv
<1>6. ASSUME NEW w \in Workers, Claim(w) PROVE SplitsInv'
    <2>1. worker'[w].pc = "claimed" /\ \A v \in Workers \ {w} : worker'[v] = worker[v]
        BY <1>6 DEF Claim, TypeOK
    <2> QED BY <1>5, <1>6, <2>1 DEF Claim
<1>7. ASSUME NEW w \in Workers, ReadCache(w) PROVE SplitsInv'
    <2> DEFINE quotes == [d \in Days |-> IF d \in In(worker[w].range) THEN prices[d] ELSE NoPrice]
               none == [d \in Days |-> NoClose]
    <2>1. /\ worker'[w].found = asset /\ worker'[w].quotes = quotes /\ worker'[w].closes = none
          /\ \A v \in Workers \ {w} : worker'[v] = worker[v]
        BY <1>7 DEF ReadCache, Read, TypeOK
    <2>2. \A d \in Days : PriceUndoes(quotes[d], splits') /\ none[d] = NoClose
        BY <1>2 DEF PriceUndoes
    <2> HIDE DEF quotes, none
    <2>3. Carries(worker'[w], splits')
        BY <1>2, <2>1, <2>2 DEF Carries, Undoes
    <2> QED BY <1>5, <1>7, <2>1, <2>3 DEF ReadCache
<1>8. ASSUME NEW w \in Workers, FetchAsset(w) PROVE SplitsInv'
    <2> DEFINE new == [splits |-> splits, age |-> "new"]
    <2>1. worker[w] \in Fetching /\ worker[w].pc = "asking" /\ splits' = splits
        BY <1>8, WorkerTyped DEF FetchAsset
    <2>2. /\ worker'[w].found = new /\ worker'[w].quotes = worker[w].quotes
          /\ worker'[w].closes = worker[w].closes
          /\ \A v \in Workers \ {w} : worker'[v] = worker[v]
        BY <1>8, <2>1 DEF FetchAsset, TypeOK, Fetching
    <2>3. Known(new, splits')
        BY <1>1, <2>1 DEF Known
    <2> HIDE DEF new
    <2>4. Carries(worker[w], splits')
        BY <1>2, <2>1
    <2>5. Carries(worker'[w], splits')
        BY <2>1, <2>2, <2>3, <2>4 DEF Carries
    <2> QED BY <1>5, <1>8, <2>2, <2>5 DEF FetchAsset
<1>9. ASSUME NEW w \in Workers, NEW answered \in SUBSET Days, FetchCloses(w, answered)
      PROVE  SplitsInv'
    <2> DEFINE close == [adjusted |-> splits, undone |-> worker[w].found.splits]
    <2>1. /\ worker[w] \in Fetching /\ worker[w].pc = "fetching" /\ splits' = splits
          /\ worker[w].found \in Asset /\ worker[w].found # NoAsset
        BY <1>9, WorkerTyped, NullsAssumption DEF FetchCloses, FoundInv, Fetching
    <2>2. /\ worker'[w].pc = "storing" /\ worker'[w].found = worker[w].found
          /\ worker'[w].quotes = worker[w].quotes
          /\ \A d \in Days : worker'[w].closes[d] \in {close, NoClose}
          /\ \A v \in Workers \ {w} : worker'[v] = worker[v]
        BY <1>9, <2>1 DEF FetchCloses, TypeOK, Fetching
    <2>3. Carries(worker[w], splits')
        BY <1>2, <2>1
    <2>4. close.undone = worker[w].found.splits /\ Undoes(close, splits')
        BY <1>1, <2>1, <2>3 DEF Carries, Known, Undoes, Asset
    <2> HIDE DEF close
    <2>5. Carries(worker'[w], splits')
        BY <2>2, <2>3, <2>4 DEF Carries, Undoes
    <2> QED BY <1>5, <1>9, <2>2, <2>5 DEF FetchCloses
<1>10. ASSUME NEW w \in Workers, Fail(w) \/ Discard(w) \/ Crash(w) PROVE SplitsInv'
    <2>1. worker'[w].pc = "idle" /\ \A v \in Workers \ {w} : worker'[v] = worker[v]
        BY <1>10 DEF Fail, Discard, Crash, Return, Idle, TypeOK
    <2> QED BY <1>5, <1>10, <2>1 DEF Fail, Discard, Crash
<1>11. ASSUME NEW w \in Workers, Store(w) PROVE SplitsInv'
    <2>1. worker'[w].pc = "idle" /\ \A v \in Workers \ {w} : worker'[v] = worker[v]
        BY <1>11 DEF Store, Return, Idle, TypeOK
    <2>2. Carries(worker[w], splits') /\ worker[w] \in Fetching
        BY <1>2, <1>11, WorkerTyped DEF Store
    <2>3. Known(asset', splits')
        BY <1>11, <2>2, StoreSteps DEF Carries
    <2>4. ASSUME NEW d \in Days PROVE PriceUndoes(prices'[d], splits')
        <3>1. CASE d \in In(worker[w].range)
            <4>1. prices'[d] = Stored(w, d)
                BY <1>11, <3>1, StoreSteps
            <4>2. Undoes(Stored(w, d).close, splits')
                BY <2>2 DEF Carries, Stored, Kept, Verified, PriceUndoes, Undoes
            <4> QED BY <4>1, <4>2 DEF PriceUndoes
        <3>2. CASE d \notin In(worker[w].range)
            <4>1. prices'[d] = InDoubt(prices[d], Changed(w)) /\ prices[d] \in Price \cup {NoPrice}
                BY <1>11, <3>2, StoreSteps DEF TypeOK
            <4>2. prices'[d] = prices[d] \/ (prices[d] # NoPrice /\ prices'[d].close = prices[d].close)
                BY <4>1 DEF InDoubt, Price
            <4> QED BY <1>2, <4>2 DEF PriceUndoes
        <3> QED BY <3>1, <3>2
    <2> QED BY <1>2, <2>1, <2>3, <2>4 DEF SplitsInv
<1> QED BY <1>3, <1>4, <1>6, <1>7, <1>8, <1>9, <1>10, <1>11, Steps DEF Reads

(* Reading, storing and the passing of time, while no fetch was late.      *)
LEMMA DataStep ==
    ASSUME JobsInv, [Next]_vars, late' = 0
    PROVE  /\ \A u, v \in Busy' : u = v
           /\ ReadHolds'
           /\ \A d \in Days :
                 Verified(prices'[d]) => asset' # NoAsset /\ prices'[d].close.undone = asset'.splits
           /\ \A d \in Days : Verified(prices[d]) /\ ~Verified(prices'[d])
                => asset' # NoAsset /\ (asset = NoAsset \/ asset'.splits # asset.splits)
<1> DEFINE One == \A u, v \in Busy' : u = v
           Fit == \A d \in Days :
                      Verified(prices'[d]) => asset' # NoAsset /\ prices'[d].close.undone = asset'.splits
           Stay == \A d \in Days : Verified(prices[d]) /\ ~Verified(prices'[d])
                       => asset' # NoAsset /\ (asset = NoAsset \/ asset'.splits # asset.splits)
<1>1. TypeOK /\ LeaseInv /\ OverdueInv /\ late = 0
    BY LateStays DEF JobsInv
<1>2. /\ \A u, v \in Busy : u = v
      /\ \A d \in Days : Verified(prices[d]) => asset # NoAsset /\ prices[d].close.undone = asset.splits
    BY <1>1 DEF JobsInv, OneByOne, UndoneFit
<1>3. ASSUME prices' = prices, asset' = asset PROVE Fit /\ Stay
    BY <1>2, <1>3
<1>4. CASE Aside
    <2>1. worker' = worker /\ asset' = asset /\ prices' = prices /\ Busy' = Busy
        BY <1>4, AsideSeesNothing DEF Busy
    <2>2. ReadHolds'
        BY <1>1, <2>1 DEF JobsInv, ReadHolds, SameSplits
    <2> QED BY <1>2, <1>3, <2>1, <2>2
<1>5. CASE Minute \/ Day
    <2>1. /\ Busy' = Busy
          /\ \A w \in Busy : worker'[w].pc = worker[w].pc
          /\ \A w \in Busy : worker[w].pc # "claimed" =>
                /\ worker'[w].range = worker[w].range
                /\ worker'[w].quotes = worker[w].quotes
                /\ worker'[w].metadata = worker[w].metadata
        <3>1. CASE worker' = worker
            BY <3>1 DEF Busy
        <3>2. CASE Day
            BY <1>1, <3>2, DayPasses DEF Busy
        <3> QED BY <1>5, <3>1, <3>2 DEF Minute
    <2>2. /\ \A d \in Days : /\ Verified(prices'[d]) <=> Verified(prices[d])
                             /\ Verified(prices[d]) => prices'[d].close = prices[d].close
          /\ asset' = NoAsset <=> asset = NoAsset
          /\ asset # NoAsset => asset'.splits = asset.splits
        BY <1>1, <1>5, AgeKeepsCloses
    <2>3. ReadHolds'
        <3>1. \A quote, d : d \in Days /\ SameClose(quote, prices[d]) => SameClose(quote, prices'[d])
            BY <2>2 DEF SameClose
        <3>2. \A metadata : SameSplits(metadata) => SameSplits(metadata)'
            BY <2>2 DEF SameSplits
        <3>3. \A w \in Busy : worker[w].pc # "claimed" =>
                  /\ SameSplits(worker[w].metadata)
                  /\ \A d \in In(worker[w].range) : SameClose(worker[w].quotes[d], prices[d])
            BY <1>1 DEF JobsInv, ReadHolds
        <3>4. \A w : In(worker[w].range) \subseteq Days
            BY DEF In
        <3>5. \A w \in Busy : worker[w].pc # "claimed" =>
                  /\ SameSplits(worker[w].metadata)'
                  /\ \A d \in In(worker[w].range) : SameClose(worker[w].quotes[d], prices'[d])
            BY <3>1, <3>2, <3>3, <3>4, <2>1
        <3> QED BY <2>1, <3>5 DEF ReadHolds
    <2> QED BY <1>2, <2>1, <2>2, <2>3
<1>6. ASSUME NEW w \in Workers, Claim(w) PROVE One /\ ReadHolds' /\ Fit /\ Stay
    <2>1. Busy = {}
        BY <1>1, <1>6, ClaimFindsIdle
    <2>2. worker'[w].pc = "claimed" /\ \A v \in Workers \ {w} : worker'[v] = worker[v]
        BY <1>1, <1>6 DEF Claim, TypeOK
    <2>3. Busy' = {w}
        BY <2>1, <2>2 DEF Busy
    <2>4. ReadHolds'
        BY <2>2, <2>3 DEF ReadHolds
    <2>5. prices' = prices /\ asset' = asset
        BY <1>6 DEF Claim
    <2> QED BY <1>3, <2>3, <2>4, <2>5
<1>7. ASSUME NEW w \in Workers, Reads(w) PROVE One /\ ReadHolds' /\ Fit /\ Stay
    <2>1. /\ Busy' = Busy
          /\ SameSplits(worker'[w].metadata)
          /\ \A d \in In(worker'[w].range) : SameClose(worker'[w].quotes[d], prices[d])
        BY <1>1, <1>7, ReadStep
    <2>2. prices' = prices /\ asset' = asset
        BY <1>7 DEF Reads, ReadCache, FetchAsset, FetchCloses
    <2>3. Busy \subseteq {w}
        BY <1>2, <1>7 DEF Busy, Reads, ReadCache, FetchAsset, FetchCloses
    <2>4. ReadHolds'
        BY <2>1, <2>2, <2>3 DEF ReadHolds, SameSplits
    <2> QED BY <1>2, <1>3, <2>1, <2>2, <2>4
<1>8. ASSUME NEW w \in Workers, worker[w].pc # "idle", Return(w) PROVE One /\ ReadHolds'
    <2>1. Busy' = {}
        BY <1>1, <1>8, EndsAlone DEF JobsInv
    <2> QED BY <2>1 DEF ReadHolds
<1>9. ASSUME NEW w \in Workers, Fail(w) \/ Discard(w) \/ Crash(w) PROVE One /\ ReadHolds' /\ Fit /\ Stay
    <2>1. prices' = prices /\ asset' = asset /\ worker[w].pc # "idle" /\ Return(w)
        BY <1>9 DEF Fail, Discard, Crash
    <2> QED BY <1>3, <1>8, <2>1
<1>10. ASSUME NEW w \in Workers, Store(w)
       PROVE  One /\ ReadHolds' /\ Fit /\ Stay
    <2>1. worker[w].pc # "idle" /\ Return(w)
        BY <1>10 DEF Store
    <2> QED BY <1>1, <1>8, <1>10, <2>1, StoreFits
<1> QED BY <1>4, <1>5, <1>6, <1>7, <1>9, <1>10, Steps

-----------------------------------------------------------------------------
LEMMA JobsInit ==
    ASSUME Init
    PROVE  JobsInv
<1>1. TypeOK
    BY DEF Init, TypeOK
<1>2. Busy = {}
    BY DEF Init, Busy, Idle
<1>3. Overdue = {} /\ late = 0
    BY <1>2 DEF Init, Overdue
<1>4. OverdueInv
    BY <1>3, FS_EmptySet DEF OverdueInv
<1>5. LeaseInv /\ OneByOne /\ ReadHolds
    BY <1>2 DEF LeaseInv, OneByOne, ReadHolds
<1>6. FoundInv /\ UndoneFit
    BY DEF Init, FoundInv, Idle, UndoneFit, Verified
<1>7. SplitsInv
    BY DEF Init, Idle, SplitsInv, Known, PriceUndoes
<1> QED BY <1>1, <1>4, <1>5, <1>6, <1>7 DEF JobsInv

LEMMA JobsStep ==
    ASSUME JobsInv, [Next]_vars
    PROVE  JobsInv'
<1>1. TypeOK' /\ LeaseInv' /\ OverdueInv'
    BY LeaseStep DEF JobsInv
<1>2. FoundInv'
    BY FoundStep DEF JobsInv
<1>3. SplitsInv'
    BY SplitsStep DEF JobsInv
<1>4. CASE late' = 0
    BY <1>1, <1>2, <1>3, <1>4, DataStep DEF JobsInv, OneByOne, UndoneFit
<1>5. CASE late' # 0
    BY <1>1, <1>2, <1>3, <1>5 DEF JobsInv, OneByOne, ReadHolds, UndoneFit
<1> QED BY <1>4, <1>5

(* At every step of the queue: only late fetches make workers overdue, and *)
(* without one what a worker read is what it stores its answer over.       *)
THEOREM JobsInvariant == Spec => []JobsInv
<1> QED BY JobsInit, JobsStep, PTL DEF Spec

(* Rows, prices and the locals of every worker (run_one) have their shape. *)
THEOREM JobsTypes == Spec => []TypeOK
<1>1. JobsInv => TypeOK
    BY DEF JobsInv
<1> QED BY <1>1, JobsInvariant, PTL

(* Planning (enqueue), claims and retries never take a job from under the  *)
(* worker that collects it: as many answers are thrown away at most as     *)
(* fetches outlasted their lease.                                          *)
THEOREM NobodyInVain == Spec => []NobodyWorksInVain
<1>1. ASSUME JobsInv PROVE NobodyWorksInVain
    <2> DEFINE vain == {w \in Busy : ~HoldsLease(w)}
    <2>1. vain \subseteq Overdue
        BY DEF Overdue
    <2>2. IsFiniteSet(Overdue) /\ Cardinality(Overdue) <= late /\ late \in Nat
        BY <1>1 DEF JobsInv, OverdueInv, TypeOK
    <2> HIDE DEF vain
    <2>3. IsFiniteSet(vain) /\ Cardinality(vain) <= Cardinality(Overdue)
        BY <2>1, <2>2, FS_Subset
    <2>4. Cardinality(vain) \in Nat /\ Cardinality(Overdue) \in Nat
        BY <2>2, <2>3, FS_CardinalityType
    <2>5. Cardinality(vain) <= late
        BY <2>2, <2>3, <2>4
    <2> QED BY <2>5 DEF vain, NobodyWorksInVain
<1> QED BY <1>1, JobsInvariant, PTL

(* The splits undone in every verified close are the ones the asset is     *)
(* known to have (run_one: changed_splits), and a close that misses a      *)
(* split, found after the metadata was read, stays verified no longer than *)
(* the asset misses it, however jobs, retries, crashes and splits follow   *)
(* each other, until a fetch outlasts its lease.                           *)
THEOREM ClosesFit == Spec => []ClosesFitSplits
<1>1. ASSUME JobsInv PROVE ClosesFitSplits
    <2> SUFFICES ASSUME late = 0, NEW d \in Days, Verified(prices[d])
                 PROVE  /\ asset # NoAsset
                        /\ prices[d].close.undone = asset.splits
                        /\ asset.splits = splits => AsTraded(prices[d].close)
        BY DEF ClosesFitSplits
    <2>1. asset # NoAsset /\ prices[d].close.undone = asset.splits
        BY <1>1 DEF JobsInv, UndoneFit
    <2>2. prices[d].close \in Close /\ splits \in Nat
        BY <1>1 DEF JobsInv, TypeOK, Verified, Price
    <2>3. prices[d].close.undone <= prices[d].close.adjusted /\ prices[d].close.adjusted <= splits
        BY <1>1 DEF JobsInv, SplitsInv, PriceUndoes, Undoes, Verified
    <2> QED BY <2>1, <2>2, <2>3 DEF Close, AsTraded
<1> QED BY <1>1, JobsInvariant, PTL

(* An empty answer or an older reading never takes a verified close away   *)
(* (run_one: old); only other splits than before do.                       *)
THEOREM VerifiedStay == Spec => VerifiedClosesStay
<1>1. ASSUME JobsInv, [Next]_vars, late = 0
      PROVE  \A d \in Days : Verified(prices[d]) /\ ~Verified(prices'[d])
                => asset' # NoAsset /\ (asset = NoAsset \/ asset'.splits # asset.splits)
    <2>1. CASE late' = 0
        BY <1>1, <2>1, DataStep
    <2>2. CASE late' # 0
        <3>1. prices' = prices
            BY <1>1, <2>2, Steps DEF Aside, Minute, Day, Claim, Reads, ReadCache, FetchAsset,
               FetchCloses, Fail, Discard,
               Crash, Store, Queue, Elapse, ElapseLate, Split, vars
        <3> QED BY <3>1
    <2> QED BY <2>1, <2>2
<1>2. JobsInv /\ [Next]_vars =>
        [\A d \in Days :
            /\ Verified(prices[d]) /\ ~Verified(prices'[d]) /\ late = 0
            => asset' # NoAsset /\ (asset = NoAsset \/ asset'.splits # asset.splits)]_vars
    BY <1>1
<1> QED BY <1>2, JobsInvariant, PTL DEF Spec, VerifiedClosesStay
=============================================================================
