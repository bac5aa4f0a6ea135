----------------------------- MODULE AccessProofs -----------------------------
(***************************************************************************)
(* Who may act for an account, and what bots did for it: the properties of *)
(* AccountAuth, for any number of requests, names, locks and changes, and  *)
(* those of BotCommands and BotTrades, for any bots, commands, executions, *)
(* rows and page size.                                                     *)
(*                                                                         *)
(* LockInv: a request holds the lock of every name it may touch, or still  *)
(* waits for it, and only locks below the ones it waits for.  So nobody    *)
(* changes what another request was checked for (CheckInv), and requests   *)
(* that wait for each other would hold ever higher locks.                  *)
(*                                                                         *)
(* CookieInv: ids of accounts are never given again, and a session knows   *)
(* the rights of an account as long as its epoch is the current one.       *)
(*                                                                         *)
(* CommandInv: an id that was not given yet was never started or finished, *)
(* a command that did not go out was not started, what a bot is at was,    *)
(* and an acknowledgement that a bot owes, or that a row records, belongs  *)
(* to a finished command.                                                  *)
(*                                                                         *)
(* RecordInv: what a bot knows of is stored or queued; what it does not    *)
(* know of happened while it was off and after all it knows of.            *)
(*                                                                         *)
(* OverInv: a command that was over when a record was deleted is not under *)
(* way again, because commands are started once.                           *)
(*                                                                         *)
(* PageInv: the rows a listing owes are those it has and those below its   *)
(* cursor.                                                                 *)
(***************************************************************************)
EXTENDS AccountAuth, BotTrades, FiniteSetTheorems, WellFoundedInduction, TLAPS

(* A finite set, unless empty, has an element that is last in an order R:  *)
(* one with the fewest elements after it.                                  *)
LEMMA LastElement ==
    ASSUME NEW S, IsFiniteSet(S), S # {}, NEW R,
           \A x, y, z \in S : <<x, y>> \in R /\ <<y, z>> \in R => <<x, z>> \in R,
           \A x \in S : <<x, x>> \notin R
    PROVE  \E x \in S : \A y \in S : <<x, y>> \notin R
<1> DEFINE After(x) == {y \in S : <<x, y>> \in R}
           T == {After(x) : x \in S}
<1>1. T \subseteq FiniteSubsetsOf(S) /\ T # {}
    <2>1. \A x \in S : After(x) \in SUBSET S /\ IsFiniteSet(After(x))
        BY FS_Subset
    <2> HIDE DEF After
    <2>2. \A t \in T : t \in FiniteSubsetsOf(S)
        BY <2>1 DEF FiniteSubsetsOf
    <2>3. PICK x \in S : TRUE
        OBVIOUS
    <2>4. After(x) \in T
        OBVIOUS
    <2> QED BY <2>2, <2>4
<1>2. PICK m \in T : \A t \in T : <<t, m>> \notin StrictSubsetOrdering(S)
    <2> HIDE DEF T
    <2>1. IsWellFoundedOn(StrictSubsetOrdering(S), FiniteSubsetsOf(S))
        BY FS_StrictSubsetOrderingWellFounded
    <2> QED BY <1>1, <2>1, WFMin
<1>3. PICK x \in S : m = After(x)
    OBVIOUS
<1>4. ASSUME NEW y \in S, <<x, y>> \in R PROVE FALSE
    <2>1. After(y) \in T /\ After(y) \subseteq After(x)
        BY <1>4
    <2>2. y \in After(x) /\ y \notin After(y)
        BY <1>4
    <2>3. <<After(y), m>> \in StrictSubsetOrdering(S)
        BY <1>3, <2>1, <2>2 DEF StrictSubsetOrdering
    <2> QED BY <1>2, <2>1, <2>3
<1> QED BY <1>4

-----------------------------------------------------------------------------
(* Accounts, sessions and keys.                                            *)

Sessions == OwnKinds \cup TargetKinds

NameFor(q) == IF q.kind \in EntryKinds THEN q.target ELSE q.by.name

Holds(r, l) == lock[l] = r

DataTypes ==
    /\ users \in [Names -> User \cup {NoUser}]
    /\ keys \in [1..MaxKeys -> Key \cup {NoKey}]
    /\ records \in [Names -> SUBSET Nat]
    /\ cookies \subseteq Cookie
    /\ tokens \subseteq [name : Names, key : 1..MaxKeys]
    /\ nextUser \in Nat /\ nextKey \in Nat \ {0}

ServingTypes ==
    /\ lock \in [Locks -> Requests \cup {Free}]
    /\ request \in [Requests -> Request \cup {NoRequest}]

(* What a request brings, and where it stands.                             *)
Sent(q) ==
    /\ q.kind \in Sessions => q.by \in cookies
    /\ q.kind = "bot" => q.by \in tokens
    /\ q.pc = "locking" <=> q.need # {}
    /\ q.pc = "answering" => q.kind = "read" /\ q.read = q.by.id

SentInv == \A r \in Requests : request[r] # NoRequest => Sent(request[r])

(* The locks of request r if it is q.                                      *)
Locked(r, q) ==
    /\ \A l \in LocksOf(q.kind, NameFor(q), q.target) : Holds(r, l) \/ l \in q.need
    /\ \A l \in Locks : \A m \in q.need : Holds(r, l) => l < m

LockInv ==
    /\ \A l \in Locks : lock[l] # Free => request[lock[l]] # NoRequest
    /\ \A r \in Requests : request[r] # NoRequest => Locked(r, request[r])

(* The account a request was checked for is the one it writes to.          *)
Bears(q) ==
    IF q.kind = "bot" THEN keys[q.by.key] # NoKey /\ keys[q.by.key].name = q.by.name
    ELSE SameAccount(users[q.by.name], q.by.id)

Checked(q) == Bears(q) /\ (q.by.name \notin tooled => Passes(q))

MustHold(q) == q.pc = "granted" /\ q.kind \notin {"read"} \cup EntryKinds

CheckInv ==
    \A r \in Requests :
        request[r] # NoRequest /\ MustHold(request[r]) => Checked(request[r])

IdsInv ==
    /\ \A n \in Names : users[n] # NoUser => users[n].id < nextUser
    /\ \A k \in 1..MaxKeys : k >= nextKey => keys[k] = NoKey

CookieInv ==
    \A c \in cookies :
        /\ c.id < nextUser
        /\ SameAccount(users[c.name], c.id) =>
              /\ c.epoch <= users[c.name].epoch
              /\ c.epoch = users[c.name].epoch => c.admin = users[c.name].admin

ServingInv == ServingTypes /\ SentInv /\ LockInv /\ CheckInv
DataInv == DataTypes /\ IdsInv /\ CookieInv /\ NothingIsInherited
AuthInv == ServingInv /\ DataInv

-----------------------------------------------------------------------------
(* Types of what requests carry.                                           *)

LEMMA Carried ==
    ASSUME AuthInv, NEW r \in Requests, request[r] # NoRequest
    PROVE  /\ request[r] \in Request
           /\ request[r].kind \in Sessions => By(r) \in Cookie /\ By(r) \in cookies
           /\ request[r].kind = "bot" =>
                 By(r) \in tokens /\ By(r).name \in Names /\ By(r).key \in 1..MaxKeys
           /\ request[r].target \in Names
BY DEF AuthInv, ServingInv, ServingTypes, SentInv, Sent, DataInv, DataTypes, By, Request

LEMMA NamesHaveLocks ==
    ASSUME AuthInv, NEW r \in Requests, request[r] # NoRequest
    PROVE  LocksOf(request[r].kind, NameFor(request[r]), request[r].target) \subseteq Locks
<1>1. NameFor(request[r]) \in Names /\ request[r].target \in Names
    BY Carried DEF NameFor, Request, Sessions, Cookie, By
<1> QED BY <1>1, AccountAssumption DEF LocksOf

LEMMA InitAuth == AuthInit => AuthInv
<1> SUFFICES ASSUME AuthInit PROVE AuthInv
    OBVIOUS
<1> USE DEF AuthInit
<1>1. DataInv
    BY AccountAssumption DEF DataInv, DataTypes, IdsInv, CookieInv, NothingIsInherited
<1>2. ServingInv
    BY AccountAssumption DEF ServingInv, ServingTypes, SentInv, LockInv, CheckInv
<1> QED BY <1>1, <1>2 DEF AuthInv

-----------------------------------------------------------------------------
(* Requests that take locks, and requests that end.                        *)

(* Another request is left alone by one that changes nothing or only what  *)
(* is stored under name n, whose lock it holds.                            *)
LEMMA OthersStay ==
    ASSUME AuthInv, NEW r \in Requests, NEW q \in Requests, q # r, request[q] # NoRequest,
           NEW n \in Names,
           lock[LockOf[n]] = r \/ (users' = users /\ keys' = keys),
           \A m \in Names : m # n => users'[m] = users[m],
           \A k \in 1..MaxKeys : keys[k] # NoKey /\ keys[k].name # n => keys'[k] = keys[k],
           tooled \subseteq tooled',
           request'[q] = request[q], MustHold(request[q])
    PROVE  Checked(request[q])'
<1> DEFINE x == request[q]
<1>1. x \in Request /\ x.by.name \in Names /\ x.kind \in Sessions \cup {"bot"}
    BY Carried DEF MustHold, Request, Sessions, By, Cookie
<1>2. Checked(x)
    BY DEF AuthInv, ServingInv, CheckInv
<1>3. lock[LockOf[x.by.name]] = q
    <2>1. Locked(q, x) /\ Sent(x)
        BY DEF AuthInv, ServingInv, LockInv, SentInv
    <2>2. x.need = {}
        BY <2>1 DEF Sent, MustHold
    <2>3. NameFor(x) = x.by.name
        BY DEF NameFor, MustHold
    <2>4. LockOf[x.by.name] \in LocksOf(x.kind, x.by.name, x.target)
        BY DEF LocksOf, MustHold
    <2> QED BY <2>1, <2>2, <2>3, <2>4 DEF Locked, Holds
<1>4. users'[x.by.name] = users[x.by.name]
    BY <1>1, <1>3
<1>5. ASSUME x.kind = "bot"
      PROVE  keys[x.by.key] # NoKey /\ keys[x.by.key].name = x.by.name /\ keys'[x.by.key] = keys[x.by.key]
    BY <1>1, <1>2, <1>3, <1>5, Carried DEF Checked, Bears, By
<1>6. Bears(x)'
    BY <1>2, <1>4, <1>5 DEF Bears, Checked, SameAccount
<1>7. x.by.name \notin tooled' => Passes(x)'
    <2> SUFFICES ASSUME x.by.name \notin tooled' PROVE Passes(x)'
        OBVIOUS
    <2>1. Passes(x)
        BY <1>2 DEF Checked
    <2>2. CASE x.kind = "bot"
        BY <1>4, <1>5, <2>1, <2>2 DEF Passes, ValidToken, EntryKinds
    <2>3. CASE x.kind # "bot"
        BY <1>4, <2>1, <2>3 DEF Passes, Admitted, ValidSession, SameAccount, MustHold
    <2> QED BY <2>2, <2>3
<1> QED BY <1>6, <1>7 DEF Checked

(* Every handler and every refusal ends with a release.                    *)
LEMMA ReleaseKeeps ==
    ASSUME AuthInv, NEW r \in Requests, request[r] # NoRequest, Release(r),
           NEW n \in Names,
           lock[LockOf[n]] = r \/ (users' = users /\ keys' = keys),
           \A m \in Names : m # n => users'[m] = users[m],
           \A k \in 1..MaxKeys : keys[k] # NoKey /\ keys[k].name # n => keys'[k] = keys[k],
           tooled \subseteq tooled', cookies \subseteq cookies', tokens \subseteq tokens'
    PROVE  ServingInv'
<1>1. ServingTypes'
    BY DEF AuthInv, ServingInv, ServingTypes, Release
<1>2. /\ request'[r] = NoRequest
      /\ \A q \in Requests : q # r => request'[q] = request[q]
      /\ \A l \in Locks, q \in Requests : q # r => (Holds(q, l)' <=> Holds(q, l))
    BY AccountAssumption DEF AuthInv, ServingInv, ServingTypes, Release, Holds
<1>3. SentInv'
    BY <1>2 DEF AuthInv, ServingInv, SentInv, Sent
<1>4. LockInv'
    <2>1. \A l \in Locks : lock'[l] # Free => lock'[l] = lock[l] /\ lock[l] \in Requests \ {r}
        BY AccountAssumption DEF AuthInv, ServingInv, ServingTypes, Release
    <2>2. \A l \in Locks : lock'[l] # Free => request'[lock'[l]] # NoRequest
        BY <1>2, <2>1 DEF AuthInv, ServingInv, LockInv
    <2>3. ASSUME NEW q \in Requests, request'[q] # NoRequest PROVE Locked(q, request[q])'
        <3>1. q # r /\ request'[q] = request[q] /\ Locked(q, request[q])
            BY <1>2, <2>3 DEF AuthInv, ServingInv, LockInv
        <3>2. LocksOf(request[q].kind, NameFor(request[q]), request[q].target) \subseteq Locks
            BY <1>2, <2>3, NamesHaveLocks
        <3> QED BY <1>2, <3>1, <3>2 DEF Locked
    <2> QED BY <2>2, <2>3 DEF LockInv
<1>5. CheckInv'
    <2> SUFFICES ASSUME NEW q \in Requests, request'[q] # NoRequest, MustHold(request[q])'
                 PROVE  Checked(request[q])'
        BY DEF CheckInv
    <2>1. q # r /\ request'[q] = request[q] /\ request[q] # NoRequest /\ MustHold(request[q])
        BY <1>2 DEF MustHold
    <2> QED BY <2>1, OthersStay
<1> QED BY <1>1, <1>3, <1>4, <1>5 DEF ServingInv

(* The next lock is above those the request has; the last one comes with   *)
(* the check.                                                              *)
LEMMA ProceedKeeps ==
    ASSUME AuthInv, NEW r \in Requests, NEW q \in Request, q.pc = "locking",
           q.kind \in Sessions => q.by \in cookies, q.kind = "bot" => q.by \in tokens,
           Locked(r, q), Proceed(r, q)
    PROVE  AuthInv'
<1>1. PICK l \in Turn(q.need) :
          /\ lock[l] = Free
          /\ lock' = [lock EXCEPT ![l] = r]
          /\ q.need \ {l} = {} => Passes(q)
          /\ request' = [request EXCEPT ![r] =
                [q EXCEPT !.need = q.need \ {l},
                          !.pc = IF q.need \ {l} = {} THEN "granted" ELSE "locking"]]
    BY DEF Proceed
<1> DEFINE x == [q EXCEPT !.need = q.need \ {l},
                          !.pc = IF q.need \ {l} = {} THEN "granted" ELSE "locking"]
<1>2. /\ l \in q.need /\ q.need \subseteq Locks /\ \A m \in q.need \ {l} : l < m
    BY AccountAssumption DEF Turn, Request
<1>3. /\ x \in Request /\ x.need = q.need \ {l} /\ x.kind = q.kind /\ x.by = q.by
      /\ x.target = q.target /\ x.pc = IF q.need \ {l} = {} THEN "granted" ELSE "locking"
    BY <1>2 DEF Request
<1>4. request'[r] = x /\ \A y \in Requests : y # r => request'[y] = request[y]
    BY <1>1 DEF AuthInv, ServingInv, ServingTypes
<1>5. lock' \in [Locks -> Requests \cup {Free}] /\ lock'[l] = r /\ \A m \in Locks : m # l => lock'[m] = lock[m]
    BY <1>1, <1>2 DEF AuthInv, ServingInv, ServingTypes
<1>6. UNCHANGED <<users, keys, records, cookies, tokens, tooled, nextUser, nextKey, changes>>
    BY DEF Proceed
<1> HIDE DEF x
<1>7. ServingTypes'
    BY <1>1, <1>3, <1>5 DEF AuthInv, ServingInv, ServingTypes, x
<1>8. SentInv'
    BY <1>3, <1>4, <1>6 DEF AuthInv, ServingInv, SentInv, Sent
<1>9. LockInv'
    <2>1. \A m \in Locks : lock'[m] # Free => request'[lock'[m]] # NoRequest
        BY <1>3, <1>4, <1>5, RowsAssumption
           DEF AuthInv, ServingInv, ServingTypes, LockInv
    <2>2. Locked(r, x)'
        <3>1. NameFor(x) = NameFor(q)
            BY <1>3 DEF NameFor
        <3>2. \A m \in Locks : \A k \in x.need : Holds(r, m)' => m < k
            BY <1>2, <1>3, <1>5 DEF Locked, Holds
        <3>3. \A m \in LocksOf(x.kind, NameFor(x), x.target) : Holds(r, m)' \/ m \in x.need
            <4>1. x.target \in Names /\ NameFor(q) \in Names
                BY <1>3 DEF NameFor, Request, Sessions, Cookie, AuthInv, DataInv, DataTypes
            <4>2. LocksOf(x.kind, NameFor(x), x.target) \subseteq Locks
                BY <3>1, <4>1, AccountAssumption DEF LocksOf
            <4> QED BY <1>2, <1>3, <1>5, <3>1, <4>2 DEF Locked, Holds
        <3> QED BY <3>2, <3>3 DEF Locked
    <2>3. ASSUME NEW y \in Requests, y # r, request'[y] # NoRequest PROVE Locked(y, request[y])'
        <3>1. Locked(y, request[y]) /\ request'[y] = request[y]
            BY <1>4, <2>3 DEF AuthInv, ServingInv, LockInv
        <3>2. LocksOf(request[y].kind, NameFor(request[y]), request[y].target) \subseteq Locks
            BY <1>4, <2>3, NamesHaveLocks
        <3>3. \A m \in Locks : Holds(y, m)' <=> Holds(y, m)
            BY <1>1, <1>5, <2>3, AccountAssumption DEF Holds
        <3> QED BY <3>1, <3>2, <3>3 DEF Locked
    <2>4. request'[r] = x
        BY <1>4
    <2> QED BY <2>1, <2>2, <2>3, <2>4 DEF LockInv
<1>10. CheckInv'
    <2> SUFFICES ASSUME NEW y \in Requests, request'[y] # NoRequest, MustHold(request[y])'
                 PROVE  Checked(request[y])'
        BY DEF CheckInv
    <2>1. CASE y = r
        <3>1. Passes(q) /\ q.kind \in Sessions \cup {"bot"}
            BY <1>1, <1>3, <1>4, <2>1 DEF MustHold, Request, Sessions
        <3>2. Passes(x)' /\ Bears(x)'
            BY <1>3, <1>6, <3>1 DEF Passes, Bears, Admitted, ValidSession, ValidToken, SameAccount,
                                    Sessions, OwnKinds, TargetKinds, EntryKinds
        <3> QED BY <1>4, <2>1, <3>2 DEF Checked
    <2>2. CASE y # r
        <3>1. request'[y] = request[y] /\ MustHold(request[y])
            BY <1>4, <2>2 DEF MustHold
        <3>2. q.target \in Names
            BY DEF Request
        <3> QED BY <1>6, <2>2, <3>1, <3>2, OthersStay
    <2> QED BY <2>1, <2>2
<1>11. DataInv'
    BY <1>6 DEF AuthInv, DataInv, DataTypes, IdsInv, CookieInv, NothingIsInherited
<1> QED BY <1>7, <1>8, <1>9, <1>10, <1>11 DEF AuthInv, ServingInv

LEMMA BeginKeeps ==
    ASSUME AuthInv, NEW r \in Requests, Begin(r)
    PROVE  AuthInv'
<1>1. ASSUME NEW kind \in OwnKinds \cup TargetKinds \cup EntryKinds \cup {"bot"}, NEW by, NEW name \in Names,
             NEW target \in Names, by \in Cookie \cup Token \cup {NoRequest},
             kind \in Sessions => by \in cookies, kind = "bot" => by \in tokens,
             name = IF kind \in EntryKinds THEN target ELSE by.name,
             Arrive(r, kind, by, name, target)
      PROVE  AuthInv'
    <2> DEFINE q == [pc |-> "locking", kind |-> kind, by |-> by, target |-> target,
                     need |-> LocksOf(kind, name, target), read |-> 0]
    <2>1. q \in Request
        BY <1>1, AccountAssumption DEF Request, LocksOf
    <2>2. \A l \in Locks : ~Holds(r, l)
        BY <1>1, AccountAssumption DEF Holds, Arrive, AuthInv, ServingInv, LockInv
    <2>3. Locked(r, q)
        BY <1>1, <2>2 DEF Locked, NameFor
    <2> QED BY <1>1, <2>1, <2>3, ProceedKeeps DEF Arrive
<1>2. ASSUME NEW c \in cookies, CheckRead(r, c)
      PROVE  AuthInv'
    <2> DEFINE q == [pc |-> "granted", kind |-> "read", by |-> c, target |-> c.name, need |-> {}, read |-> 0]
    <2>1. q \in Request /\ request' = [request EXCEPT ![r] = q] /\ request[r] = NoRequest
        BY <1>2 DEF CheckRead, Request, AuthInv, DataInv, DataTypes, Cookie, OwnKinds
    <2>2. UNCHANGED <<users, keys, records, lock, cookies, tokens, tooled, nextUser, nextKey, changes>>
        BY <1>2 DEF CheckRead
    <2>3. Sent(q) /\ ~MustHold(q) /\ Locked(r, q)
        BY DEF Sent, MustHold, Locked, LocksOf
    <2>4. request'[r] = q /\ \A y \in Requests : y # r => request'[y] = request[y]
        BY <2>1 DEF AuthInv, ServingInv, ServingTypes
    <2> HIDE DEF q
    <2>5. ServingTypes'
        BY <2>1, <2>2 DEF AuthInv, ServingInv, ServingTypes
    <2>6. SentInv'
        BY <2>2, <2>3, <2>4 DEF AuthInv, ServingInv, SentInv, Sent
    <2>7. LockInv'
        BY <2>1, <2>2, <2>3, <2>4, RowsAssumption DEF AuthInv, ServingInv, LockInv, Locked, Holds
    <2>8. CheckInv'
        BY <2>2, <2>3, <2>4 DEF AuthInv, ServingInv, CheckInv, Checked, Bears, Passes, Admitted,
                                ValidSession, ValidToken, SameAccount, MustHold
    <2>9. DataInv'
        BY <2>2 DEF AuthInv, DataInv, DataTypes, IdsInv, CookieInv, NothingIsInherited
    <2> QED BY <2>5, <2>6, <2>7, <2>8, <2>9 DEF AuthInv, ServingInv
<1>3. cookies \subseteq Cookie /\ tokens \subseteq [name : Names, key : 1..MaxKeys]
    BY DEF AuthInv, DataInv, DataTypes
<1>4. ASSUME NEW c \in cookies, NEW kind \in OwnKinds \ {"read"}, Arrive(r, kind, c, c.name, c.name)
      PROVE  AuthInv'
    BY <1>1, <1>3, <1>4 DEF Cookie, Sessions, OwnKinds, EntryKinds
<1>5. ASSUME NEW c \in cookies, NEW kind \in TargetKinds, NEW n \in Names, Arrive(r, kind, c, c.name, n)
      PROVE  AuthInv'
    BY <1>1, <1>3, <1>5 DEF Cookie, Sessions, TargetKinds, EntryKinds
<1>6. ASSUME NEW t \in tokens, Arrive(r, "bot", t, t.name, t.name)
      PROVE  AuthInv'
    BY <1>1, <1>3, <1>6 DEF Token, Sessions, OwnKinds, TargetKinds, EntryKinds
<1>7. ASSUME NEW kind \in EntryKinds, NEW n \in Names, Arrive(r, kind, NoRequest, n, n)
      PROVE  AuthInv'
    BY <1>1, <1>7 DEF Sessions, OwnKinds, TargetKinds, EntryKinds
<1> QED BY <1>2, <1>4, <1>5, <1>6, <1>7 DEF Begin

LEMMA TakeLockKeeps ==
    ASSUME AuthInv, NEW r \in Requests, TakeLock(r)
    PROVE  AuthInv'
<1>1. request[r] \in Request /\ request[r] # NoRequest
    BY Carried DEF TakeLock
<1>2. Sent(request[r]) /\ Locked(r, request[r])
    BY <1>1 DEF AuthInv, ServingInv, SentInv, LockInv
<1> QED BY <1>1, <1>2, ProceedKeeps DEF TakeLock, Sent

(* Requests that leave accounts and keys as they are.                      *)
LEMMA RefuseKeeps ==
    ASSUME AuthInv, NEW r \in Requests, Refuse(r)
    PROVE  AuthInv'
<1>1. request[r].target \in Names
    BY Carried DEF Refuse
<1>2. ServingInv'
    BY <1>1, ReleaseKeeps DEF Refuse
<1>3. DataInv'
    BY DEF Refuse, AuthInv, DataInv, DataTypes, IdsInv, CookieInv, NothingIsInherited
<1> QED BY <1>2, <1>3 DEF AuthInv

LEMMA ReadKeeps ==
    ASSUME AuthInv, NEW r \in Requests, Read(r)
    PROVE  AuthInv'
<1> DEFINE q == [request[r] EXCEPT !.pc = "answering", !.read = users[By(r).name].id]
<1>1. /\ request[r] \in Request /\ By(r) \in Cookie /\ users[By(r).name].id = By(r).id
      /\ request[r].kind = "read" /\ request[r].pc = "granted" /\ request[r] # NoRequest
    BY Carried DEF Read, Granted, Validated, ValidSession, SameAccount, Sessions, OwnKinds
<1>2. /\ request' = [request EXCEPT ![r] = q]
      /\ UNCHANGED <<users, keys, records, lock, cookies, tokens, tooled, nextUser, nextKey, changes>>
    BY DEF Read, Show
<1>3. /\ q \in Request /\ q.pc = "answering" /\ q.kind = "read" /\ q.by = By(r)
      /\ q.read = By(r).id /\ q.need = request[r].need /\ q.target = request[r].target
    BY <1>1 DEF Request, Cookie, By
<1>4. request'[r] = q /\ \A y \in Requests : y # r => request'[y] = request[y]
    BY <1>2 DEF AuthInv, ServingInv, ServingTypes
<1> HIDE DEF q
<1>5. ServingTypes'
    BY <1>2, <1>3 DEF AuthInv, ServingInv, ServingTypes
<1>6. SentInv'
    BY <1>1, <1>2, <1>3, <1>4 DEF AuthInv, ServingInv, SentInv, Sent, By
<1>7. LockInv'
    BY <1>1, <1>2, <1>3, <1>4, RowsAssumption
       DEF AuthInv, ServingInv, LockInv, Locked, Holds, LocksOf, NameFor, By
<1>8. CheckInv'
    BY <1>2, <1>3, <1>4 DEF AuthInv, ServingInv, CheckInv, Checked, Bears, Passes, Admitted,
                            ValidSession, ValidToken, SameAccount, MustHold
<1>9. DataInv'
    BY <1>2 DEF AuthInv, DataInv, DataTypes, IdsInv, CookieInv, NothingIsInherited
<1> QED BY <1>5, <1>6, <1>7, <1>8, <1>9 DEF AuthInv, ServingInv

-----------------------------------------------------------------------------
(* The handlers.                                                           *)

(* A request that was let in has its locks.                                *)
LEMMA GrantedHolds ==
    ASSUME AuthInv, NEW r \in Requests, NEW kind, Granted(r, kind), kind # "read"
    PROVE  /\ request[r] # NoRequest /\ request[r] \in Request /\ request[r].kind = kind
           /\ lock[LockOf[NameFor(request[r])]] = r
           /\ kind \in TargetKinds => lock[LockOf[request[r].target]] = r
           /\ kind \notin EntryKinds => Checked(request[r])
<1>1. request[r] # NoRequest /\ request[r].kind = kind /\ request[r].pc = "granted"
    BY DEF Granted
<1>2. Sent(request[r]) /\ Locked(r, request[r]) /\ request[r] \in Request
    BY <1>1, Carried DEF AuthInv, ServingInv, SentInv, LockInv
<1>3. \A l \in LocksOf(kind, NameFor(request[r]), request[r].target) : lock[l] = r
    BY <1>1, <1>2 DEF Sent, Locked, Holds
<1>4. kind \notin EntryKinds => Checked(request[r])
    BY <1>1 DEF AuthInv, ServingInv, CheckInv, MustHold
<1> QED BY <1>1, <1>2, <1>3, <1>4 DEF LocksOf

LEMMA WriteKeeps ==
    ASSUME AuthInv, NEW r \in Requests, Write(r)
    PROVE  AuthInv'
<1> DEFINE n == By(r).name
           id == IF request[r].kind = "bot" THEN keys[By(r).key].owner ELSE By(r).id
<1>1. PICK kind \in {"write", "bot"} : Granted(r, kind)
    BY DEF Write
<1>2. request[r] # NoRequest /\ request[r].kind = kind /\ Checked(request[r])
    BY <1>1, GrantedHolds DEF EntryKinds
<1>3. n \in Names /\ (kind = "write" => By(r) \in Cookie) /\ (kind = "bot" => By(r).key \in 1..MaxKeys)
    BY <1>2, Carried DEF Sessions, OwnKinds, Cookie
<1>4. id \in Nat /\ users[n] # NoUser /\ users[n].id = id
    <2>1. CASE kind = "bot"
        BY <1>2, <1>3, <2>1 DEF Checked, Bears, By, AuthInv, DataInv, DataTypes, NothingIsInherited, Key
    <2>2. CASE kind = "write"
        BY <1>2, <1>3, <2>2 DEF Checked, Bears, By, SameAccount, Cookie
    <2> QED BY <2>1, <2>2
<1>5. records' = [records EXCEPT ![n] = @ \cup {id}] /\ Release(r)
    BY DEF Write
<1>6. ServingInv'
    BY <1>2, <1>3, ReleaseKeeps DEF Write
<1>7. UNCHANGED <<users, keys, cookies, tokens, nextUser, nextKey>>
    BY DEF Write
<1> HIDE DEF n, id
<1>8. DataTypes' /\ \A m \in Names : records'[m] = IF m = n THEN records[n] \cup {id} ELSE records[m]
    BY <1>3, <1>4, <1>5, <1>7 DEF AuthInv, DataInv, DataTypes
<1>9. IdsInv' /\ CookieInv'
    BY <1>7 DEF AuthInv, DataInv, IdsInv, CookieInv
<1>10. NothingIsInherited'
    BY <1>4, <1>7, <1>8 DEF AuthInv, DataInv, NothingIsInherited
<1> QED BY <1>6, <1>8, <1>9, <1>10 DEF AuthInv, DataInv

LEMMA LoginKeeps ==
    ASSUME AuthInv, NEW r \in Requests, Login(r)
    PROVE  AuthInv'
<1> DEFINE n == request[r].target
           c == [name |-> n, id |-> users[n].id, epoch |-> users[n].epoch, admin |-> users[n].admin]
<1>1. request[r] # NoRequest /\ n \in Names
    BY Carried DEF Login, Granted
<1>2. ServingInv'
    BY <1>1, ReleaseKeeps DEF Login
<1>3. c \in Cookie /\ SameAccount(users[c.name], c.id) /\ c.id < nextUser
    BY <1>1 DEF Login, AuthInv, DataInv, DataTypes, IdsInv, User, Cookie, SameAccount
<1>4. c.epoch <= users[c.name].epoch /\ c.admin = users[c.name].admin
    BY <1>3 DEF Cookie
<1>5. cookies' = cookies \cup {c} /\ UNCHANGED <<users, keys, records, tokens, nextUser, nextKey>>
    BY DEF Login
<1> HIDE DEF c
<1>6. DataInv'
    BY <1>3, <1>4, <1>5 DEF AuthInv, DataInv, DataTypes, IdsInv, CookieInv, NothingIsInherited, SameAccount
<1> QED BY <1>2, <1>6 DEF AuthInv

(* Removing an account.                                                    *)
LEMMA PurgeKeeps ==
    ASSUME AuthInv, NEW r \in Requests, request[r] # NoRequest, NEW n \in Names,
           lock[LockOf[n]] = r, Purge(n), Release(r),
           UNCHANGED <<cookies, tokens, tooled, nextUser, nextKey>>
    PROVE  AuthInv'
<1>1. /\ users'[n] = NoUser /\ \A m \in Names : m # n => users'[m] = users[m]
      /\ \A k \in 1..MaxKeys :
            keys'[k] = IF keys[k] # NoKey /\ keys[k].name = n THEN NoKey ELSE keys[k]
      /\ records'[n] = {} /\ \A m \in Names : m # n => records'[m] = records[m]
    BY DEF Purge, AuthInv, DataInv, DataTypes
<1>2. ServingInv'
    BY <1>1, ReleaseKeeps
<1>3. DataTypes'
    BY DEF Purge, AuthInv, DataInv, DataTypes
<1>4. IdsInv'
    BY <1>1 DEF AuthInv, DataInv, IdsInv
<1>5. CookieInv' /\ NothingIsInherited'
    BY <1>1 DEF AuthInv, DataInv, DataTypes, CookieInv, NothingIsInherited, SameAccount, Key, Cookie
<1> QED BY <1>2, <1>3, <1>4, <1>5 DEF AuthInv, DataInv

(* A new row of an account that is there: the same one, and if its rights  *)
(* are others, its epoch is.                                               *)
SameUser(old, new) ==
    /\ new \in User /\ new.id = old.id /\ new.epoch >= old.epoch
    /\ new.epoch = old.epoch => new.admin = old.admin

(* Keys with revoked ones among them.                                      *)
SameKeys(old, new) ==
    \A k \in 1..MaxKeys :
        \/ new[k] = old[k]
        \/ old[k] # NoKey /\ new[k] = [old[k] EXCEPT !.revoked = TRUE]

LEMMA RevokeAllSame ==
    ASSUME AuthInv, NEW n \in Names
    PROVE  /\ RevokeAll(n) \in [1..MaxKeys -> Key \cup {NoKey}] /\ SameKeys(keys, RevokeAll(n))
           /\ \A k \in 1..MaxKeys : keys[k] # NoKey /\ keys[k].name # n => RevokeAll(n)[k] = keys[k]
BY DEF RevokeAll, SameKeys, AuthInv, DataInv, DataTypes, Key

LEMMA AccountsKeep ==
    ASSUME AuthInv, NEW n \in Names, users[n] # NoUser, NEW row,
           SameUser(users[n], row), users' = [users EXCEPT ![n] = row],
           keys' \in [1..MaxKeys -> Key \cup {NoKey}], SameKeys(keys, keys'),
           cookies' = cookies \/ \E c \in Cookie : cookies' = cookies \cup {c} /\ c.name = n
                /\ c.id = row.id /\ c.epoch = row.epoch /\ c.admin = row.admin,
           UNCHANGED <<records, tokens, nextUser, nextKey>>
    PROVE  DataInv'
<1>1. users'[n] = row /\ \A m \in Names : m # n => users'[m] = users[m]
    BY DEF AuthInv, DataInv, DataTypes
<1>2. DataTypes'
    BY DEF AuthInv, DataInv, DataTypes, SameUser
<1>3. IdsInv'
    BY <1>1 DEF AuthInv, DataInv, DataTypes, IdsInv, SameUser, SameKeys
<1>4. CookieInv'
    <2>1. users[n] \in User /\ row \in User /\ row # NoUser
        BY RowsAssumption DEF AuthInv, DataInv, DataTypes, SameUser
    <2>2. ASSUME NEW c \in cookies
          PROVE  /\ c.id < nextUser'
                 /\ SameAccount(users'[c.name], c.id) =>
                      /\ c.epoch <= users'[c.name].epoch
                      /\ c.epoch = users'[c.name].epoch => c.admin = users'[c.name].admin
        <3>1. c.name \in Names /\ c.epoch \in Nat
            BY DEF AuthInv, DataInv, DataTypes, Cookie
        <3>2. CASE c.name # n
            BY <1>1, <3>1, <3>2 DEF AuthInv, DataInv, CookieInv
        <3>3. CASE c.name = n
            BY <1>1, <2>1, <3>1, <3>3 DEF AuthInv, DataInv, CookieInv, SameAccount, SameUser, User
        <3> QED BY <3>2, <3>3
    <2>3. row.id < nextUser /\ row.epoch \in Nat
        BY <2>1 DEF AuthInv, DataInv, IdsInv, SameUser, User
    <2> QED BY <1>1, <2>2, <2>3 DEF CookieInv
<1>5. NothingIsInherited'
    BY <1>1, RowsAssumption DEF AuthInv, DataInv, DataTypes, NothingIsInherited, SameUser, SameKeys, Key
<1> QED BY <1>2, <1>3, <1>4, <1>5 DEF DataInv

LEMMA NewPasswordSame ==
    ASSUME NEW user \in User, NEW must \in BOOLEAN
    PROVE  SameUser(user, NewPassword(user, must)) /\ NewPassword(user, must).epoch = user.epoch + 1
           /\ NewPassword(user, must).admin = user.admin
           /\ NewPassword(user, must).allowed = user.allowed
<1> DEFINE old == [user EXCEPT !.must = must]
           new == [old EXCEPT !.epoch = user.epoch + 1]
<1>1. NewPassword(user, must) = new
    BY DEF NewPassword
<1>2. old \in User /\ old.id = user.id /\ old.admin = user.admin /\ old.epoch = user.epoch
      /\ old.allowed = user.allowed
    BY DEF User
<1> HIDE DEF old
<1>3. new \in User /\ new.id = old.id /\ new.admin = old.admin /\ new.epoch = user.epoch + 1
      /\ new.allowed = old.allowed
    BY <1>2 DEF User
<1>4. user.epoch \in Nat
    BY DEF User
<1> HIDE DEF new
<1> QED BY <1>1, <1>2, <1>3, <1>4 DEF SameUser

LEMMA ChangePasswordKeeps ==
    ASSUME AuthInv, NEW r \in Requests, NEW revoke \in BOOLEAN, ChangePassword(r, revoke)
    PROVE  AuthInv'
<1> DEFINE n == By(r).name
           row == NewPassword(users[n], FALSE)
           c == [By(r) EXCEPT !.epoch = row.epoch]
<1>1. /\ request[r] # NoRequest /\ lock[LockOf[n]] = r /\ By(r) \in Cookie
    <2>1. Granted(r, "password")
        BY DEF ChangePassword
    <2>2. request[r] # NoRequest /\ request[r].kind = "password" /\ lock[LockOf[NameFor(request[r])]] = r
        BY <2>1, GrantedHolds
    <2> QED BY <2>2, Carried DEF NameFor, EntryKinds, By, Sessions, OwnKinds
<1>2. /\ n \in Names /\ users[n] \in User /\ users[n].id = By(r).id /\ users[n].epoch = By(r).epoch
      /\ By(r).admin = users[n].admin
    <2>1. n \in Names /\ users[n] # NoUser /\ users[n].id = By(r).id /\ users[n].epoch = By(r).epoch
        BY <1>1 DEF ChangePassword, Validated, ValidSession, SameAccount, Cookie
    <2>2. By(r) \in cookies
        BY Carried DEF ChangePassword, Granted, Sessions, OwnKinds
    <2> QED BY <2>1, <2>2 DEF AuthInv, DataInv, DataTypes, CookieInv, SameAccount
<1>3. SameUser(users[n], row) /\ row.admin = users[n].admin
    BY <1>2, NewPasswordSame
<1>4. /\ users' = [users EXCEPT ![n] = row]
      /\ keys' = IF revoke THEN RevokeAll(n) ELSE keys
      /\ Release(r)
      /\ UNCHANGED <<records, tokens, tooled, nextUser, nextKey>>
    BY DEF ChangePassword
<1>5. users'[n] = row
    BY <1>2, <1>4 DEF AuthInv, DataInv, DataTypes
<1>6. cookies' = cookies \cup {c}
    BY <1>5 DEF ChangePassword
<1>7. c \in Cookie /\ c.name = n /\ c.id = row.id /\ c.epoch = row.epoch /\ c.admin = row.admin
    BY <1>1, <1>2, <1>3 DEF Cookie, SameUser, User
<1> HIDE DEF n, row, c
<1>8. /\ keys' \in [1..MaxKeys -> Key \cup {NoKey}] /\ SameKeys(keys, keys')
      /\ \A k \in 1..MaxKeys : keys[k] # NoKey /\ keys[k].name # n => keys'[k] = keys[k]
    BY <1>2, <1>4, RevokeAllSame DEF SameKeys, AuthInv, DataInv, DataTypes
<1>9. \A m \in Names : m # n => users'[m] = users[m]
    BY <1>4 DEF AuthInv, DataInv, DataTypes
<1>10. users[n] # NoUser
    BY <1>2, RowsAssumption
<1>11. DataInv'
    BY <1>2, <1>3, <1>4, <1>6, <1>7, <1>8, <1>10, AccountsKeep
<1>12. ServingInv'
    BY <1>1, <1>2, <1>4, <1>6, <1>8, <1>9, ReleaseKeeps
<1> QED BY <1>11, <1>12 DEF AuthInv

(* What an administrator does to another account.                          *)
LEMMA OnTargetKeeps ==
    ASSUME AuthInv, NEW r \in Requests, NEW kind \in TargetKinds, Granted(r, kind), NEW row,
           users[request[r].target] # NoUser,
           SameUser(users[request[r].target], row),
           users' = [users EXCEPT ![request[r].target] = row],
           keys' = keys \/ keys' = RevokeAll(request[r].target),
           Release(r), UNCHANGED <<records, cookies, tokens, tooled, nextUser, nextKey>>
    PROVE  AuthInv'
<1> DEFINE n == request[r].target
<1>1. request[r] # NoRequest /\ lock[LockOf[n]] = r /\ n \in Names
    BY GrantedHolds, Carried DEF Granted, TargetKinds
<1>2. /\ keys' \in [1..MaxKeys -> Key \cup {NoKey}] /\ SameKeys(keys, keys')
      /\ \A k \in 1..MaxKeys : keys[k] # NoKey /\ keys[k].name # n => keys'[k] = keys[k]
    <2>1. CASE keys' = keys
        BY <2>1 DEF SameKeys, AuthInv, DataInv, DataTypes
    <2>2. CASE keys' = RevokeAll(n)
        <3> DEFINE new == RevokeAll(n)
        <3>1. /\ new \in [1..MaxKeys -> Key \cup {NoKey}] /\ SameKeys(keys, new)
              /\ \A k \in 1..MaxKeys : keys[k] # NoKey /\ keys[k].name # n => new[k] = keys[k]
            BY <1>1, RevokeAllSame
        <3> HIDE DEF new
        <3>2. keys' = new
            BY <2>2 DEF new
        <3> QED BY <3>1, <3>2 DEF SameKeys
    <2> QED BY <2>1, <2>2
<1>3. DataInv'
    BY <1>1, <1>2, AccountsKeep
<1>4. \A m \in Names : m # n => users'[m] = users[m]
    BY DEF AuthInv, DataInv, DataTypes
<1>5. ServingInv'
    BY <1>1, <1>2, <1>4, ReleaseKeeps
<1> QED BY <1>3, <1>5 DEF AuthInv

LEMMA ToggleAllowKeeps ==
    ASSUME AuthInv, NEW r \in Requests, ToggleAllow(r)
    PROVE  AuthInv'
<1> DEFINE n == request[r].target
           row == [users[n] EXCEPT !.allowed = ~@]
<1>1. Granted(r, "allow") /\ n \in Names /\ users[n] # NoUser
    BY Carried DEF ToggleAllow, Granted
<1>2. SameUser(users[n], row)
    <2>1. users[n] \in User
        BY <1>1 DEF AuthInv, DataInv, DataTypes
    <2>2. \A user \in User, flag \in BOOLEAN : SameUser(user, [user EXCEPT !.allowed = flag])
        BY DEF SameUser, User
    <2>3. (~users[n].allowed) \in BOOLEAN
        OBVIOUS
    <2> QED BY <2>1, <2>2, <2>3
<1>3. users' = [users EXCEPT ![n] = row]
    BY DEF ToggleAllow
<1> QED BY <1>1, <1>2, <1>3, OnTargetKeeps DEF ToggleAllow, TargetKinds

LEMMA ResetPasswordKeeps ==
    ASSUME AuthInv, NEW r \in Requests, NEW revoke \in BOOLEAN, ResetPassword(r, revoke)
    PROVE  AuthInv'
<1> DEFINE n == request[r].target
           row == NewPassword(users[n], TRUE)
<1>1. Granted(r, "reset") /\ n \in Names /\ users[n] # NoUser
    BY Carried DEF ResetPassword, Granted
<1>2. SameUser(users[n], row)
    BY <1>1, NewPasswordSame DEF AuthInv, DataInv, DataTypes
<1>3. users' = [users EXCEPT ![n] = row] /\ (keys' = keys \/ keys' = RevokeAll(n))
    BY DEF ResetPassword
<1> QED BY <1>1, <1>2, <1>3, OnTargetKeeps DEF ResetPassword, TargetKinds

LEMMA PurgesKeep ==
    ASSUME AuthInv, NEW r \in Requests, Leave(r) \/ DeleteUser(r)
    PROVE  AuthInv'
<1>1. CASE Leave(r)
    <2>1. Granted(r, "leave") /\ Purge(By(r).name)
        BY <1>1 DEF Leave
    <2>2. request[r] # NoRequest /\ request[r].kind = "leave" /\ lock[LockOf[NameFor(request[r])]] = r
        BY <2>1, GrantedHolds
    <2>3. By(r).name \in Names /\ lock[LockOf[By(r).name]] = r
        BY <2>2, Carried DEF NameFor, EntryKinds, By, Sessions, OwnKinds, Cookie
    <2> QED BY <1>1, <2>1, <2>2, <2>3, PurgeKeeps DEF Leave
<1>2. CASE DeleteUser(r)
    <2>1. Granted(r, "delete") /\ Purge(request[r].target)
        BY <1>2 DEF DeleteUser
    <2>2. request[r] # NoRequest /\ lock[LockOf[request[r].target]] = r
        BY <2>1, GrantedHolds DEF TargetKinds
    <2>3. request[r].target \in Names
        BY <2>2, Carried
    <2> QED BY <1>2, <2>1, <2>2, <2>3, PurgeKeeps DEF DeleteUser
<1> QED BY <1>1, <1>2

LEMMA CreateKeyKeeps ==
    ASSUME AuthInv, NEW r \in Requests, NEW keep \in BOOLEAN, CreateKey(r, keep)
    PROVE  AuthInv'
<1> DEFINE n == By(r).name
           old == IF keep THEN keys ELSE RevokeAll(n)
           key == [name |-> n, owner |-> users[n].id, revoked |-> FALSE]
<1>1. Granted(r, "key")
    BY DEF CreateKey
<1>2. request[r] # NoRequest /\ request[r].kind = "key" /\ lock[LockOf[NameFor(request[r])]] = r
    BY <1>1, GrantedHolds
<1>3. n \in Names /\ lock[LockOf[n]] = r
    BY <1>2, Carried DEF NameFor, EntryKinds, By, Sessions, OwnKinds, Cookie
<1>4. users[n] \in User
    BY <1>3 DEF CreateKey, Validated, ValidSession, SameAccount, AuthInv, DataInv, DataTypes
<1>5. nextKey \in 1..MaxKeys
    BY AccountAssumption DEF CreateKey, AuthInv, DataInv, DataTypes
<1>6. /\ keys' = [old EXCEPT ![nextKey] = key] /\ Release(r)
      /\ tokens' = tokens \cup {[name |-> n, key |-> nextKey]} /\ nextKey' = nextKey + 1
      /\ UNCHANGED <<users, records, cookies, tooled, nextUser>>
    BY DEF CreateKey
<1>7. /\ old \in [1..MaxKeys -> Key \cup {NoKey}] /\ SameKeys(keys, old)
      /\ \A k \in 1..MaxKeys : keys[k] # NoKey /\ keys[k].name # n => old[k] = keys[k]
    BY <1>3, RevokeAllSame DEF SameKeys, AuthInv, DataInv, DataTypes
<1>8. key \in Key /\ key.name = n /\ key.owner = users[n].id
    BY <1>3, <1>4 DEF Key, User
<1>9. keys[nextKey] = NoKey
    BY <1>5 DEF AuthInv, DataInv, IdsInv
<1>10. CookieInv'
    BY <1>6 DEF AuthInv, DataInv, CookieInv
<1> HIDE DEF n, old, key
<1>11. /\ keys'[nextKey] = key /\ key # NoKey
       /\ \A k \in 1..MaxKeys : k # nextKey => keys'[k] = old[k]
    BY <1>5, <1>6, <1>7, <1>8, RowsAssumption
<1>12. ServingInv'
    BY <1>2, <1>3, <1>6, <1>7, <1>9, <1>11, ReleaseKeeps
<1>13. DataTypes'
    BY <1>3, <1>5, <1>6, <1>7, <1>8 DEF AuthInv, DataInv, DataTypes
<1>14. IdsInv'
    BY <1>5, <1>6, <1>7, <1>11 DEF AuthInv, DataInv, DataTypes, IdsInv, SameKeys
<1>15. NothingIsInherited'
    BY <1>3, <1>4, <1>6, <1>7, <1>8, <1>11, RowsAssumption
       DEF AuthInv, DataInv, DataTypes, NothingIsInherited, SameKeys, Key
<1> QED BY <1>10, <1>12, <1>13, <1>14, <1>15 DEF AuthInv, DataInv

LEMMA RevokeKeyKeeps ==
    ASSUME AuthInv, NEW r \in Requests, NEW id \in 1..MaxKeys, RevokeKey(r, id)
    PROVE  AuthInv'
<1> DEFINE n == By(r).name
           key == [keys[id] EXCEPT !.revoked = TRUE]
<1>1. Granted(r, "revoke") /\ keys[id] # NoKey /\ keys[id].name = n
    BY DEF RevokeKey
<1>2. request[r] # NoRequest /\ request[r].kind = "revoke" /\ lock[LockOf[NameFor(request[r])]] = r
    BY <1>1, GrantedHolds
<1>3. n \in Names /\ lock[LockOf[n]] = r
    BY <1>2, Carried DEF NameFor, EntryKinds, By, Sessions, OwnKinds, Cookie
<1>4. /\ keys' = [keys EXCEPT ![id] = key] /\ Release(r)
      /\ UNCHANGED <<users, records, cookies, tokens, tooled, nextUser, nextKey>>
    BY DEF RevokeKey
<1>5. key \in Key /\ key.name = keys[id].name /\ key.owner = keys[id].owner
    BY <1>1 DEF Key, AuthInv, DataInv, DataTypes
<1> HIDE DEF n, key
<1>6. keys'[id] = key /\ \A k \in 1..MaxKeys : k # id => keys'[k] = keys[k]
    BY <1>4 DEF AuthInv, DataInv, DataTypes
<1>7. ServingInv'
    BY <1>1, <1>2, <1>3, <1>4, <1>6, ReleaseKeeps
<1>8. DataTypes'
    BY <1>4, <1>5 DEF AuthInv, DataInv, DataTypes
<1>9. IdsInv' /\ CookieInv'
    BY <1>1, <1>4, <1>6 DEF AuthInv, DataInv, IdsInv, CookieInv
<1>10. NothingIsInherited'
    BY <1>1, <1>4, <1>5, <1>6 DEF AuthInv, DataInv, NothingIsInherited
<1> QED BY <1>7, <1>8, <1>9, <1>10 DEF AuthInv, DataInv

(* A name that was free: nothing is stored under it, and no cookie has the *)
(* id of the new account.                                                  *)
LEMMA SignUpKeeps ==
    ASSUME AuthInv, NEW r \in Requests, SignUp(r)
    PROVE  AuthInv'
<1> DEFINE n == request[r].target
           first == \A m \in Names : users[m] = NoUser
           row == [id |-> nextUser, allowed |-> first, admin |-> first, must |-> FALSE, epoch |-> 0]
<1>1. Granted(r, "signup") /\ users[n] = NoUser
    BY DEF SignUp
<1>2. request[r] # NoRequest /\ request[r].kind = "signup" /\ lock[LockOf[NameFor(request[r])]] = r
    BY <1>1, GrantedHolds
<1>3. n \in Names /\ lock[LockOf[n]] = r
    BY <1>2, Carried DEF NameFor, EntryKinds
<1>4. /\ users' = [users EXCEPT ![n] = row] /\ Release(r) /\ nextUser' = nextUser + 1
      /\ UNCHANGED <<keys, records, cookies, tokens, tooled, nextKey>>
    BY DEF SignUp
<1>5. nextUser \in Nat /\ row \in User /\ row.id = nextUser
    <2>1. first \in BOOLEAN
        OBVIOUS
    <2>2. nextUser \in Nat
        BY DEF AuthInv, DataInv, DataTypes
    <2> HIDE DEF first
    <2> QED BY <2>1, <2>2 DEF User
<1> HIDE DEF n, row
<1>6. users'[n] = row /\ \A m \in Names : m # n => users'[m] = users[m]
    BY <1>3, <1>4 DEF AuthInv, DataInv, DataTypes
<1>7. ServingInv'
    BY <1>2, <1>3, <1>4, <1>6, ReleaseKeeps
<1>8. DataTypes'
    <2>1. users' \in [Names -> User \cup {NoUser}]
        BY <1>4, <1>5 DEF AuthInv, DataInv, DataTypes
    <2>2. nextUser' \in Nat
        BY <1>4, <1>5
    <2> QED BY <1>4, <2>1, <2>2 DEF AuthInv, DataInv, DataTypes
<1>9. IdsInv'
    BY <1>4, <1>5, <1>6 DEF AuthInv, DataInv, DataTypes, IdsInv, User
<1>10. CookieInv'
    BY <1>4, <1>5, <1>6 DEF AuthInv, DataInv, DataTypes, CookieInv, SameAccount, Cookie
<1>11. NothingIsInherited'
    BY <1>1, <1>4, <1>6 DEF AuthInv, DataInv, DataTypes, NothingIsInherited, Key
<1> QED BY <1>7, <1>8, <1>9, <1>10, <1>11 DEF AuthInv, DataInv

(* The tool knows no locks: of an account it was used on only its id is    *)
(* still what a request was checked for.                                   *)
LEMMA ToolKeeps ==
    ASSUME AuthInv, NEW n \in Names, NEW random \in BOOLEAN, NEW unlock \in BOOLEAN,
           NEW promote \in BOOLEAN, NEW keep \in BOOLEAN, Tool(n, random, unlock, promote, keep)
    PROVE  AuthInv'
<1> DEFINE new == NewPassword(users[n], random)
           row == [new EXCEPT !.allowed = new.allowed \/ unlock, !.admin = new.admin \/ promote]
<1>1. users[n] \in User /\ users[n] # NoUser
    BY DEF Tool, AuthInv, DataInv, DataTypes
<1>2. /\ users' = [users EXCEPT ![n] = row]
      /\ keys' = IF keep THEN keys ELSE RevokeAll(n)
      /\ tooled' = tooled \cup {n}
      /\ UNCHANGED <<records, lock, request, cookies, tokens, nextUser, nextKey>>
    BY DEF Tool
<1>3. SameUser(users[n], row)
    <2>1. SameUser(users[n], new) /\ new.epoch = users[n].epoch + 1
        BY <1>1, NewPasswordSame
    <2> HIDE DEF new
    <2>2. \A a, b \in BOOLEAN : [new EXCEPT !.allowed = a, !.admin = b] \in User
        BY <2>1 DEF SameUser, User
    <2>3. (new.allowed \/ unlock) \in BOOLEAN /\ (new.admin \/ promote) \in BOOLEAN
        OBVIOUS
    <2>4. row \in User
        BY <2>2, <2>3
    <2>5. row.id = new.id /\ row.epoch = new.epoch
        BY <2>1 DEF SameUser, User
    <2>6. users[n].epoch \in Nat
        BY <1>1 DEF User
    <2> HIDE DEF row
    <2> QED BY <2>1, <2>4, <2>5, <2>6 DEF SameUser
<1> HIDE DEF row
<1>4. /\ keys' \in [1..MaxKeys -> Key \cup {NoKey}] /\ SameKeys(keys, keys')
      /\ \A k \in 1..MaxKeys : keys[k] # NoKey /\ keys[k].name # n => keys'[k] = keys[k]
    BY <1>2, RevokeAllSame DEF SameKeys, AuthInv, DataInv, DataTypes
<1>5. DataInv'
    BY <1>1, <1>2, <1>3, <1>4, AccountsKeep
<1>6. users'[n] = row /\ \A m \in Names : m # n => users'[m] = users[m]
    BY <1>2 DEF AuthInv, DataInv, DataTypes
<1>7. ServingTypes' /\ SentInv' /\ LockInv'
    BY <1>2 DEF AuthInv, ServingInv, ServingTypes, SentInv, Sent, LockInv, Locked, Holds
<1>8. CheckInv'
    <2> SUFFICES ASSUME NEW q \in Requests, request[q] # NoRequest, MustHold(request[q])
                 PROVE  Checked(request[q])'
        BY <1>2 DEF CheckInv, MustHold
    <2> DEFINE x == request[q]
    <2>1. x.by.name \in Names /\ Checked(x) /\ (x.kind = "bot" => x.by.key \in 1..MaxKeys)
        BY Carried DEF AuthInv, ServingInv, CheckInv, MustHold, Request, Sessions, By, Cookie
    <2>2. x.kind = "bot" => keys'[x.by.key] # NoKey /\ keys'[x.by.key].name = x.by.name
        <3> SUFFICES ASSUME x.kind = "bot"
                     PROVE  keys'[x.by.key] # NoKey /\ keys'[x.by.key].name = x.by.name
            OBVIOUS
        <3>1. keys[x.by.key] \in Key /\ keys[x.by.key].name = x.by.name
            BY <2>1 DEF Checked, Bears, AuthInv, DataInv, DataTypes
        <3>2. \A key \in Key : [key EXCEPT !.revoked = TRUE] \in Key /\ [key EXCEPT !.revoked = TRUE].name = key.name
            BY DEF Key
        <3>3. x.by.key \in 1..MaxKeys
            BY <2>1
        <3> DEFINE k == x.by.key
        <3> HIDE DEF k
        <3>4. \/ keys'[k] = keys[k]
              \/ keys'[k] = [keys[k] EXCEPT !.revoked = TRUE]
            BY <1>4, <3>3 DEF SameKeys, k
        <3>5. keys[k] \in Key /\ keys[k].name = x.by.name
            BY <3>1 DEF k
        <3>6. keys'[k] # NoKey /\ keys'[k].name = x.by.name
            BY <3>2, <3>4, <3>5, RowsAssumption
        <3> QED BY <3>6 DEF k
    <2>3. CASE x.by.name = n
        <3>1. x.by.name \in tooled'
            BY <1>2, <2>3
        <3>2. row # NoUser /\ row.id = users[n].id
            BY <1>3, RowsAssumption DEF SameUser
        <3>3. Bears(x)'
            BY <1>2, <1>6, <2>1, <2>2, <2>3, <3>2 DEF Checked, Bears, SameAccount
        <3> QED BY <1>2, <3>1, <3>3 DEF Checked
    <2>4. CASE x.by.name # n
        <3>1. users'[x.by.name] = users[x.by.name]
            BY <1>6, <2>1, <2>4
        <3>2. x.kind = "bot" => keys'[x.by.key] = keys[x.by.key]
            BY <1>4, <2>1, <2>4 DEF Checked, Bears
        <3>3. Bears(x)'
            BY <1>2, <2>1, <2>2, <3>1 DEF Checked, Bears, SameAccount
        <3>4. x.by.name \notin tooled' => Passes(x)'
            <4>1. CASE x.kind = "bot"
                BY <1>2, <2>1, <3>1, <3>2, <4>1 DEF Checked, Passes, ValidToken, EntryKinds
            <4>2. CASE x.kind # "bot"
                BY <1>2, <2>1, <3>1, <4>2 DEF Checked, Passes, Admitted, ValidSession, SameAccount
            <4> QED BY <4>1, <4>2
        <3> QED BY <3>3, <3>4, <1>2 DEF Checked
    <2> QED BY <2>3, <2>4
<1> QED BY <1>5, <1>7, <1>8 DEF AuthInv, ServingInv

-----------------------------------------------------------------------------
(* The invariant, and what follows from it.                                *)

LEMMA StepKeeps == AuthInv /\ [AuthNext]_authVars => AuthInv'
<1> SUFFICES ASSUME AuthInv, [AuthNext]_authVars PROVE AuthInv'
    OBVIOUS
<1>1. ASSUME NEW r \in Requests, Handle(r) PROVE AuthInv'
    BY <1>1, ReadKeeps, WriteKeeps, PurgesKeep, ToggleAllowKeeps, ChangePasswordKeeps,
       CreateKeyKeeps, ResetPasswordKeeps, RevokeKeyKeeps, LoginKeeps, SignUpKeeps DEF Handle
<1>2. CASE UNCHANGED authVars
    BY <1>2 DEF authVars, AuthInv, ServingInv, ServingTypes, SentInv, Sent, LockInv, Locked, Holds,
                CheckInv, Checked, Bears, Passes, Admitted, ValidSession, ValidToken, SameAccount,
                DataInv, DataTypes, IdsInv, CookieInv, NothingIsInherited
<1> QED BY <1>1, <1>2, BeginKeeps, TakeLockKeeps, RefuseKeeps, ToolKeeps DEF AuthNext

(* Every reachable state has its shape and the invariants above.            *)
THEOREM AuthInvariant == AuthSpec => []AuthInv
<1>1. AuthInit => AuthInv
    BY InitAuth
<1>2. AuthInv /\ [AuthNext]_authVars => AuthInv'
    BY StepKeeps
<1> QED BY <1>1, <1>2, PTL DEF AuthSpec

(* What is stored under a name, its keys included, is from the account     *)
(* that has the name now: the deletion of an account leaves nothing, and   *)
(* no request outlives the account it was checked for.                     *)
THEOREM NothingInherited == AuthSpec => []NothingIsInherited
<1>1. AuthInv => NothingIsInherited
    BY DEF AuthInv, DataInv
<1> QED BY <1>1, AuthInvariant, PTL

(* A read without locks shows the account of its session.                  *)
THEOREM ReadsShowOwn == AuthSpec => []ReadsShowOwnAccount
<1>1. AuthInv => ReadsShowOwnAccount
    BY DEF AuthInv, ServingInv, SentInv, Sent, ReadsShowOwnAccount, By
<1> QED BY <1>1, AuthInvariant, PTL

(* What a request was checked for holds until its handler runs.            *)
THEOREM ChecksHold == AuthSpec => []ChecksHoldUntilTheEnd
<1>1. AuthInv => ChecksHoldUntilTheEnd
    BY DEF AuthInv, ServingInv, CheckInv, Checked, MustHold, ChecksHoldUntilTheEnd, By
<1> QED BY <1>1, AuthInvariant, PTL

LEMMA OwnerOfCookie ==
    ASSUME AuthInv, NEW r \in Requests, NEW kind \in Sessions, Granted(r, kind), Validated(r)
    PROVE  /\ By(r).name \in Names /\ users[By(r).name] \in User
           /\ By(r).admin = users[By(r).name].admin
<1>1. By(r) \in cookies /\ By(r) \in Cookie
    BY Carried DEF Granted
<1> QED BY <1>1 DEF Validated, ValidSession, SameAccount, Cookie, AuthInv, DataInv, DataTypes, CookieInv

(* Whose row a step may change, and how.                                   *)
LEMMA AdministratorsStayInSteps ==
    ASSUME AuthInv, AuthNext, NEW n \in Names, users[n] # NoUser, users[n].admin
    PROVE  users'[n] # NoUser /\ users'[n].admin /\ (users[n].allowed => users'[n].allowed)
<1> DEFINE Stays == users'[n] # NoUser /\ users'[n].admin /\ (users[n].allowed => users'[n].allowed)
<1>1. users[n] \in User /\ users \in [Names -> User \cup {NoUser}]
    BY DEF AuthInv, DataInv, DataTypes
<1>2. ASSUME users' = users PROVE Stays
    BY <1>2
<1>3. ASSUME NEW m \in Names, m # n, NEW row, users' = [users EXCEPT ![m] = row] PROVE Stays
    BY <1>1, <1>3
<1>4. ASSUME NEW m \in Names, users[m] # NoUser, NEW must \in BOOLEAN,
             users' = [users EXCEPT ![m] = NewPassword(users[m], must)]
      PROVE  Stays
    <2>1. CASE m # n
        BY <1>3, <1>4, <2>1
    <2>2. CASE m = n
        <3> DEFINE row == NewPassword(users[n], must)
        <3>1. row \in User /\ row.admin = users[n].admin /\ row.allowed = users[n].allowed
            BY <1>1, <1>4, NewPasswordSame DEF SameUser
        <3>2. users' = [users EXCEPT ![n] = row]
            BY <1>4, <2>2
        <3> HIDE DEF row
        <3>3. users'[n] = row
            BY <1>1, <3>2
        <3> QED BY <3>1, <3>3, RowsAssumption
    <2> QED BY <2>1, <2>2
<1>5. ASSUME NEW r \in Requests, Begin(r) \/ TakeLock(r) \/ Refuse(r) PROVE users' = users
    <2>1. ASSUME NEW q, Proceed(r, q) PROVE users' = users
        BY <2>1, Zenon DEF Proceed
    <2>2. CASE Begin(r) \/ TakeLock(r)
        <3> HIDE DEF AuthInv
        <3> QED BY <2>1, <2>2 DEF Begin, CheckRead, Arrive, TakeLock
    <2>3. CASE Refuse(r)
        BY <2>3 DEF Refuse
    <2> QED BY <1>5, <2>2, <2>3
<1>6. ASSUME NEW r \in Requests, Handle(r) PROVE Stays
    <2>1. CASE \/ Read(r) \/ Write(r) \/ Login(r)
               \/ \E flag \in BOOLEAN : CreateKey(r, flag)
               \/ \E k \in 1..MaxKeys : RevokeKey(r, k)
        BY <1>2, <2>1 DEF Read, Show, Write, Login, CreateKey, RevokeKey
    <2>2. CASE Leave(r)
        <3>1. By(r).name \in Names /\ By(r).name # n
            BY <2>2, OwnerOfCookie DEF Leave, Sessions, OwnKinds
        <3> QED BY <1>3, <2>2, <3>1 DEF Leave, Purge
    <2>3. CASE DeleteUser(r)
        <3>1. request[r].target \in Names /\ request[r].target # n
            BY <2>3, Carried DEF DeleteUser, Granted
        <3> QED BY <1>3, <2>3, <3>1 DEF DeleteUser, Purge
    <2>4. CASE ToggleAllow(r)
        <3>1. request[r].target \in Names /\ request[r].target # n
            BY <2>4, Carried DEF ToggleAllow, Granted
        <3> QED BY <1>3, <2>4, <3>1 DEF ToggleAllow
    <2>5. CASE SignUp(r)
        <3>1. request[r].target \in Names /\ request[r].target # n
            BY <2>5, Carried DEF SignUp, Granted
        <3> QED BY <1>3, <2>5, <3>1 DEF SignUp
    <2>6. ASSUME NEW flag \in BOOLEAN, ChangePassword(r, flag) PROVE Stays
        <3>1. By(r).name \in Names /\ users[By(r).name] # NoUser
            BY <2>6, OwnerOfCookie, RowsAssumption DEF ChangePassword, Sessions, OwnKinds
        <3> QED BY <1>4, <2>6, <3>1 DEF ChangePassword
    <2>7. ASSUME NEW flag \in BOOLEAN, ResetPassword(r, flag) PROVE Stays
        <3>1. request[r].target \in Names
            BY <2>7, Carried DEF ResetPassword, Granted
        <3> QED BY <1>4, <2>7, <3>1 DEF ResetPassword
    <2> QED BY <1>6, <2>1, <2>2, <2>3, <2>4, <2>5, <2>6, <2>7 DEF Handle
<1>7. ASSUME NEW m \in Names, NEW random \in BOOLEAN, NEW unlock \in BOOLEAN,
             NEW promote \in BOOLEAN, NEW keep \in BOOLEAN, Tool(m, random, unlock, promote, keep)
      PROVE  Stays
    <2>1. CASE m # n
        BY <1>3, <1>7, <2>1 DEF Tool
    <2>2. CASE m = n
        <3> DEFINE new == NewPassword(users[n], random)
                   row == [new EXCEPT !.allowed = new.allowed \/ unlock, !.admin = new.admin \/ promote]
        <3>1. new \in User /\ new.admin = users[n].admin /\ new.allowed = users[n].allowed
            BY <1>1, NewPasswordSame DEF SameUser
        <3>2. users' = [users EXCEPT ![n] = row]
            BY <1>7, <2>2 DEF Tool
        <3> HIDE DEF new
        <3>3. row.allowed = (new.allowed \/ unlock) /\ row.admin = (new.admin \/ promote)
            BY <3>1 DEF User
        <3>4. \A a, b \in BOOLEAN : [new EXCEPT !.allowed = a, !.admin = b] \in User
            BY <3>1 DEF User
        <3>5. (new.allowed \/ unlock) \in BOOLEAN /\ (new.admin \/ promote) \in BOOLEAN
            OBVIOUS
        <3>6. row \in User
            BY <3>4, <3>5
        <3> HIDE DEF row
        <3>7. users'[n] = row
            BY <1>1, <3>2
        <3> QED BY <3>1, <3>3, <3>6, <3>7, RowsAssumption
    <2> QED BY <2>1, <2>2
<1> HIDE DEF Stays
<1>8. Stays
    BY <1>2, <1>5, <1>6, <1>7 DEF AuthNext
<1> QED BY <1>8 DEF Stays

(* An administrator is never deleted, blocked or demoted, by anybody.      *)
THEOREM AdministratorsRemain == AuthSpec => AdministratorsStay
<1> DEFINE Stay ==
        \A n \in Names :
          /\ users[n] # NoUser
          /\ users[n].admin
          => users'[n] # NoUser /\ users'[n].admin /\ (users[n].allowed => users'[n].allowed)
<1>1. AuthInv /\ [AuthNext]_authVars => [Stay]_authVars
    BY AdministratorsStayInSteps
<1> QED BY <1>1, AuthInvariant, PTL DEF AuthSpec, AdministratorsStay

-----------------------------------------------------------------------------
(* Locks in order.                                                         *)

LEMMA LeastLock ==
    ASSUME NEW S \in SUBSET Locks, S # {}
    PROVE  \E l \in S : \A m \in S : l <= m
<1> DEFINE R == {p \in S \X S : p[1] > p[2]}
<1>1. S \subseteq Nat /\ IsFiniteSet(S)
    BY AccountAssumption, FS_Subset
<1>2. \A x, y \in S : <<x, y>> \in R <=> x > y
    OBVIOUS
<1> HIDE DEF R
<1>3. /\ \A x, y, z \in S : <<x, y>> \in R /\ <<y, z>> \in R => <<x, z>> \in R
      /\ \A x \in S : <<x, x>> \notin R
    BY <1>1, <1>2
<1>4. PICK l \in S : \A m \in S : <<l, m>> \notin R
    BY <1>1, <1>3, LastElement
<1>5. \A m \in S : ~(l > m)
    BY <1>2, <1>4
<1> QED BY <1>1, <1>5

LEMMA GreatestLock ==
    ASSUME NEW S \in SUBSET Locks, S # {}
    PROVE  \E l \in S : \A m \in S : l >= m
<1> DEFINE R == {p \in S \X S : p[1] < p[2]}
<1>1. S \subseteq Nat /\ IsFiniteSet(S)
    BY AccountAssumption, FS_Subset
<1>2. \A x, y \in S : <<x, y>> \in R <=> x < y
    OBVIOUS
<1> HIDE DEF R
<1>3. /\ \A x, y, z \in S : <<x, y>> \in R /\ <<y, z>> \in R => <<x, z>> \in R
      /\ \A x \in S : <<x, x>> \notin R
    BY <1>1, <1>2
<1>4. PICK l \in S : \A m \in S : <<l, m>> \notin R
    BY <1>1, <1>3, LastElement
<1>5. \A m \in S : ~(l < m)
    BY <1>2, <1>4
<1> QED BY <1>1, <1>5

(* If all of a set waited for others of it, the one with the greatest lock *)
(* that any of them holds would wait for a greater one.                    *)
LEMMA NoCircle ==
    ASSUME AuthInv, NEW set \in SUBSET Requests, set # {}
    PROVE  \E r \in set : \A q \in set : q # r => ~Waits(r, q)
<1> SUFFICES ASSUME \A r \in set : \E q \in set : Waits(r, q)
             PROVE  FALSE
    OBVIOUS
<1>1. ASSUME NEW r \in set, NEW q \in Requests, Waits(r, q)
      PROVE  \E l \in Locks : lock[l] = q /\ \A m \in Locks : lock[m] = r => m < l
    <2>1. request[r] \in Request /\ Sent(request[r]) /\ Locked(r, request[r])
        BY <1>1, Carried DEF Waits, AuthInv, ServingInv, SentInv, LockInv
    <2>2. request[r].need \in SUBSET Locks /\ request[r].need # {}
        BY <1>1, <2>1 DEF Waits, Sent, Request
    <2>3. PICK l \in request[r].need : \A m \in request[r].need : l <= m
        BY <2>2, LeastLock
    <2>4. l \in Turn(request[r].need)
        BY <2>3 DEF Turn
    <2> QED BY <1>1, <2>1, <2>2, <2>4 DEF Waits, Locked, Holds
<1> DEFINE taken == {l \in Locks : lock[l] \in set}
<1>2. taken \in SUBSET Locks /\ taken # {}
    <2>1. PICK r \in set : TRUE
        OBVIOUS
    <2>2. PICK q \in set : Waits(r, q)
        OBVIOUS
    <2> QED BY <1>1, <2>2
<1>3. PICK l \in taken : \A m \in taken : l >= m
    BY <1>2, GreatestLock
<1>4. PICK q \in set : Waits(lock[l], q)
    OBVIOUS
<1>5. PICK m \in Locks : lock[m] = q /\ l < m
    BY <1>1, <1>4
<1>6. m \in taken /\ l \in Nat /\ m \in Nat
    BY <1>5, AccountAssumption
<1> QED BY <1>3, <1>5, <1>6

(* Requests that hold a lock and wait for another one, administrators' who *)
(* act on each other included, never wait in a circle.                     *)
THEOREM NobodyWaitsInACircle == AuthSpec => []NoCircularWait
<1>1. AuthInv => NoCircularWait
    BY NoCircle DEF NoCircularWait
<1> QED BY <1>1, AuthInvariant, PTL

-----------------------------------------------------------------------------
(* Bots: commands and records.                                             *)

CommandInv ==
    /\ ComTypeOK
    /\ \A i \in Ids :
          /\ i > lastId => commands[i] = NoRow /\ i \notin ran /\ i \notin finished
          /\ commands[i] # NoRow =>
                /\ ~commands[i].delivered => i \notin ran
                /\ commands[i].acked => i \in finished
    /\ \A b \in Bots : machine[b].doing \subseteq ran /\ machine[b].owed \subseteq finished

-----------------------------------------------------------------------------
(* Commands.                                                               *)

LEMMA CommandsInit == ComInit => CommandInv
BY BotAssumption DEF ComInit, CommandInv, ComTypeOK, Machine, Ids

(* Ack and what Heartbeat writes after it, for one table.                  *)
LEMMA AckKeeps ==
    ASSUME CommandInv, NEW b \in Bots, NEW ack \in machine[b].owed \cup {0}
    PROVE  /\ Ack(commands, b, ack) \in [Ids -> Command \cup {NoRow}]
           /\ \A i \in Ids :
                 LET row == Ack(commands, b, ack)[i]
                 IN  /\ row = NoRow <=> commands[i] = NoRow
                     /\ row # NoRow => /\ row \in Command
                                       /\ row.delivered = commands[i].delivered
                                       /\ row.acked => i \in finished
<1> DEFINE table == Ack(commands, b, ack)
<1>1. commands \in [Ids -> Command \cup {NoRow}] /\ machine[b].owed \subseteq finished
    BY DEF CommandInv, ComTypeOK
<1>2. CASE table = commands
    BY <1>1, <1>2, RowAssumption DEF CommandInv
<1>3. CASE table # commands
    <2>1. /\ ack \in Ids /\ commands[ack] # NoRow
          /\ table = [commands EXCEPT ![ack].acked = TRUE]
        BY <1>3 DEF Ack
    <2>2. commands[ack] \in Command /\ ack \in finished
        BY <1>1, <2>1 DEF Ids
    <2>3. [commands[ack] EXCEPT !.acked = TRUE] \in Command
        BY <2>2 DEF Command
    <2>4. \A i \in Ids : table[i] = IF i = ack THEN [commands[ack] EXCEPT !.acked = TRUE]
                                              ELSE commands[i]
        BY <1>1, <2>1
    <2>5. table \in [Ids -> Command \cup {NoRow}]
        BY <1>1, <2>1, <2>3
    <2>6. ASSUME NEW i \in Ids
          PROVE  /\ table[i] = NoRow <=> commands[i] = NoRow
                 /\ table[i] # NoRow => /\ table[i] \in Command
                                        /\ table[i].delivered = commands[i].delivered
                                        /\ table[i].acked => i \in finished
        <3>1. CASE i = ack
            BY <2>1, <2>2, <2>3, <2>4, <3>1, RowAssumption DEF Command
        <3>2. CASE i # ack
            BY <1>1, <2>4, <3>2 DEF CommandInv
        <3> QED BY <3>1, <3>2
    <2> HIDE DEF table
    <2>7. QED BY <2>5, <2>6 DEF table
<1> QED BY <1>2, <1>3

LEMMA HeartbeatKeeps ==
    ASSUME CommandInv, NEW b \in Bots, NEW ack \in Ids \cup {0}, NEW heard \in BOOLEAN,
           Heartbeat(b, ack, heard)
    PROVE  CommandInv' /\ \A x \in Bots : \A i \in machine'[x].doing \ machine[x].doing : i \notin ran
<1> DEFINE acked == Ack(commands, b, ack)
           known == Known \cup {b}
           taken == IF machine[b].status = "running"
                      THEN Oldest(Open(acked, b, Cardinality(known) <= 1)) ELSE {}
<1>1. /\ bots \in [Bots -> Report \cup {NoRow}]
      /\ commands \in [Ids -> Command \cup {NoRow}]
      /\ machine \in [Bots -> Machine] /\ machine[b] \in Machine
      /\ ran \subseteq Ids
    BY DEF CommandInv, ComTypeOK
<1>2. ack \in machine[b].owed \cup {0}
    BY DEF Heartbeat
<1>3. /\ acked \in [Ids -> Command \cup {NoRow}]
      /\ \A i \in Ids : /\ acked[i] = NoRow <=> commands[i] = NoRow
                        /\ acked[i] # NoRow => /\ acked[i] \in Command
                                               /\ acked[i].delivered = commands[i].delivered
                                               /\ acked[i].acked => i \in finished
    <2> HIDE DEF acked
    <2> QED BY <1>2, AckKeeps DEF acked
<1>4. /\ taken \subseteq Ids
      /\ \A i \in taken : acked[i] # NoRow /\ ~acked[i].delivered
    BY DEF Oldest, Open
<1>5. /\ bots' = [bots EXCEPT ![b] = [status |-> machine[b].status, age |-> 0]]
      /\ cell' = [status |-> machine[b].status, age |-> 0]
      /\ commands' = [i \in Ids |-> IF i \in taken THEN [acked[i] EXCEPT !.delivered = TRUE]
                                                   ELSE acked[i]]
      /\ IF heard
           THEN /\ machine' = [machine EXCEPT ![b] =
                                 [machine[b] EXCEPT !.doing = machine[b].doing \cup taken,
                                                    !.owed = machine[b].owed \ {ack}]]
                /\ ran' = ran \cup taken
           ELSE UNCHANGED <<machine, ran>>
      /\ UNCHANGED <<lastId, finished>>
    BY <1>1 DEF Heartbeat
<1> HIDE DEF acked, taken
<1>6. \A i \in taken : i \notin ran
    BY <1>3, <1>4 DEF CommandInv
<1>7. /\ machine' \in [Bots -> Machine]
      /\ \A x \in Bots : /\ machine'[x].owed \subseteq machine[x].owed
                         /\ machine'[x].doing \subseteq machine[x].doing \cup taken
    <2>1. CASE heard
        <3> DEFINE new == [machine[b] EXCEPT !.doing = machine[b].doing \cup taken,
                                             !.owed = machine[b].owed \ {ack}]
        <3>1. /\ new \in Machine
              /\ new.owed \subseteq machine[b].owed
              /\ new.doing = machine[b].doing \cup taken
            BY <1>1, <1>4 DEF Machine
        <3>2. machine' = [machine EXCEPT ![b] = new]
            BY <1>5, <2>1
        <3> HIDE DEF new
        <3> QED BY <1>1, <3>1, <3>2
    <2>2. CASE ~heard
        BY <1>1, <1>5, <2>2
    <2> QED BY <2>1, <2>2
<1>8. \A i \in Ids : /\ commands'[i] \in Command \cup {NoRow}
                     /\ commands'[i] = NoRow <=> commands[i] = NoRow
                     /\ commands'[i] # NoRow =>
                           /\ ~commands'[i].delivered => ~commands[i].delivered /\ i \notin taken
                           /\ commands'[i].acked => i \in finished
    <2> SUFFICES ASSUME NEW i \in Ids
                 PROVE  /\ commands'[i] \in Command \cup {NoRow}
                        /\ commands'[i] = NoRow <=> commands[i] = NoRow
                        /\ commands'[i] # NoRow =>
                              /\ ~commands'[i].delivered => ~commands[i].delivered /\ i \notin taken
                              /\ commands'[i].acked => i \in finished
        OBVIOUS
    <2>1. CASE i \in taken
        <3>1. acked[i] \in Command /\ acked[i] # NoRow /\ commands[i] # NoRow
            BY <1>3, <1>4, <2>1
        <3>2. commands'[i] = [acked[i] EXCEPT !.delivered = TRUE]
            BY <1>5, <2>1
        <3>3. /\ commands'[i] \in Command
              /\ commands'[i].delivered
              /\ commands'[i].acked = acked[i].acked
            BY <3>1, <3>2 DEF Command
        <3> QED BY <1>3, <3>1, <3>3, RowAssumption
    <2>2. CASE i \notin taken
        <3>1. commands'[i] = acked[i]
            BY <1>5, <2>2
        <3> QED BY <1>3, <2>2, <3>1
    <2> QED BY <2>1, <2>2
<1>9. ComTypeOK'
    <2>1. [status |-> machine[b].status, age |-> 0] \in Report
        BY <1>1, BotAssumption DEF Machine, Report
    <2>2. commands' \in [Ids -> Command \cup {NoRow}]
        BY <1>5, <1>8
    <2>3. ran' \subseteq Ids
        BY <1>1, <1>4, <1>5
    <2> QED BY <1>1, <1>5, <1>7, <2>1, <2>2, <2>3 DEF ComTypeOK, CommandInv
<1>10. \A i \in Ids : /\ i > lastId' => commands'[i] = NoRow /\ i \notin ran' /\ i \notin finished'
                      /\ commands'[i] # NoRow =>
                            /\ ~commands'[i].delivered => i \notin ran'
                            /\ commands'[i].acked => i \in finished'
    <2> SUFFICES ASSUME NEW i \in Ids
                 PROVE  /\ i > lastId' => commands'[i] = NoRow /\ i \notin ran' /\ i \notin finished'
                        /\ commands'[i] # NoRow =>
                              /\ ~commands'[i].delivered => i \notin ran'
                              /\ commands'[i].acked => i \in finished'
        OBVIOUS
    <2>1. ran' \subseteq ran \cup taken
        BY <1>5
    <2>2. i > lastId => i \notin taken
        BY <1>3, <1>4 DEF CommandInv
    <2>3. /\ i > lastId => commands[i] = NoRow /\ i \notin ran /\ i \notin finished
          /\ commands[i] # NoRow => (~commands[i].delivered => i \notin ran)
        BY DEF CommandInv
    <2>4. lastId' = lastId /\ finished' = finished
        BY <1>5
    <2> QED BY <1>8, <2>1, <2>2, <2>3, <2>4
<1>11. \A x \in Bots : machine'[x].doing \subseteq ran' /\ machine'[x].owed \subseteq finished'
    <2>1. CASE heard
        BY <1>5, <1>7, <2>1 DEF CommandInv
    <2>2. CASE ~heard
        BY <1>5, <2>2 DEF CommandInv
    <2> QED BY <2>1, <2>2
<1>12. CommandInv'
    BY <1>9, <1>10, <1>11 DEF CommandInv
<1> QED BY <1>6, <1>7, <1>12

LEMMA RequestKeeps ==
    ASSUME CommandInv, NEW wanted \in Bots \cup {NoBot}, RequestResync(wanted)
    PROVE  CommandInv' /\ UNCHANGED machine
<1> DEFINE id == NextId(commands, lastId)
           target == Target(wanted, Known)
           row == [target |-> target, age |-> 0, delivered |-> FALSE, acked |-> FALSE]
<1>1. /\ commands \in [Ids -> Command \cup {NoRow}] /\ lastId \in 0..MaxCommands
      /\ ran \subseteq Ids /\ finished \subseteq Ids
    BY DEF CommandInv, ComTypeOK
<1>2. /\ id = lastId + 1 /\ id \in Ids
      /\ commands' = [commands EXCEPT ![id] = row]
      /\ lastId' = id /\ ran' = ran \ {id} /\ finished' = finished \ {id}
      /\ UNCHANGED <<bots, cell, machine>>
    BY DEF RequestResync, NextId
<1>3. target \in Bots \cup {NoBot}
    <2>1. Known \subseteq Bots
        BY DEF Known
    <2> QED BY <2>1 DEF Target
<1>4. row \in Command /\ ~row.delivered /\ ~row.acked
    BY <1>3, BotAssumption DEF Command
<1> HIDE DEF id, row
<1>5. id \notin ran /\ id \notin finished
    BY <1>1, <1>2 DEF CommandInv
<1>6. ComTypeOK'
    <2>1. commands' \in [Ids -> Command \cup {NoRow}]
        BY <1>1, <1>2, <1>4
    <2>2. lastId' \in 0..MaxCommands
        BY <1>2, BotAssumption DEF Ids
    <2> QED BY <1>1, <1>2, <2>1, <2>2 DEF CommandInv, ComTypeOK
<1>7. ran' = ran /\ finished' = finished
    BY <1>2, <1>5
<1>8. \A i \in Ids : commands'[i] = IF i = id THEN row ELSE commands[i]
    BY <1>1, <1>2
<1>9. \A i \in Ids : /\ i > lastId' => commands'[i] = NoRow /\ i \notin ran' /\ i \notin finished'
                     /\ commands'[i] # NoRow =>
                           /\ ~commands'[i].delivered => i \notin ran'
                           /\ commands'[i].acked => i \in finished'
    BY <1>1, <1>2, <1>4, <1>5, <1>7, <1>8, BotAssumption DEF CommandInv, Ids
<1> QED BY <1>2, <1>6, <1>7, <1>9 DEF CommandInv

LEMMA DeleteBotKeeps ==
    ASSUME CommandInv, NEW b \in Bots, DeleteBot(b)
    PROVE  CommandInv' /\ UNCHANGED machine
<1>1. /\ bots \in [Bots -> Report \cup {NoRow}]
      /\ commands \in [Ids -> Command \cup {NoRow}]
    BY DEF CommandInv, ComTypeOK
<1>2. /\ \A i \in Ids : commands'[i] \in {commands[i], NoRow}
      /\ commands' \in [Ids -> Command \cup {NoRow}]
    BY <1>1 DEF DeleteBot
<1>3. bots' \in [Bots -> Report \cup {NoRow}]
    BY <1>1 DEF DeleteBot
<1>4. ComTypeOK'
    BY <1>2, <1>3 DEF CommandInv, ComTypeOK, DeleteBot
<1> QED BY <1>2, <1>4 DEF CommandInv, DeleteBot

LEMMA FinishKeeps ==
    ASSUME CommandInv, NEW b \in Bots, NEW i \in Ids, Finish(b, i)
    PROVE  CommandInv' /\ \A x \in Bots : machine'[x].doing \subseteq machine[x].doing
<1> DEFINE new == [machine[b] EXCEPT !.doing = machine[b].doing \ {i},
                                     !.owed = machine[b].owed \cup {i}]
<1>1. /\ machine \in [Bots -> Machine] /\ machine[b] \in Machine
      /\ machine[b].doing \subseteq Ids /\ machine[b].owed \subseteq Ids
    BY DEF CommandInv, ComTypeOK, Machine
<1>2. /\ new \in Machine
      /\ new.owed = machine[b].owed \cup {i} /\ new.doing \subseteq machine[b].doing
    BY <1>1 DEF Machine
<1>3. /\ machine' = [machine EXCEPT ![b] = new]
      /\ finished' = finished \cup {i} /\ i \in machine[b].doing
      /\ UNCHANGED <<bots, cell, commands, lastId, ran>>
    BY <1>1 DEF Finish
<1> HIDE DEF new
<1>4. ComTypeOK'
    BY <1>1, <1>2, <1>3 DEF CommandInv, ComTypeOK
<1>5. \A x \in Bots : /\ machine'[x].owed \subseteq finished'
                      /\ machine'[x].doing \subseteq machine[x].doing
    BY <1>1, <1>2, <1>3 DEF CommandInv
<1>6. i <= lastId
    <2>1. i \in ran
        BY <1>3 DEF CommandInv
    <2> QED BY <2>1, <1>3 DEF CommandInv, ComTypeOK, Ids
<1> QED BY <1>3, <1>4, <1>5, <1>6 DEF CommandInv

LEMMA RestartKeeps ==
    ASSUME CommandInv, NEW b \in Bots, NEW status \in Reported, Restart(b, status)
    PROVE  CommandInv' /\ \A x \in Bots : machine'[x].doing \subseteq machine[x].doing
<1> DEFINE new == [status |-> status, doing |-> {}, owed |-> {}]
<1>1. /\ machine \in [Bots -> Machine]
      /\ new \in Machine /\ new.doing = {} /\ new.owed = {}
    BY DEF CommandInv, ComTypeOK, Machine
<1>2. machine' = [machine EXCEPT ![b] = new]
    BY DEF Restart
<1> HIDE DEF new
<1>3. /\ machine' \in [Bots -> Machine]
      /\ \A x \in Bots : /\ machine'[x].doing \subseteq machine[x].doing
                         /\ machine'[x].owed \subseteq machine[x].owed
    BY <1>1, <1>2
<1> QED BY <1>3 DEF CommandInv, ComTypeOK, Restart

LEMMA TickKeeps ==
    ASSUME CommandInv, Tick
    PROVE  CommandInv' /\ UNCHANGED machine
<1>1. /\ bots \in [Bots -> Report \cup {NoRow}]
      /\ cell \in Report \cup {NoRow}
      /\ commands \in [Ids -> Command \cup {NoRow}]
    BY DEF CommandInv, ComTypeOK
<1>2. \A r \in Report \cup {NoRow} : Older(r) \in Report \cup {NoRow}
    BY BotAssumption DEF Older, Report
<1>3. \A c \in Command \cup {NoRow} :
          /\ OlderCommand(c) \in Command \cup {NoRow}
          /\ OlderCommand(c) = NoRow <=> c = NoRow
          /\ c # NoRow => /\ OlderCommand(c).delivered = c.delivered
                          /\ OlderCommand(c).acked = c.acked
    BY BotAssumption, RowAssumption DEF OlderCommand, Command
<1>4. /\ bots' \in [Bots -> Report \cup {NoRow}]
      /\ cell' \in Report \cup {NoRow}
      /\ commands' \in [Ids -> Command \cup {NoRow}]
      /\ \A i \in Ids : commands'[i] = OlderCommand(commands[i])
    BY <1>1, <1>2, <1>3 DEF Tick
<1>5. ComTypeOK'
    BY <1>4 DEF CommandInv, ComTypeOK, Tick
<1>6. \A i \in Ids : /\ commands'[i] = NoRow <=> commands[i] = NoRow
                     /\ commands[i] # NoRow => /\ commands'[i].delivered = commands[i].delivered
                                               /\ commands'[i].acked = commands[i].acked
    BY <1>1, <1>3, <1>4
<1> QED BY <1>5, <1>6 DEF CommandInv, Tick

RunsOnce == \A b \in Bots : \A i \in machine'[b].doing \ machine[b].doing : i \notin ran

LEMMA CommandsStep == CommandInv /\ [ComNext]_comVars => CommandInv' /\ RunsOnce
<1> SUFFICES ASSUME CommandInv, [ComNext]_comVars PROVE CommandInv' /\ RunsOnce
    OBVIOUS
<1> USE DEF RunsOnce
<1>1. ASSUME NEW b \in Bots, NEW ack \in Ids \cup {0}, NEW heard \in BOOLEAN,
             Heartbeat(b, ack, heard)
      PROVE  CommandInv' /\ RunsOnce
    BY <1>1, HeartbeatKeeps
<1>2. ASSUME NEW wanted \in Bots \cup {NoBot}, RequestResync(wanted)
      PROVE  CommandInv' /\ RunsOnce
    BY <1>2, RequestKeeps
<1>3. ASSUME NEW b \in Bots, DeleteBot(b)
      PROVE  CommandInv' /\ RunsOnce
    BY <1>3, DeleteBotKeeps
<1>4. ASSUME NEW b \in Bots, NEW i \in Ids, Finish(b, i)
      PROVE  CommandInv' /\ RunsOnce
    BY <1>4, FinishKeeps
<1>5. ASSUME NEW b \in Bots, NEW status \in Reported, Restart(b, status)
      PROVE  CommandInv' /\ RunsOnce
    BY <1>5, RestartKeeps
<1>6. CASE Tick
    BY <1>6, TickKeeps
<1>7. CASE UNCHANGED comVars
    BY <1>7 DEF CommandInv, ComTypeOK, comVars
<1> QED BY <1>1, <1>2, <1>3, <1>4, <1>5, <1>6, <1>7 DEF ComNext

(* What the bots record leaves the commands alone.                         *)
LEMMA NextIsComNext == [Next]_vars => [ComNext]_comVars
<1> SUFFICES ASSUME [Next]_vars PROVE [ComNext]_comVars
    OBVIOUS
<1>1. TradeNext => UNCHANGED comVars
    BY DEF TradeNext, Execute, Backfill, Deliver, Resync, Send, DeleteRecord, StartListing,
           NextPage, EndListing
<1> QED BY <1>1 DEF Next, vars

THEOREM CommandInvariant == Spec => []CommandInv
<1>1. Init => CommandInv
    BY CommandsInit DEF Init
<1>2. CommandInv /\ [Next]_vars => CommandInv'
    BY NextIsComNext, CommandsStep
<1> QED BY <1>1, <1>2, PTL DEF Spec

(* The tables and the memories of the bots have their types.               *)
THEOREM CommandTypes == Spec => []ComTypeOK
<1>1. CommandInv => ComTypeOK
    BY DEF CommandInv
<1> QED BY <1>1, CommandInvariant, PTL

(* No lost answer, restart or removal makes a command start twice.         *)
THEOREM CommandsStartOnce == Spec => CommandsRunOnce
<1>1. CommandInv /\ [Next]_vars => [RunsOnce]_comVars
    BY NextIsComNext, CommandsStep
<1> QED BY <1>1, CommandInvariant, PTL DEF Spec, CommandsRunOnce, RunsOnce

(* A command the screen calls done was carried out.                        *)
THEOREM DoneCommandsAreDone == Spec => []DoneMeansDone
<1>1. CommandInv => DoneMeansDone
    <2> SUFFICES ASSUME CommandInv, NEW i \in Asked, CommandState(commands[i]) = "done"
                 PROVE  i \in finished
        BY DEF DoneMeansDone
    <2>1. commands[i].acked
        BY DEF CommandState
    <2> QED BY <2>1 DEF CommandInv, Asked
<1> QED BY <1>1, CommandInvariant, PTL

(* A green indicator hides no bot that is gone, however many there are.    *)
LEMMA GreenHidesNobody == ComTypeOK => GreenMeansAllRun
<1> SUFFICES ASSUME ComTypeOK, Shown(bots, cell) = "running", NEW b \in Known
             PROVE  bots[b].status = "running" /\ bots[b].age <= Offline
    BY DEF GreenMeansAllRun
<1> DEFINE states == {BotState(bots[x]) : x \in {y \in Bots : bots[y] # NoRow}}
           IsWorst(k) == /\ Severities[k] \in states
                         /\ \A j \in 1..(k-1) : Severities[j] \notin states
           worst == CHOOSE k \in 1..5 : IsWorst(k)
<1>1. BotState(bots[b]) \in states /\ bots[b] # NoRow /\ bots[b] \in Report
    BY DEF Known, ComTypeOK
<1>2. BotState(bots[b]) \in {"error", "offline", "stopped", "running"}
    BY <1>1, BotAssumption DEF BotState, Report
<1>3. Severities[worst] = "running"
    BY <1>1 DEF Shown
<1>4. /\ Severities[1] = "error" /\ Severities[2] = "offline" /\ Severities[3] = "stopped"
      /\ Severities[4] = "running" /\ Severities[5] = "never"
    BY DEF Severities
<1> HIDE DEF states
<1>5. \E k \in 1..5 : IsWorst(k)
    <2>1. CASE "error" \in states
        <3>1. IsWorst(1)
            BY <1>4, <2>1
        <3> QED BY <3>1
    <2>2. CASE "error" \notin states /\ "offline" \in states
        <3>1. IsWorst(2)
            BY <1>4, <2>2
        <3> QED BY <3>1
    <2>3. CASE {"error", "offline"} \cap states = {} /\ "stopped" \in states
        <3>1. \A j \in 1..2 : j = 1 \/ j = 2
            OBVIOUS
        <3>2. IsWorst(3)
            BY <1>4, <2>3, <3>1
        <3> QED BY <3>2
    <2>4. CASE {"error", "offline", "stopped"} \cap states = {}
        <3>1. "running" \in states
            BY <1>1, <1>2, <2>4
        <3>2. \A j \in 1..3 : j = 1 \/ j = 2 \/ j = 3
            OBVIOUS
        <3>3. IsWorst(4)
            BY <1>4, <2>4, <3>1, <3>2
        <3> QED BY <3>3
    <2> QED BY <2>1, <2>2, <2>3, <2>4
<1>6. worst \in 1..5 /\ IsWorst(worst)
    BY <1>5
<1> HIDE DEF worst
<1>7. worst = 4
    <2> HIDE DEF IsWorst
    <2> QED BY <1>3, <1>4, <1>6
<1>8. {"error", "offline", "stopped"} \cap states = {}
    <2>1. 1 \in 1..(worst - 1) /\ 2 \in 1..(worst - 1) /\ 3 \in 1..(worst - 1)
        BY <1>7
    <2> QED BY <1>4, <1>6, <2>1
<1>9. BotState(bots[b]) = "running"
    BY <1>1, <1>2, <1>8
<1>10. bots[b].age \in Nat /\ Offline \in Nat
    BY <1>1, BotAssumption DEF Report
<1>11. bots[b].status = "running" /\ ~(bots[b].age > Offline)
    BY <1>1, <1>9 DEF BotState
<1> QED BY <1>10, <1>11

THEOREM GreenIsGreen == Spec => []GreenMeansAllRun
BY GreenHidesNobody, CommandTypes, PTL

-----------------------------------------------------------------------------
Table == [RowIds -> Executions \cup {NoRow}]

RecordInv ==
    /\ rows \in Table
    /\ clock \in Nat /\ 1..clock \subseteq Executions
    /\ log \subseteq 1..clock
    /\ queue \in [Bots -> SUBSET log]
    /\ \A b \in Bots : queue[b] \subseteq Own(b)
    /\ Records(rows) \subseteq log
    /\ \A x \in log : x \in stored \/ x \in queue[OwnerOf[x]]
    /\ \A x \in (1..clock) \ log :
          /\ OwnerOf[x] \in asleep
          /\ \A y \in log \cap Own(OwnerOf[x]) : y < x

OverInv ==
    /\ over \in [Executions -> SUBSET ran]
    /\ \A x \in Executions : over[x] \cap machine[OwnerOf[x]].doing = {}

Owes(i) == page.cursor # NoCursor => i < page.cursor

PageInv ==
    page # NoPage =>
        /\ page \in Page
        /\ page.kept \subseteq Used(rows)
        /\ \A i \in page.kept : i \in page.got \/ (~page.last /\ Owes(i))

-----------------------------------------------------------------------------
(* Greatest and least elements.                                            *)

LEMMA MaxOfFinite ==
    ASSUME NEW S \in SUBSET Int, IsFiniteSet(S), S # {}
    PROVE  Max(S) \in S /\ \A y \in S : Max(S) >= y
<1> DEFINE R == {p \in S \X S : p[1] < p[2]}
<1>1. \A x, y \in S : <<x, y>> \in R <=> x < y
    OBVIOUS
<1> HIDE DEF R
<1>2. \E x \in S : \A y \in S : <<x, y>> \notin R
    <2>1. \A x, y, z \in S : <<x, y>> \in R /\ <<y, z>> \in R => <<x, z>> \in R
        BY <1>1
    <2>2. \A x \in S : <<x, x>> \notin R
        BY <1>1
    <2> QED BY <2>1, <2>2, LastElement
<1>3. \E x \in S : \A y \in S : x >= y
    <2>1. PICK x \in S : \A y \in S : <<x, y>> \notin R
        BY <1>2
    <2>2. \A y \in S : x >= y
        <3>1. SUFFICES ASSUME NEW y \in S PROVE x >= y
            OBVIOUS
        <3>2. x \in Int /\ y \in Int
            OBVIOUS
        <3>3. ~(x < y)
            BY <1>1, <2>1
        <3> QED BY <3>2, <3>3
    <2> QED BY <2>2
<1> QED BY <1>3, Zenon DEF Max

LEMMA MinOfFinite ==
    ASSUME NEW S \in SUBSET Int, IsFiniteSet(S), S # {}
    PROVE  Min(S) \in S /\ \A y \in S : Min(S) <= y
<1> DEFINE R == {p \in S \X S : p[1] > p[2]}
<1>1. \A x, y \in S : <<x, y>> \in R <=> x > y
    OBVIOUS
<1> HIDE DEF R
<1>2. \E x \in S : \A y \in S : <<x, y>> \notin R
    <2>1. \A x, y, z \in S : <<x, y>> \in R /\ <<y, z>> \in R => <<x, z>> \in R
        BY <1>1
    <2>2. \A x \in S : <<x, x>> \notin R
        BY <1>1
    <2> QED BY <2>1, <2>2, LastElement
<1>3. \E x \in S : \A y \in S : x <= y
    <2>1. PICK x \in S : \A y \in S : <<x, y>> \notin R
        BY <1>2
    <2>2. \A y \in S : x <= y
        <3>1. SUFFICES ASSUME NEW y \in S PROVE x <= y
            OBVIOUS
        <3>2. x \in Int /\ y \in Int
            OBVIOUS
        <3>3. ~(x > y)
            BY <1>1, <2>1
        <3> QED BY <3>2, <3>3
    <2> QED BY <2>2
<1> QED BY <1>3, Zenon DEF Min

-----------------------------------------------------------------------------
(* Recording.                                                              *)

Top(table) == Max({0} \cup Used(table))

LEMMA TopOfTable ==
    ASSUME NEW table \in Table
    PROVE  /\ Top(table) \in {0} \cup Used(table) /\ Top(table) \in Nat
           /\ \A i \in Used(table) : i <= Top(table)
<1> DEFINE S == {0} \cup Used(table)
<1>1. Used(table) \subseteq RowIds
    BY DEF Used
<1>2. S \subseteq Nat
    <2>1. RowIds \subseteq Nat
        BY TradesAssumption
    <2>2. \A i \in Used(table) : i \in Nat
        BY <1>1, <2>1
    <2>3. \A i \in S : i = 0 \/ i \in Used(table)
        OBVIOUS
    <2> QED BY <2>2, <2>3
<1>3. IsFiniteSet(S)
    <2>1. IsFiniteSet(Used(table))
        BY <1>1, TradesAssumption, FS_Subset
    <2> QED BY <2>1, FS_Singleton, FS_Union
<1>4. S \in SUBSET Int /\ S # {} /\ Max(S) = Top(table)
    BY <1>2 DEF Top
<1> HIDE DEF S
<1>5. Max(S) \in S /\ \A y \in S : Max(S) >= y
    BY <1>3, <1>4, MaxOfFinite
<1>6. \A i \in Used(table) : i \in S
    BY DEF S
<1>7. \A i \in S : i \in Nat
    BY <1>2
<1>8. ASSUME NEW i \in Used(table) PROVE i <= Top(table)
    <2>1. i \in S /\ i \in Nat /\ Max(S) \in Nat /\ Max(S) >= i
        BY <1>5, <1>6, <1>7
    <2> QED BY <1>4, <2>1
<1> QED BY <1>4, <1>5, <1>7, <1>8 DEF S

(* A record is added above all others, and no other one is touched.        *)
LEMMA InsertAdds ==
    ASSUME NEW table \in Table, NEW x \in Executions, Top(table) + 1 \in RowIds
    PROVE  /\ Insert(table, x) \in Table
           /\ Records(Insert(table, x)) = Records(table) \cup {x}
           /\ Used(table) \subseteq Used(Insert(table, x))
           /\ Top(Insert(table, x)) \in {Top(table), Top(table) + 1}
<1> DEFINE id == Top(table) + 1
           new == [table EXCEPT ![id] = x]
<1>1. CASE x \in Records(table)
    BY <1>1 DEF Insert
<1>2. CASE x \notin Records(table)
    <2>1. Insert(table, x) = new
        BY <1>2 DEF Insert, Top
    <2>2. Top(table) \in Nat /\ \A i \in Used(table) : i <= Top(table)
        BY TopOfTable
    <2>3. id \notin Used(table) /\ id \in RowIds
        <3>1. id \in Used(table) => id <= Top(table)
            BY <2>2
        <3> QED BY <2>2, <3>1
    <2>4. new \in Table /\ \A i \in RowIds : new[i] = IF i = id THEN x ELSE table[i]
        BY <2>3 DEF Table
    <2> HIDE DEF new
    <2>5. Used(new) = Used(table) \cup {id}
        BY <2>3, <2>4, TradesAssumption DEF Used
    <2>6. Records(new) = Records(table) \cup {x}
        <3>1. \A i \in Used(table) : new[i] = table[i]
            BY <2>3, <2>4 DEF Used
        <3>2. new[id] = x
            BY <2>3, <2>4
        <3> QED BY <2>5, <3>1, <3>2 DEF Records
    <2>7. Top(new) = Top(table) + 1
        <3>1. Top(new) \in {0} \cup Used(new)
            BY <2>4, TopOfTable
        <3>2. Top(new) \in Nat /\ \A i \in Used(new) : i <= Top(new)
            BY <2>4, TopOfTable
        <3>3. \A i \in {0} \cup Used(new) : i <= id
            BY <2>2, <2>5
        <3>4. id \in Used(new) /\ id \in Nat
            BY <2>2, <2>5
        <3>5. id <= Top(new) /\ Top(new) <= id
            BY <3>1, <3>2, <3>3, <3>4
        <3> QED BY <3>2, <3>4, <3>5
    <2> QED BY <2>1, <2>4, <2>5, <2>6, <2>7
<1> QED BY <1>1, <1>2

(* What a sending leaves in the table.                                     *)
LEMMA SendStores ==
    ASSUME RecordInv, NEW b \in Bots, NEW x \in Executions, NEW y \in Executions,
           NEW failed \in SUBSET Executions, NEW heard, Send(b, x, y, failed, heard)
    PROVE  /\ rows' \in Table
           /\ Records(rows') \subseteq Records(rows) \cup {x, y}
           /\ Records(rows) \cup ({x, y} \ failed) \subseteq Records(rows')
           /\ Used(rows) \subseteq Used(rows')
           /\ stored' = stored \cup Records(rows')
<1> DEFINE first == IF x \in failed THEN rows ELSE Insert(rows, x)
           both == IF y \in failed THEN first ELSE Insert(first, y)
<1>1. rows \in Table /\ Top(rows) + 1 \in RowIds /\ Top(rows) + 2 \in RowIds
    <2>1. \A m \in 1..2 : Top(rows) + m \in RowIds
        BY DEF Send, Fits, Top
    <2> QED BY <2>1 DEF RecordInv
<1>2. /\ first \in Table
      /\ Records(first) \subseteq Records(rows) \cup {x}
      /\ Records(rows) \cup ({x} \ failed) \subseteq Records(first)
      /\ Used(rows) \subseteq Used(first)
      /\ Top(first) \in {Top(rows), Top(rows) + 1}
    BY <1>1, InsertAdds
<1> HIDE DEF first
<1>3. Top(first) + 1 \in RowIds
    <2>1. Top(rows) \in Nat
        BY <1>1, TopOfTable
    <2>2. CASE Top(first) = Top(rows)
        BY <1>1, <2>2
    <2>3. CASE Top(first) = Top(rows) + 1
        <3>1. Top(first) + 1 = Top(rows) + 2
            BY <2>1, <2>3
        <3> QED BY <1>1, <3>1
    <2> QED BY <1>2, <2>2, <2>3
<1>4. /\ both \in Table
      /\ Records(both) \subseteq Records(first) \cup {y}
      /\ Records(first) \cup ({y} \ failed) \subseteq Records(both)
      /\ Used(first) \subseteq Used(both)
    BY <1>2, <1>3, InsertAdds
<1>5. rows' = both /\ stored' = stored \cup Records(both)
    BY DEF Send, first
<1> HIDE DEF both
<1> QED BY <1>2, <1>4, <1>5

LEMMA SendKeepsRecords ==
    ASSUME RecordInv, NEW b \in Bots, NEW x \in log, NEW y \in log,
           NEW failed \in SUBSET Executions, NEW heard, Send(b, x, y, failed, heard)
    PROVE  RecordInv'
<1>1. x \in Executions /\ y \in Executions
    BY DEF RecordInv
<1>2. /\ rows' \in Table
      /\ Records(rows') \subseteq Records(rows) \cup {x, y}
      /\ Records(rows) \cup ({x, y} \ failed) \subseteq Records(rows')
      /\ stored' = stored \cup Records(rows')
    BY <1>1, SendStores
<1>3. /\ queue' \in [Bots -> SUBSET log]
      /\ \A c \in Bots : /\ queue'[c] \subseteq Own(c)
                         /\ queue[c] \subseteq queue'[c] \cup ({x, y} \ failed)
    <2>1. queue' = IF heard THEN [queue EXCEPT ![b] = queue[b] \ ({x, y} \ failed)] ELSE queue
        BY DEF Send, RecordInv
    <2> QED BY <2>1 DEF RecordInv
<1>4. \A z \in log : OwnerOf[z] \in Bots
    BY TradesAssumption DEF RecordInv
<1>5. \A z \in log : z \in stored' \/ z \in queue'[OwnerOf[z]]
    BY <1>2, <1>3, <1>4 DEF RecordInv
<1>6. UNCHANGED <<clock, asleep, log>>
    BY DEF Send
<1> QED BY <1>2, <1>3, <1>5, <1>6 DEF RecordInv

-----------------------------------------------------------------------------
(* Noticing.                                                               *)

LEMMA ExecuteKeepsRecords ==
    ASSUME RecordInv, NEW noticed \in BOOLEAN, Execute(noticed)
    PROVE  RecordInv'
<1> DEFINE x == clock + 1
           b == OwnerOf[x]
<1>1. /\ x \in Executions /\ b \in Bots
      /\ clock \in Nat /\ 1..clock \subseteq Executions
    BY TradesAssumption DEF Execute, RecordInv
<1>2. /\ noticed => b \notin asleep
      /\ clock' = x
      /\ asleep' = IF noticed THEN asleep ELSE asleep \cup {b}
      /\ log' = IF noticed THEN log \cup {x} ELSE log
      /\ queue' = IF noticed THEN [queue EXCEPT ![b] = queue[b] \cup {x}] ELSE queue
      /\ UNCHANGED <<rows, stored>>
    BY DEF Execute
<1>3. 1..clock' = 1..clock \cup {x}
    BY <1>1, <1>2
<1> HIDE DEF x, b
<1>4. clock' \in Nat /\ 1..clock' \subseteq Executions
    BY <1>1, <1>2, <1>3 DEF x
<1>5. /\ log' \subseteq 1..clock'
      /\ queue' \in [Bots -> SUBSET log']
      /\ \A c \in Bots : queue[c] \subseteq queue'[c] /\ queue'[c] \subseteq Own(c)
      /\ noticed => x \in queue'[b]
    <2>1. x \in Own(b)
        BY <1>1 DEF Own, b
    <2> QED BY <1>1, <1>2, <1>3, <2>1 DEF RecordInv
<1>6. \A z \in log' : z \in stored' \/ z \in queue'[OwnerOf[z]]
    <2>1. \A z \in log : OwnerOf[z] \in Bots
        BY TradesAssumption DEF RecordInv
    <2> QED BY <1>2, <1>5, <2>1 DEF RecordInv, b
<1>7. ASSUME NEW z \in (1..clock') \ log'
      PROVE  OwnerOf[z] \in asleep' /\ \A y \in log' \cap Own(OwnerOf[z]) : y < z
    <2>1. CASE z = x
        <3>1. ~noticed
            BY <1>2, <1>7, <2>1
        <3>2. \A y \in log : y < x
            BY <1>1 DEF x, RecordInv
        <3> QED BY <1>2, <2>1, <3>1, <3>2 DEF b
    <2>2. CASE z # x
        <3>1. z \in (1..clock) \ log
            BY <1>2, <1>3, <1>7, <2>2
        <3>2. OwnerOf[z] \in asleep /\ \A y \in log \cap Own(OwnerOf[z]) : y < z
            BY <3>1 DEF RecordInv
        <3>3. CASE noticed
            <4>1. OwnerOf[z] # b
                BY <1>2, <3>2, <3>3
            <4>2. x \notin Own(OwnerOf[z])
                BY <4>1 DEF Own, b
            <4> QED BY <1>2, <3>2, <3>3, <4>2
        <3>4. CASE ~noticed
            BY <1>2, <3>2, <3>4
        <3> QED BY <3>3, <3>4
    <2> QED BY <2>1, <2>2
<1>8. rows' \in Table /\ Records(rows') \subseteq log'
    BY <1>2 DEF RecordInv
<1> QED BY <1>4, <1>5, <1>6, <1>7, <1>8 DEF RecordInv

LEMMA BackfillKeepsRecords ==
    ASSUME RecordInv, NEW b \in Bots, Backfill(b)
    PROVE  RecordInv'
<1> DEFINE found == {x \in Own(b) : x <= clock /\ SinceLastSync(b, x)} \ log
<1>1. /\ asleep' = asleep \ {b} /\ log' = log \cup found
      /\ queue' = [queue EXCEPT ![b] = queue[b] \cup found]
      /\ UNCHANGED <<rows, clock, stored>>
    BY DEF Backfill
<1>2. found \subseteq 1..clock /\ found \subseteq Own(b)
    <2>1. ASSUME NEW x \in found PROVE x \in 1..clock
        <3>1. x \in Executions /\ x <= clock /\ clock \in Nat
            BY <2>1 DEF Own, RecordInv
        <3>2. Cardinality(Executions) \in Nat
            BY FS_CardinalityType, TradesAssumption
        <3>3. Executions = 1..Cardinality(Executions)
            BY TradesAssumption
        <3>4. x \in 1..Cardinality(Executions)
            BY <3>1, <3>3
        <3> QED BY <3>1, <3>2, <3>4
    <2> QED BY <2>1
<1>3. \A x \in (1..clock) \ log : OwnerOf[x] = b => x \in found
    <2>1. SUFFICES ASSUME NEW x \in (1..clock) \ log, OwnerOf[x] = b PROVE x \in found
        OBVIOUS
    <2>2. x \in Own(b) /\ x <= clock
        BY <2>1 DEF RecordInv, Own
    <2>3. SinceLastSync(b, x)
        BY <2>1 DEF RecordInv, SinceLastSync
    <2> QED BY <2>1, <2>2, <2>3
<1> HIDE DEF found
<1>4. /\ log' \subseteq 1..clock'
      /\ queue' \in [Bots -> SUBSET log']
      /\ \A c \in Bots : queue[c] \subseteq queue'[c] /\ queue'[c] \subseteq Own(c)
      /\ found \subseteq queue'[b]
    BY <1>1, <1>2 DEF RecordInv
<1>5. \A z \in log' : z \in stored' \/ z \in queue'[OwnerOf[z]]
    <2>1. \A z \in log : OwnerOf[z] \in Bots
        BY TradesAssumption DEF RecordInv
    <2>2. \A z \in found : OwnerOf[z] = b
        BY <1>2 DEF Own
    <2> QED BY <1>1, <1>4, <2>1, <2>2 DEF RecordInv
<1>6. ASSUME NEW z \in (1..clock') \ log'
      PROVE  OwnerOf[z] \in asleep' /\ \A y \in log' \cap Own(OwnerOf[z]) : y < z
    <2>1. z \in (1..clock) \ log /\ OwnerOf[z] # b
        BY <1>1, <1>3, <1>6
    <2>2. found \cap Own(OwnerOf[z]) = {}
        BY <1>2, <2>1 DEF Own
    <2> QED BY <1>1, <2>1, <2>2 DEF RecordInv
<1> QED BY <1>1, <1>4, <1>5, <1>6 DEF RecordInv

LEMMA DeleteKeepsRecords ==
    ASSUME RecordInv, NEW id \in RowIds, DeleteRecord(id)
    PROVE  /\ RecordInv'
           /\ \A i \in RowIds : rows'[i] = IF i = id THEN NoRow ELSE rows[i]
           /\ Used(rows') = Used(rows) \ {id}
           /\ Records(rows') \subseteq Records(rows)
<1>1. /\ rows' = [rows EXCEPT ![id] = NoRow]
      /\ UNCHANGED <<clock, asleep, log, queue, stored>>
    BY DEF DeleteRecord
<1>2. rows' \in Table /\ \A i \in RowIds : rows'[i] = IF i = id THEN NoRow ELSE rows[i]
    BY <1>1 DEF RecordInv, Table
<1>3. Used(rows') = Used(rows) \ {id}
    BY <1>2 DEF Used
<1>4. Records(rows') \subseteq Records(rows)
    BY <1>2, <1>3 DEF Records, Used
<1> QED BY <1>1, <1>2, <1>3, <1>4 DEF RecordInv

-----------------------------------------------------------------------------
(* Commands that were over.                                                *)

LEMMA CommandsKeepOver ==
    ASSUME CommandInv, OverInv, [ComNext]_comVars, UNCHANGED over
    PROVE  OverInv'
<1>1. RunsOnce
    BY CommandsStep
<1>2. ran \subseteq ran'
    <2>1. ASSUME NEW b \in Bots, NEW ack \in Ids \cup {0}, NEW heard \in BOOLEAN,
                 Heartbeat(b, ack, heard)
          PROVE  ran \subseteq ran'
        BY <2>1 DEF Heartbeat
    <2>2. ASSUME NEW wanted \in Bots \cup {NoBot}, RequestResync(wanted)
          PROVE  ran \subseteq ran'
        <3>1. /\ NextId(commands, lastId) = lastId + 1 /\ lastId + 1 \in Ids
              /\ ran' = ran \ {lastId + 1}
            BY <2>2 DEF RequestResync, NextId
        <3>2. lastId \in Nat
            BY DEF CommandInv, ComTypeOK
        <3>3. lastId + 1 \notin ran
            BY <3>1, <3>2 DEF CommandInv
        <3> QED BY <3>1, <3>3
    <2>3. CASE \E b \in Bots : DeleteBot(b)
        BY <2>3 DEF DeleteBot
    <2>4. CASE \E b \in Bots, i \in Ids : Finish(b, i)
        BY <2>4 DEF Finish
    <2>5. CASE \E b \in Bots, status \in Reported : Restart(b, status)
        BY <2>5 DEF Restart
    <2>6. CASE Tick
        BY <2>6 DEF Tick
    <2>7. CASE UNCHANGED comVars
        BY <2>7 DEF comVars
    <2> QED BY <2>1, <2>2, <2>3, <2>4, <2>5, <2>6, <2>7 DEF ComNext
<1>3. \A x \in Executions : OwnerOf[x] \in Bots
    BY TradesAssumption
<1>4. over' \in [Executions -> SUBSET ran']
    BY <1>2 DEF OverInv
<1>5. \A x \in Executions : over'[x] \cap machine'[OwnerOf[x]].doing = {}
    BY <1>1, <1>3 DEF OverInv, RunsOnce
<1> QED BY <1>4, <1>5 DEF OverInv

LEMMA DeleteKeepsOver ==
    ASSUME RecordInv, OverInv, NEW id \in RowIds, DeleteRecord(id)
    PROVE  OverInv'
<1> DEFINE x == rows[id]
           new == ran \ machine[OwnerOf[x]].doing
<1>1. /\ over' = [over EXCEPT ![x] = new]
      /\ UNCHANGED <<ran, machine>>
    BY DEF DeleteRecord, comVars
<1>2. x \in Executions
    BY DEF DeleteRecord, Used, RecordInv, Table
<1> HIDE DEF x
<1>3. /\ over' \in [Executions -> SUBSET ran]
      /\ \A z \in Executions : over'[z] = IF z = x THEN new ELSE over[z]
    BY <1>1, <1>2 DEF OverInv
<1> QED BY <1>1, <1>3 DEF OverInv

-----------------------------------------------------------------------------
(* Reading.                                                                *)

(* The newest rows are all there are or at least n of them.                *)
LEMMA NewestOfFinite ==
    ASSUME NEW S \in SUBSET RowIds, NEW n \in Nat
    PROVE  LET N == Newest(S, n)
           IN  /\ N \subseteq S /\ IsFiniteSet(N)
               /\ \A i \in S, j \in N : i >= j => i \in N
               /\ Cardinality(N) < n => N = S
<1> DEFINE N == Newest(S, n)
           Above(T, i) == {j \in T : j > i}
<1>1. RowIds \subseteq Nat /\ IsFiniteSet(RowIds)
    BY TradesAssumption
<1>2. IsFiniteSet(S) /\ S \subseteq Nat
    BY <1>1, FS_Subset
<1>3. N \subseteq S /\ N = {i \in S : Cardinality(Above(S, i)) < n}
    BY DEF Newest
<1>4. IsFiniteSet(N)
    BY <1>2, <1>3, FS_Subset
<1> HIDE DEF N
<1>5. \A i, j \in S : i >= j => Cardinality(Above(S, i)) <= Cardinality(Above(S, j))
    <2>1. SUFFICES ASSUME NEW i \in S, NEW j \in S, i >= j
                   PROVE  Cardinality(Above(S, i)) <= Cardinality(Above(S, j))
        OBVIOUS
    <2>2. i \in Nat /\ j \in Nat /\ \A k \in S : k \in Nat
        BY <1>2
    <2>3. Above(S, i) \in SUBSET Above(S, j)
        <3>1. SUFFICES ASSUME NEW k \in S, k > i PROVE k > j
            OBVIOUS
        <3>2. k \in Nat
            BY <2>2
        <3> QED BY <2>1, <2>2, <3>1, <3>2
    <2>4. IsFiniteSet(Above(S, j))
        <3>1. Above(S, j) \in SUBSET S
            OBVIOUS
        <3> QED BY <1>2, <3>1, FS_Subset
    <2> HIDE DEF Above
    <2> QED BY <2>3, <2>4, FS_Subset
<1>6. \A i \in S : Cardinality(Above(S, i)) \in Nat
    <2>1. SUFFICES ASSUME NEW i \in S PROVE Cardinality(Above(S, i)) \in Nat
        OBVIOUS
    <2>2. Above(S, i) \in SUBSET S
        OBVIOUS
    <2> HIDE DEF Above
    <2> QED BY <1>2, <2>2, FS_Subset, FS_CardinalityType
<1>7. ASSUME NEW i \in S, NEW j \in N, i >= j PROVE i \in N
    <2>1. /\ Cardinality(Above(S, i)) <= Cardinality(Above(S, j))
          /\ Cardinality(Above(S, j)) < n
          /\ Cardinality(Above(S, i)) \in Nat /\ Cardinality(Above(S, j)) \in Nat
        BY <1>3, <1>5, <1>6, <1>7
    <2> HIDE DEF Above
    <2>2. Cardinality(Above(S, i)) < n
        BY <2>1
    <2> QED BY <1>3, <2>2 DEF Above
<1>8. ASSUME Cardinality(N) < n, N # S PROVE FALSE
    <2> DEFINE rest == S \ N
               i == Max(rest)
    <2>1. rest \in SUBSET Int /\ IsFiniteSet(rest) /\ rest # {}
        <3>1. rest \in SUBSET S
            OBVIOUS
        <3>2. IsFiniteSet(rest)
            BY <1>2, <3>1, FS_Subset
        <3>3. \A k \in rest : k \in Int
            BY <1>2
        <3>4. rest # {}
            BY <1>3, <1>8
        <3> QED BY <3>2, <3>3, <3>4
    <2>2. i \in rest /\ \A j \in rest : i >= j
        <3> HIDE DEF rest
        <3> QED BY <2>1, MaxOfFinite
    <2> HIDE DEF i
    <2>3. Above(S, i) \in SUBSET N
        <3>1. SUFFICES ASSUME NEW j \in S, j > i PROVE j \in N
            OBVIOUS
        <3>2. i \in Nat /\ j \in Nat
            BY <1>2, <2>2
        <3>3. ~(i >= j)
            BY <3>1, <3>2
        <3> QED BY <2>2, <3>3
    <2>4. Cardinality(Above(S, i)) <= Cardinality(N)
        <3> HIDE DEF Above
        <3> QED BY <1>4, <2>3, FS_Subset
    <2>5. Cardinality(Above(S, i)) \in Nat /\ Cardinality(N) \in Nat
        BY <1>4, <1>6, <2>2, FS_CardinalityType
    <2>6. Cardinality(Above(S, i)) < n
        <3> HIDE DEF Above
        <3> QED BY <1>8, <2>4, <2>5
    <2> QED BY <1>3, <2>2, <2>6
<1> QED BY <1>3, <1>4, <1>7, <1>8 DEF N

LEMMA NextPageKeepsPage ==
    ASSUME RecordInv, PageInv, NextPage
    PROVE  PageInv'
<1> DEFINE S == {i \in Used(rows) : page.cursor # NoCursor => i < page.cursor}
           fetched == Fetched(page.cursor)
           more == Newest(fetched, Limit)
           next == NextCursor(fetched)
<1>1. /\ page # NoPage /\ ~page.last /\ page \in Page
      /\ page.kept \subseteq Used(rows)
      /\ \A i \in page.kept : i \in page.got \/ i \in S
    BY DEF NextPage, PageInv, Owes
<1>2. /\ page' = [page EXCEPT !.cursor = next, !.got = page.got \cup more,
                              !.last = (next = NoCursor)]
      /\ rows' = rows
    BY DEF NextPage
<1>3. S \in SUBSET RowIds /\ fetched = Newest(S, Limit + 1)
    BY DEF Fetched, Used
<1>4. Limit \in Nat \ {0} /\ RowIds \subseteq Nat /\ 0 \notin RowIds
    BY TradesAssumption
<1> HIDE DEF S, fetched, more, next
<1>5. /\ fetched \subseteq S /\ IsFiniteSet(fetched)
      /\ \A i \in S, j \in fetched : i >= j => i \in fetched
      /\ Cardinality(fetched) < Limit + 1 => fetched = S
    BY <1>3, <1>4, NewestOfFinite
<1>6. fetched \in SUBSET RowIds
    BY <1>3, <1>5
<1>7. /\ more \subseteq fetched /\ IsFiniteSet(more)
      /\ \A i \in fetched, j \in more : i >= j => i \in more
      /\ Cardinality(more) < Limit => more = fetched
    BY <1>4, <1>6, NewestOfFinite DEF more
<1>8. Cardinality(fetched) \in Nat /\ Cardinality(more) \in Nat
    BY <1>5, <1>7, FS_CardinalityType
<1>9. CASE Cardinality(fetched) > Limit
    <2>1. next = Min(more)
        BY <1>9 DEF next, more, NextCursor
    <2>2. more # {}
        <3>1. CASE Cardinality(more) < Limit
            BY <1>4, <1>7, <1>8, <1>9, <3>1, FS_EmptySet
        <3>2. CASE ~(Cardinality(more) < Limit)
            <4>1. Cardinality(more) # 0
                BY <1>4, <1>8, <3>2
            <4> QED BY <4>1, FS_EmptySet
        <3> QED BY <3>1, <3>2
    <2>3. more \in SUBSET Int
        BY <1>4, <1>6, <1>7
    <2>4. next \in more /\ \A j \in more : next <= j
        BY <1>7, <2>1, <2>2, <2>3, MinOfFinite
    <2>5. next \in RowIds /\ next # NoCursor
        BY <1>4, <1>6, <1>7, <2>4 DEF NoCursor
    <2>6. ASSUME NEW i \in S PROVE i \in more \/ i < next
        <3>1. i \in Nat /\ next \in Nat /\ next \in fetched
            BY <1>3, <1>4, <1>7, <2>4, <2>5
        <3>2. CASE i >= next
            BY <1>5, <1>7, <2>4, <3>1, <3>2
        <3>3. CASE ~(i >= next)
            BY <3>1, <3>3
        <3> QED BY <3>2, <3>3
    <2>7. page' \in Page
        BY <1>1, <1>2, <1>6, <1>7, <2>5 DEF Page
    <2>8. /\ page'.kept = page.kept /\ page'.got = page.got \cup more
          /\ page'.cursor = next /\ page'.last = FALSE
        BY <1>1, <1>2, <2>5 DEF Page
    <2>9. \A i \in page'.kept : i \in page'.got \/ (~page'.last /\ i < page'.cursor)
        BY <1>1, <2>6, <2>8
    <2> QED BY <1>1, <1>2, <2>7, <2>8, <2>9 DEF PageInv, Owes
<1>10. CASE ~(Cardinality(fetched) > Limit)
    <2>1. next = NoCursor
        BY <1>10 DEF next, NextCursor
    <2>2. fetched = S
        BY <1>4, <1>5, <1>8, <1>10
    <2>3. more = fetched
        <3>1. CASE Cardinality(more) < Limit
            BY <1>7, <3>1
        <3>2. CASE ~(Cardinality(more) < Limit)
            <4>1. Cardinality(more) <= Cardinality(fetched)
                BY <1>5, <1>7, FS_Subset
            <4>2. Cardinality(fetched) = Cardinality(more)
                BY <1>4, <1>8, <1>10, <3>2, <4>1
            <4> QED BY <1>5, <1>7, <4>2, FS_Subset
        <3> QED BY <3>1, <3>2
    <2>4. page' \in Page
        BY <1>1, <1>2, <1>6, <1>7, <2>1 DEF Page, NoCursor
    <2>5. page'.kept = page.kept /\ page'.got = page.got \cup more
        BY <1>1, <1>2 DEF Page
    <2>6. \A i \in page'.kept : i \in page'.got
        BY <1>1, <2>2, <2>3, <2>5
    <2> QED BY <1>1, <1>2, <2>4, <2>5, <2>6 DEF PageInv
<1> QED BY <1>9, <1>10

LEMMA DeleteKeepsPage ==
    ASSUME RecordInv, PageInv, NEW id \in RowIds, DeleteRecord(id)
    PROVE  PageInv'
<1>1. Used(rows') = Used(rows) \ {id}
    BY DeleteKeepsRecords
<1>2. page' = IF page = NoPage THEN NoPage ELSE [page EXCEPT !.kept = page.kept \ {id}]
    BY DEF DeleteRecord
<1>3. CASE page = NoPage
    BY <1>2, <1>3 DEF PageInv
<1>4. CASE page # NoPage
    <2>1. page' = [page EXCEPT !.kept = page.kept \ {id}] /\ page \in Page
        BY <1>2, <1>4 DEF PageInv
    <2>2. /\ page' \in Page /\ page'.kept = page.kept \ {id} /\ page'.got = page.got
          /\ page'.last = page.last /\ page'.cursor = page.cursor
        BY <2>1 DEF Page
    <2> QED BY <1>1, <1>4, <2>2 DEF PageInv, Owes
<1> QED BY <1>3, <1>4

-----------------------------------------------------------------------------
Inv == CommandInv /\ RecordInv /\ OverInv /\ PageInv

LEMMA InitInv == Init => Inv
<1> SUFFICES ASSUME Init PROVE Inv
    OBVIOUS
<1>1. CommandInv
    BY CommandsInit DEF Init
<1>2. RecordInv
    <2>1. rows \in Table /\ Records(rows) = {}
        BY DEF Init, Table, Records, Used
    <2>2. 1..0 = {}
        OBVIOUS
    <2> QED BY <2>1, <2>2 DEF Init, RecordInv
<1>3. OverInv
    BY DEF Init, OverInv
<1>4. PageInv
    BY DEF Init, PageInv
<1> QED BY <1>1, <1>2, <1>3, <1>4 DEF Inv

(* Either side leaves the parts of the other one alone.                    *)
LEMMA SendKeeps ==
    ASSUME Inv, NEW b \in Bots, NEW x \in log, NEW y \in log,
           NEW failed \in SUBSET Executions, NEW heard, Send(b, x, y, failed, heard)
    PROVE  RecordInv' /\ OverInv' /\ PageInv'
<1>1. x \in Executions /\ y \in Executions /\ RecordInv
    BY DEF Inv, RecordInv
<1>2. Used(rows) \subseteq Used(rows')
    BY <1>1, SendStores
<1>3. RecordInv'
    BY <1>1, SendKeepsRecords
<1>4. UNCHANGED <<over, page, ran, machine>>
    BY DEF Send, comVars
<1> QED BY <1>2, <1>3, <1>4 DEF Inv, OverInv, PageInv, Owes

LEMMA TradeStep ==
    ASSUME Inv, TradeNext
    PROVE  RecordInv' /\ OverInv' /\ PageInv'
<1>1. ASSUME NEW noticed \in BOOLEAN, Execute(noticed)
      PROVE  RecordInv' /\ OverInv' /\ PageInv'
    <2>1. RecordInv'
        BY <1>1, ExecuteKeepsRecords DEF Inv
    <2>2. UNCHANGED <<rows, over, page, ran, machine>>
        BY <1>1 DEF Execute, comVars
    <2> QED BY <2>1, <2>2 DEF Inv, OverInv, PageInv, Owes
<1>2. ASSUME NEW b \in Bots, Backfill(b)
      PROVE  RecordInv' /\ OverInv' /\ PageInv'
    <2>1. RecordInv'
        BY <1>2, BackfillKeepsRecords DEF Inv
    <2>2. UNCHANGED <<rows, over, page, ran, machine>>
        BY <1>2 DEF Backfill, comVars
    <2> QED BY <2>1, <2>2 DEF Inv, OverInv, PageInv, Owes
<1>3. ASSUME NEW b \in Bots, NEW x \in Executions, NEW y \in Executions,
             NEW failed \in SUBSET Executions, NEW heard \in BOOLEAN,
             Deliver(b, x, y, failed, heard)
      PROVE  RecordInv' /\ OverInv' /\ PageInv'
    <2>1. x \in log /\ y \in log /\ Send(b, x, y, failed, heard)
        BY <1>3 DEF Deliver, Inv, RecordInv
    <2> QED BY <2>1, SendKeeps
<1>4. ASSUME NEW b \in Bots, NEW i \in Ids, NEW x \in Executions, NEW heard \in BOOLEAN,
             Resync(b, i, x, heard)
      PROVE  RecordInv' /\ OverInv' /\ PageInv'
    <2>1. x \in log /\ Send(b, x, x, {}, heard)
        BY <1>4 DEF Resync
    <2> QED BY <2>1, SendKeeps
<1>5. ASSUME NEW id \in RowIds, DeleteRecord(id)
      PROVE  RecordInv' /\ OverInv' /\ PageInv'
    BY <1>5, DeleteKeepsRecords, DeleteKeepsOver, DeleteKeepsPage DEF Inv
<1>6. ASSUME UNCHANGED <<rows, clock, asleep, log, queue, stored, over, comVars>>
      PROVE  RecordInv' /\ OverInv'
    BY <1>6 DEF Inv, RecordInv, OverInv, comVars
<1>7. CASE StartListing
    <2>1. /\ page' = [cursor |-> NoCursor, got |-> {}, kept |-> Used(rows), last |-> FALSE]
          /\ UNCHANGED <<rows, clock, asleep, log, queue, stored, over, comVars>>
        BY <1>7 DEF StartListing
    <2>2. page' \in Page
        BY <2>1 DEF Page, Used
    <2>3. PageInv'
        BY <2>1, <2>2 DEF PageInv, Owes
    <2> QED BY <1>6, <2>1, <2>3
<1>8. CASE NextPage
    <2>1. UNCHANGED <<rows, clock, asleep, log, queue, stored, over, comVars>>
        BY <1>8 DEF NextPage
    <2> QED BY <1>6, <1>8, <2>1, NextPageKeepsPage DEF Inv
<1>9. CASE EndListing
    <2>1. page' = NoPage /\ UNCHANGED <<rows, clock, asleep, log, queue, stored, over, comVars>>
        BY <1>9 DEF EndListing
    <2> QED BY <1>6, <2>1 DEF PageInv
<1> QED BY <1>1, <1>2, <1>3, <1>4, <1>5, <1>7, <1>8, <1>9 DEF TradeNext

LEMMA NextInv == Inv /\ [Next]_vars => Inv'
<1> SUFFICES ASSUME Inv, [Next]_vars PROVE Inv'
    OBVIOUS
<1>1. CommandInv'
    BY NextIsComNext, CommandsStep DEF Inv
<1>2. CASE TradeNext
    BY <1>1, <1>2, TradeStep DEF Inv
<1>3. CASE [ComNext]_comVars /\ UNCHANGED tradeVars
    <2>1. UNCHANGED <<rows, clock, asleep, log, queue, stored, over, page>>
        BY <1>3 DEF tradeVars
    <2>2. OverInv'
        BY <1>3, <2>1, CommandsKeepOver DEF Inv
    <2>3. RecordInv' /\ PageInv'
        BY <2>1 DEF Inv, RecordInv, PageInv, Owes
    <2> QED BY <1>1, <2>2, <2>3 DEF Inv
<1> QED BY <1>2, <1>3 DEF Next, vars

THEOREM Invariant == Spec => []Inv
BY InitInv, NextInv, PTL DEF Spec

(* No execution falls between a bot's queue and what it looks for, however *)
(* many bots there are and whatever is off, lost or deleted.               *)
THEOREM NothingIsMissed == Spec => []NothingSlipsThrough
<1>1. Inv => NothingSlipsThrough
    BY DEF Inv, RecordInv, NothingSlipsThrough, SinceLastSync, Records
<1> QED BY <1>1, Invariant, PTL

(* A listing by pages of any size is complete.                             *)
THEOREM ListingsAreComplete == Spec => []ListingIsComplete
<1>1. Inv => ListingIsComplete
    BY DEF Inv, PageInv, ListingIsComplete
<1> QED BY <1>1, Invariant, PTL

LEMMA SendAddsOnly ==
    ASSUME Inv, NEW b \in Bots, NEW y \in Executions, NEW z \in Executions,
           NEW failed \in SUBSET Executions, NEW heard, Send(b, y, z, failed, heard)
    PROVE  \A x \in Records(rows') \ Records(rows) : x \in {y, z}
<1>1. RecordInv
    BY DEF Inv
<1>2. Records(rows') \subseteq Records(rows) \cup {y, z}
    BY <1>1, SendStores
<1> QED BY <1>2

(* Deleted records come back only where the user can expect it.            *)
THEOREM OnlyAskedRevivals == Spec => RevivedOnlyIfAsked
<1> DEFINE Expected(x) == \/ x \in queue[OwnerOf[x]]
                          \/ \E i \in machine[OwnerOf[x]].doing : i \notin over[x]
           Step == \A x \in stored : x \in Records(rows') \ Records(rows) => Expected(x)
<1>1. ASSUME Inv, Next, NEW x \in Records(rows') \ Records(rows)
      PROVE  Expected(x)
    <2>1. ASSUME NEW b \in Bots, NEW y \in Executions, NEW z \in Executions,
                 NEW failed \in SUBSET Executions, NEW heard \in BOOLEAN,
                 Deliver(b, y, z, failed, heard)
          PROVE  x \in queue[OwnerOf[x]]
        <3>1. {y, z} \subseteq queue[b] /\ Send(b, y, z, failed, heard)
            BY <2>1 DEF Deliver
        <3>2. x \in {y, z}
            BY <1>1, <3>1, SendAddsOnly
        <3>3. x \in Own(b)
            BY <1>1, <3>1, <3>2 DEF Inv, RecordInv
        <3> QED BY <3>1, <3>2, <3>3 DEF Own
    <2>2. ASSUME NEW b \in Bots, NEW i \in Ids, NEW y \in Executions, NEW heard \in BOOLEAN,
                 Resync(b, i, y, heard)
          PROVE  \E j \in machine[OwnerOf[x]].doing : j \notin over[x]
        <3>1. y \in Own(b) /\ i \in machine[b].doing /\ Send(b, y, y, {}, heard)
            BY <2>2 DEF Resync
        <3>2. x = y
            BY <1>1, <3>1, SendAddsOnly
        <3>3. OwnerOf[x] = b /\ over[x] \cap machine[b].doing = {}
            BY <1>1, <3>1, <3>2 DEF Own, Inv, OverInv
        <3> QED BY <3>1, <3>3
    <2>3. ASSUME NEW id \in RowIds, DeleteRecord(id) PROVE FALSE
        BY <1>1, <2>3, DeleteKeepsRecords DEF Inv
    <2>4. ASSUME rows' = rows PROVE FALSE
        BY <1>1, <2>4
    <2>5. ASSUME NEW noticed \in BOOLEAN, Execute(noticed) PROVE FALSE
        BY <2>4, <2>5 DEF Execute
    <2>6. ASSUME NEW b \in Bots, Backfill(b) PROVE FALSE
        BY <2>4, <2>6 DEF Backfill
    <2>7. CASE StartListing \/ NextPage \/ EndListing
        BY <2>4, <2>7 DEF StartListing, NextPage, EndListing
    <2>8. CASE ComNext /\ UNCHANGED tradeVars
        BY <2>4, <2>8 DEF tradeVars
    <2> QED BY <1>1, <2>1, <2>2, <2>3, <2>5, <2>6, <2>7, <2>8 DEF Next, TradeNext
<1>2. Inv /\ [Next]_vars => [Step]_vars
    BY <1>1
<1> QED BY <1>2, Invariant, PTL DEF Spec, RevivedOnlyIfAsked
=============================================================================
