------------------------------ MODULE AccountAuth ------------------------------
(***************************************************************************)
(* Who may do what to which account: the check before every request        *)
(* (app/routes/auth.py check_login, trading_api/security.py), the striped  *)
(* locks (app/routes/ownership.py, app/utils/userlocks.py), the check in   *)
(* the transaction (validate_owner), and the operations that take rights   *)
(* away: passwords, approval, deletion and keys.                           *)
(*                                                                         *)
(* A request takes its locks, is checked with the last of them - what      *)
(* others do in between, they might have done before -, and handles in one *)
(* transaction.                                                            *)
(* What a browser or a bot sends is any cookie or token it ever got.       *)
(***************************************************************************)
EXTENDS Naturals, FiniteSets

CONSTANTS
    Requests,       \* threads that serve requests
    Names,          \* user names
    Locks,          \* the striped locks, natural numbers: id() orders them
    LockOf,         \* user_lock: a lock for each name
    NoUser, NoKey, Free, NoRequest,
    MaxUsers,       \* bound on the ids of accounts
    MaxKeys,        \* bound on the ids of API keys
    MaxChanges      \* bound on the number of changes to accounts and keys

ASSUME AccountAssumption ==
    /\ Locks \subseteq Nat /\ IsFiniteSet(Locks)
    /\ LockOf \in [Names -> Locks]
    /\ MaxUsers \in Nat \ {0} /\ {MaxKeys, MaxChanges} \subseteq Nat
    /\ Free \notin Requests

VARIABLES
    users,      \* users: a row or NoUser for each name
    keys,       \* api_keys: a row or NoKey for each id
    records,    \* the accounts whose requests wrote what is stored under a name
    lock,       \* who holds each lock
    request,    \* what each thread serves
    cookies,    \* every session cookie ever set
    tokens,     \* every key ever shown, with its name
    tooled,     \* names tools/reset_password.py was used on
    nextUser, nextKey, changes

authVars == <<users, keys, records, lock, request, cookies, tokens, tooled,
          nextUser, nextKey, changes>>

User == [id : Nat, allowed : BOOLEAN, admin : BOOLEAN, must : BOOLEAN, epoch : Nat]
Key == [name : Names, owner : Nat, revoked : BOOLEAN]
Cookie == [name : Names, id : Nat, epoch : Nat, admin : BOOLEAN]
Token == [name : Names, key : Nat]

(* Endpoints: of the account's own, of an administrator with a target      *)
(* (TARGET_ACCOUNT_ENDPOINTS), and of bots.  "read" stands for the GETs.   *)
OwnKinds == {"read", "write", "password", "leave", "key", "revoke"}
TargetKinds == {"delete", "allow", "reset"}
EntryKinds == {"login", "signup"}

Request == [pc : {"locking", "granted", "answering"}, kind : OwnKinds \cup TargetKinds \cup EntryKinds \cup {"bot"},
            by : Cookie \cup Token \cup {NoRequest}, target : Names, need : SUBSET Locks,
            read : Nat]

ASSUME RowsAssumption == NoUser \notin User /\ NoKey \notin Key /\ NoRequest \notin Request

-----------------------------------------------------------------------------
(* Locks.                                                                  *)

(* Mutant: the target of an administrator is not locked.                   *)
LocksOfOwn(kind, name, target) == IF kind = "read" THEN {} ELSE {LockOf[name]}

(* check_login, require_token: reads take none, an administrator two.      *)
LocksOf(kind, name, target) ==
    IF kind = "read" THEN {}
    ELSE IF kind \in TargetKinds THEN {LockOf[name], LockOf[target]}
    ELSE {LockOf[name]}

(* Mutant: in any order.                                                   *)
TurnAny(need) == need

(* lock_request_users: in one order.                                       *)
Turn(need) == {l \in need : \A m \in need : l <= m}

Release(r) ==
    /\ lock' = [l \in Locks |-> IF lock[l] = r THEN Free ELSE lock[l]]
    /\ request' = [request EXCEPT ![r] = NoRequest]

-----------------------------------------------------------------------------
(* The checks.                                                             *)

(* Mutant: accounts are told apart by their names only.                    *)
SameName(user, id) == user # NoUser

SameAccount(user, id) == user # NoUser /\ user.id = id

(* check_login and validate_owner agree on what a session is worth.        *)
ValidSession(c) ==
    /\ SameAccount(users[c.name], c.id)
    /\ users[c.name].allowed
    /\ users[c.name].epoch = c.epoch

ValidToken(t) ==
    /\ keys[t.key] # NoKey
    /\ keys[t.key].name = t.name /\ ~keys[t.key].revoked
    /\ users[t.name] # NoUser
    /\ users[t.name].allowed
    /\ ~users[t.name].must

(* A temporary password opens nothing but its own change; targets are for  *)
(* administrators, as the session says (admin_required).                   *)
Admitted(kind, c) ==
    /\ ValidSession(c)
    /\ users[c.name].must => kind = "password"
    /\ kind \in TargetKinds => c.admin

Passes(q) ==
    CASE q.kind \in EntryKinds -> TRUE
      [] q.kind = "bot" -> ValidToken(q.by)
      [] OTHER -> Admitted(q.kind, q.by)

(* The next lock is taken; with the last one the request is checked.       *)
Proceed(r, q) ==
    /\ \E l \in Turn(q.need) :
          LET left == q.need \ {l} IN
          /\ lock[l] = Free
          /\ lock' = [lock EXCEPT ![l] = r]
          /\ left = {} => Passes(q)
          /\ request' = [request EXCEPT ![r] =
                [q EXCEPT !.need = left, !.pc = IF left = {} THEN "granted" ELSE "locking"]]
    /\ UNCHANGED <<users, keys, records, cookies, tokens, tooled, nextUser, nextKey, changes>>

(* A request is known once it has its first lock.                          *)
Arrive(r, kind, by, name, target) ==
    /\ request[r] = NoRequest
    /\ Proceed(r, [pc |-> "locking", kind |-> kind, by |-> by, target |-> target,
                   need |-> LocksOf(kind, name, target), read |-> 0])

TakeLock(r) ==
    /\ request[r] # NoRequest
    /\ request[r].pc = "locking"
    /\ Proceed(r, request[r])

(* A GET waits for no lock.                                                *)
CheckRead(r, c) ==
    /\ request[r] = NoRequest
    /\ Admitted("read", c)
    /\ request' = [request EXCEPT ![r] =
                     [pc |-> "granted", kind |-> "read", by |-> c, target |-> c.name, need |-> {},
                      read |-> 0]]
    /\ UNCHANGED <<users, keys, records, lock, cookies, tokens, tooled, nextUser, nextKey, changes>>

(* The check fails, the session has expired, or the request is refused for *)
(* what it asks.                                                           *)
Refuse(r) ==
    /\ request[r] # NoRequest
    /\ request[r].pc = "locking" => \A l \in Turn(request[r].need) : lock[l] = Free
    /\ Release(r)
    /\ UNCHANGED <<users, keys, records, cookies, tokens, tooled, nextUser, nextKey, changes>>

-----------------------------------------------------------------------------
(* The handlers: one transaction each, most begun with validate_owner.     *)

Granted(r, kind) ==
    /\ request[r] # NoRequest
    /\ request[r].pc = "granted" /\ request[r].kind = kind

By(r) == request[r].by

(* validate_owner, in the transaction of the handler.                      *)
Validated(r) == ValidSession(By(r))

Changed == changes < MaxChanges /\ changes' = changes + 1

(* purge_account.                                                          *)
Purge(n) ==
    /\ users' = [users EXCEPT ![n] = NoUser]
    /\ keys' = [k \in DOMAIN keys |->
                  IF keys[k] # NoKey /\ keys[k].name = n THEN NoKey ELSE keys[k]]
    /\ records' = [records EXCEPT ![n] = {}]

RevokeAll(n) ==
    [k \in DOMAIN keys |-> IF keys[k] # NoKey /\ keys[k].name = n
                             THEN [keys[k] EXCEPT !.revoked = TRUE] ELSE keys[k]]

(* Mutant: sessions outlive the password they began with.                  *)
NewPasswordOnly(user, must) == [user EXCEPT !.must = must]

(* bump_session_epoch, in the same transaction.                            *)
NewPassword(user, must) == [user EXCEPT !.must = must, !.epoch = @ + 1]

Show(r) ==
    /\ request' = [request EXCEPT ![r].pc = "answering", ![r].read = users[By(r).name].id]
    /\ UNCHANGED <<users, keys, records, lock, cookies, tokens, tooled, nextUser, nextKey, changes>>

(* Mutant: a read that does not look again.                                *)
ReadUnchecked(r) == Granted(r, "read") /\ users[By(r).name] # NoUser /\ Show(r)

(* db_conn(read=True): the owner and the data from one snapshot.           *)
Read(r) == Granted(r, "read") /\ Validated(r) /\ Show(r)

(* Anything that writes rows of the account, from the web or by a bot.     *)
(* Most handlers look at the owner again, but not all: request_bot_command *)
(* and resolve_review open a plain db_conn, so nothing is assumed here.    *)
Write(r) ==
    /\ Granted(r, "write") \/ Granted(r, "bot")
    /\ records' = [records EXCEPT ![By(r).name] =
                     @ \cup {IF request[r].kind = "bot" THEN keys[By(r).key].owner ELSE By(r).id}]
    /\ Release(r)
    /\ UNCHANGED <<users, keys, cookies, tokens, tooled, nextUser, nextKey, changes>>

(* change_password: the session goes on under the new epoch.               *)
ChangePassword(r, revoke) ==
    LET n == By(r).name IN
    /\ Granted(r, "password") /\ Validated(r) /\ Changed
    /\ users' = [users EXCEPT ![n] = NewPassword(@, FALSE)]
    /\ keys' = IF revoke THEN RevokeAll(n) ELSE keys
    /\ cookies' = cookies \cup {[By(r) EXCEPT !.epoch = users'[n].epoch]}
    /\ Release(r)
    /\ UNCHANGED <<records, tokens, tooled, nextUser, nextKey>>

(* delete_account: the session says who is no administrator.               *)
Leave(r) ==
    /\ Granted(r, "leave") /\ Validated(r) /\ Changed
    /\ ~By(r).admin
    /\ Purge(By(r).name)
    /\ Release(r)
    /\ UNCHANGED <<cookies, tokens, tooled, nextUser, nextKey>>

(* create_api_key.                                                         *)
CreateKey(r, keep) ==
    LET n == By(r).name IN
    /\ Granted(r, "key") /\ Validated(r) /\ Changed
    /\ nextKey <= MaxKeys
    /\ keys' = [IF keep THEN keys ELSE RevokeAll(n)
                  EXCEPT ![nextKey] = [name |-> n, owner |-> users[n].id, revoked |-> FALSE]]
    /\ tokens' = tokens \cup {[name |-> n, key |-> nextKey]}
    /\ nextKey' = nextKey + 1
    /\ Release(r)
    /\ UNCHANGED <<users, records, cookies, tooled, nextUser>>

(* revoke_api_key has no check of its own.                                 *)
RevokeKey(r, k) ==
    /\ Granted(r, "revoke") /\ Changed
    /\ keys[k] # NoKey
    /\ keys[k].name = By(r).name /\ ~keys[k].revoked
    /\ keys' = [keys EXCEPT ![k].revoked = TRUE]
    /\ Release(r)
    /\ UNCHANGED <<users, records, cookies, tokens, tooled, nextUser, nextKey>>

(* admin_delete_user, admin_toggle_allow: not for administrators.          *)
DeleteUser(r) ==
    LET n == request[r].target IN
    /\ Granted(r, "delete") /\ Validated(r) /\ Changed
    /\ users[n] # NoUser
    /\ ~users[n].admin
    /\ Purge(n)
    /\ Release(r)
    /\ UNCHANGED <<cookies, tokens, tooled, nextUser, nextKey>>

ToggleAllow(r) ==
    LET n == request[r].target IN
    /\ Granted(r, "allow") /\ Validated(r) /\ Changed
    /\ users[n] # NoUser
    /\ ~users[n].admin
    /\ users' = [users EXCEPT ![n].allowed = ~@]
    /\ Release(r)
    /\ UNCHANGED <<keys, records, cookies, tokens, tooled, nextUser, nextKey>>

(* admin_reset_password.                                                   *)
ResetPassword(r, revoke) ==
    LET n == request[r].target IN
    /\ Granted(r, "reset") /\ Validated(r) /\ Changed
    /\ users[n] # NoUser
    /\ users' = [users EXCEPT ![n] = NewPassword(@, TRUE)]
    /\ keys' = IF revoke THEN RevokeAll(n) ELSE keys
    /\ Release(r)
    /\ UNCHANGED <<records, cookies, tokens, tooled, nextUser, nextKey>>

(* login, with the right password of now.                                  *)
Login(r) ==
    LET n == request[r].target IN
    /\ Granted(r, "login")
    /\ users[n] # NoUser
    /\ users[n].allowed
    /\ cookies' = cookies \cup {[name |-> n, id |-> users[n].id, epoch |-> users[n].epoch,
                                 admin |-> users[n].admin]}
    /\ Release(r)
    /\ UNCHANGED <<users, keys, records, tokens, tooled, nextUser, nextKey, changes>>

(* signup: the first account is an administrator; others await approval.   *)
SignUp(r) ==
    LET n == request[r].target
        first == \A m \in Names : users[m] = NoUser
    IN  /\ Granted(r, "signup") /\ Changed
        /\ users[n] = NoUser
        /\ nextUser <= MaxUsers
        /\ users' = [users EXCEPT ![n] = [id |-> nextUser, allowed |-> first, admin |-> first,
                                          must |-> FALSE, epoch |-> 0]]
        /\ nextUser' = nextUser + 1
        /\ Release(r)
        /\ UNCHANGED <<keys, records, cookies, tokens, tooled, nextKey>>

(* tools/reset_password.py: another process, without locks.                *)
Tool(n, random, unlock, promote, keep) ==
    LET new == NewPassword(users[n], random) IN
    /\ Changed
    /\ users[n] # NoUser
    /\ users' = [users EXCEPT ![n] = [new EXCEPT !.allowed = new.allowed \/ unlock,
                                               !.admin = new.admin \/ promote]]
    /\ keys' = IF keep THEN keys ELSE RevokeAll(n)
    /\ tooled' = tooled \cup {n}
    /\ UNCHANGED <<records, lock, request, cookies, tokens, nextUser, nextKey>>

-----------------------------------------------------------------------------
AuthInit ==
    /\ users = [n \in Names |-> NoUser]
    /\ keys = [k \in 1..MaxKeys |-> NoKey]
    /\ records = [n \in Names |-> {}]
    /\ lock = [l \in Locks |-> Free]
    /\ request = [r \in Requests |-> NoRequest]
    /\ cookies = {} /\ tokens = {} /\ tooled = {}
    /\ nextUser = 1 /\ nextKey = 1 /\ changes = 0

Begin(r) ==
    \/ \E c \in cookies :
          \/ CheckRead(r, c)
          \/ \E kind \in OwnKinds \ {"read"} : Arrive(r, kind, c, c.name, c.name)
          \/ \E kind \in TargetKinds, n \in Names : Arrive(r, kind, c, c.name, n)
    \/ \E t \in tokens : Arrive(r, "bot", t, t.name, t.name)
    \/ \E kind \in EntryKinds, n \in Names : Arrive(r, kind, NoRequest, n, n)

Handle(r) ==
    \/ Read(r) \/ Write(r) \/ Leave(r) \/ DeleteUser(r) \/ ToggleAllow(r)
    \/ \E flag \in BOOLEAN :
          ChangePassword(r, flag) \/ CreateKey(r, flag) \/ ResetPassword(r, flag)
    \/ \E k \in 1..MaxKeys : RevokeKey(r, k)
    \/ Login(r) \/ SignUp(r)

AuthNext ==
    \/ \E r \in Requests : Begin(r) \/ TakeLock(r) \/ Refuse(r) \/ Handle(r)
    \/ \E n \in Names, random, unlock, promote, keep \in BOOLEAN :
          Tool(n, random, unlock, promote, keep)

AuthSpec == AuthInit /\ [][AuthNext]_authVars

-----------------------------------------------------------------------------
TypeOK ==
    /\ users \in [Names -> User \cup {NoUser}]
    /\ keys \in [1..MaxKeys -> Key \cup {NoKey}]
    /\ records \in [Names -> SUBSET Nat]
    /\ lock \in [Locks -> Requests \cup {Free}]
    /\ \A r \in Requests : request[r] = NoRequest \/ request[r] \in Request
    /\ cookies \subseteq Cookie /\ tokens \subseteq Token
    /\ tooled \subseteq Names
    /\ {nextUser, nextKey, changes} \subseteq Nat

(* README.en.md, "an old session cannot attach to a recreated account of   *)
(* the same name": what is stored under a name, its keys included, is from *)
(* requests of the account that has the name now.                          *)
NothingIsInherited ==
    /\ \A n \in Names : \A id \in records[n] : users[n] # NoUser /\ users[n].id = id
    /\ \A k \in 1..MaxKeys :
          keys[k] # NoKey =>
             users[keys[k].name] # NoUser /\ users[keys[k].name].id = keys[k].owner

(* Private reads take no lock, yet show only the reader's account.         *)
ReadsShowOwnAccount ==
    \A r \in Requests :
        /\ request[r] # NoRequest
        /\ request[r].pc = "answering"
        => request[r].read = By(r).id

(* What a request was checked for still holds when its handler runs: the   *)
(* password, approval and keys of an account do not change under a request *)
(* that holds its lock - not by others, nor by administrators.             *)
ChecksHoldUntilTheEnd ==
    \A r \in Requests :
        /\ request[r] # NoRequest
        /\ request[r].pc = "granted" /\ request[r].kind \notin {"read"} \cup EntryKinds
        /\ By(r).name \notin tooled
        => Passes(request[r])

Waits(r, q) ==
    /\ request[r] # NoRequest
    /\ request[r].pc = "locking"
    /\ \A l \in Turn(request[r].need) : lock[l] = q

(* The comment in lock_request_users: administrators who act on each other *)
(* or on one account never wait for each other in a circle.                *)
NoCircularWait ==
    \A set \in (SUBSET Requests) \ {{}} : \E r \in set : \A q \in set : q # r => ~Waits(r, q)

(* An administrator is never deleted, blocked or demoted, although a       *)
(* session tells its rights from when it began.                            *)
AdministratorsStay ==
    [][\A n \in Names :
          /\ users[n] # NoUser
          /\ users[n].admin
          => users'[n] # NoUser /\ users'[n].admin /\ (users[n].allowed => users'[n].allowed)]_authVars
=============================================================================
