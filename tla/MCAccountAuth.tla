---------------------------- MODULE MCAccountAuth ----------------------------
(* An administrator and a user, with locks of their own, the user's first.   *)
(* It starts without accounts, or with both signed in and a key of the user. *)
EXTENDS AccountAuth

CONSTANTS r1, r2, boss, user

MCRequests == {r1, r2}
MCNames == {boss, user}
MCLocks == {1, 2}
MCLockOf == [n \in {boss, user} |-> IF n = boss THEN 2 ELSE 1]

(* ids: the user's, which is 3 if account 2 was deleted and the name taken   *)
(* again; old cookies and tokens are still around.                           *)
Established(id) ==
    LET row == [n \in Names |-> [id |-> IF n = boss THEN 1 ELSE id, allowed |-> TRUE,
                                 admin |-> n = boss, must |-> FALSE, epoch |-> 0]]
    IN  /\ users = row
        /\ keys = [k \in 1..MaxKeys |->
                     IF k = 1 /\ id = 2 THEN [name |-> user, owner |-> 2, revoked |-> FALSE] ELSE NoKey]
        /\ records = [n \in Names |-> {}]
        /\ lock = [l \in Locks |-> Free]
        /\ request = [r \in Requests |-> NoRequest]
        /\ cookies = {[name |-> boss, id |-> 1, epoch |-> 0, admin |-> TRUE],
                      [name |-> user, id |-> 2, epoch |-> 0, admin |-> FALSE]}
        /\ tokens = {[name |-> user, key |-> 1]}
        /\ tooled = {}
        /\ nextUser = id + 1 /\ nextKey = 2 /\ changes = 0

MCSpec == (AuthInit \/ Established(2) \/ Established(3)) /\ [][AuthNext]_authVars
=============================================================================
