SPECIFICATION MCSpec
CONSTANTS
    r1 = r1
    r2 = r2
    boss = boss
    user = user
    Requests <- MCRequests
    Names <- MCNames
    Locks <- MCLocks
    LockOf <- MCLockOf
    NoUser = NoUser
    NoKey = NoKey
    Free = Free
    NoRequest = NoRequest
    MaxUsers = 4
    MaxKeys = 2
    MaxChanges = 2
INVARIANTS
    NothingIsInherited
    ReadsShowOwnAccount
    ChecksHoldUntilTheEnd
    NoCircularWait
PROPERTIES
    AdministratorsStay
