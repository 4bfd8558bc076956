\* Two connections from two addresses working on one account (whose
\* password the clients know): the failed-login counter and the stored
\* verifier are shared through the login database.  Autoban bans the account
\* after 2 wrong passwords.
CONSTANTS
    c1 = c1  c2 = c2  a1 = a1  a2 = a2  u1 = u1  ip1 = ip1  ip2 = ip2
    Conns = {c1, c2}
    Accounts = {a1}
    Unknown = {}
    IPs = {ip1, ip2}
    IpOf <- MC_IpOf
    LockedIp <- MC_LockedIp
    KnownPw <- MC_KnownPw
    AValues = {"zero", "N", "other"}
    WrongPassMaxCount = 2
    WrongPassBanType = TRUE
    MaxFailed = 3
    MaxSalt = 2
    InitAccBans <- MC_NoBans
    AsyncExecute = FALSE
    MaxPending = 3
    NoName = NoName  NoLock = NoLock  NoSRP = NoSRP
SPECIFICATION Spec
INVARIANT AutobanWithinLimit
