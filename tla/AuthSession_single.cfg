\* One connection at ip1 trying every name: a1 (password known), a2
\* (locked to ip2, so refused from ip1) and u1 (no account row), with every
\* client value A.  Autoban bans the client address after 2 wrong passwords
\* read back; the statements of a logon proof go through the database
\* worker's queue, which holds at most 2.
CONSTANTS
    c1 = c1  c2 = c2  a1 = a1  a2 = a2  u1 = u1  ip1 = ip1  ip2 = ip2
    Conns = {c1}
    Accounts = {a1, a2}
    Unknown = {u1}
    IPs = {ip1, ip2}
    IpOf <- MC_IpOf
    LockedIp <- MC_LockedIp
    KnownPw <- MC_KnownPw
    AValues = {"zero", "N", "other"}
    WrongPassMaxCount = 2
    WrongPassBanType = FALSE
    MaxFailed = 2
    MaxSalt = 2
    InitAccBans <- MC_NoBans
    AsyncExecute = TRUE
    MaxPending = 2
    NoName = NoName  NoLock = NoLock  NoSRP = NoSRP
SPECIFICATION Spec
INVARIANT TypeOK
