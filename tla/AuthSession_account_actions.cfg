\* One connection, no IP locks; a2 is banned, so a challenge for it is
\* refused but still sets _login.  The client may send A = N, which passes
\* the A.isZero() safeguard.  The verifier the server generates may have
\* leading zero bytes, which BN_bn2hex drops.  After authenticating, the
\* client may challenge again for the other account and then ask for the
\* realm list or send a reconnect proof.  The statements of a logon proof
\* go through the database worker's queue; autoban bans the account after 2
\* wrong passwords.
CONSTANTS
    c1 = c1  c2 = c2  a1 = a1  a2 = a2  u1 = u1  ip1 = ip1  ip2 = ip2
    Conns = {c1}
    Accounts = {a1, a2}
    Unknown = {}
    IPs = {ip1, ip2}
    IpOf <- MC_IpOf
    LockedIp <- MC_NoLock
    KnownPw <- MC_KnownPw
    AValues = {"zero", "N", "other"}
    WrongPassMaxCount = 2
    WrongPassBanType = TRUE
    MaxFailed = 3
    MaxSalt = 2
    InitAccBans <- MC_A2Banned
    AsyncExecute = TRUE
    MaxPending = 3
    NoName = NoName  NoLock = NoLock  NoSRP = NoSRP
SPECIFICATION Spec
PROPERTY LoginPerSpec
