--------------------------- MODULE MC_AuthSession ---------------------------
(* Model-checking instance of AuthSession: two connections from two        *)
(* addresses, two accounts (the clients know the password of a1 only), and *)
(* one login name with no account row.                                      *)
EXTENDS AuthSession

CONSTANTS c1, c2, a1, a2, u1, ip1, ip2

MC_IpOf == [c \in Conns |-> IF c = c1 THEN ip1 ELSE ip2]

\* a2 is locked to ip2, so a challenge for it from c1 is refused
MC_LockedIp == [a \in Accounts |-> IF a = a2 THEN ip2 ELSE NoLock]

MC_KnownPw == {a1}

MC_NoLock == [a \in Accounts |-> NoLock]

MC_NoBans == [a \in Accounts |-> {}]

\* a2 carries a temporary ban
MC_A2Banned == [a \in Accounts |-> IF a = a2 THEN {"temp"} ELSE {}]
=============================================================================
