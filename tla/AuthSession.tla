----------------------------- MODULE AuthSession -----------------------------
(***************************************************************************)
(* The authentication handlers of the auth server (AuthSocket.cpp): logon  *)
(* challenge, logon proof, reconnect challenge, reconnect proof and realm   *)
(* list, run by several connections that share the login database.          *)
(*                                                                          *)
(* Each action is one complete packet handled by one connection; the        *)
(* framing of packets in the byte stream and the flood guard of OnRead are  *)
(* modelled in AuthOnRead.  Cryptography is abstracted to what a client can *)
(* compute: an SRP6 state is named by the account whose verifier it holds,  *)
(* and a session key is "public" when the client population can compute it *)
(* and "secret" when it cannot.  The client population knows the passwords  *)
(* of the accounts in KnownPw and may send any packet.                      *)
(*                                                                          *)
(* LoginDatabase.Execute hands a statement to the database worker, which    *)
(* applies the queued statements in order, while LoginDatabase.Query reads *)
(* at once.  With AsyncExecute the statements of a logon proof (its         *)
(* LOGIN_SET_LOGONPROOF, LOGIN_SET_FAILEDLOGINS and the autoban) go through *)
(* that queue; without it every statement is applied when it is issued, as *)
(* the store's contract in the spec (atomic read/update per call) has it.  *)
(***************************************************************************)
EXTENDS Naturals, FiniteSets, SequencesExt

CONSTANTS
    Conns,              \* connection slots (one AuthSocket object each)
    Accounts,           \* account names present in the account table
    Unknown,            \* login names with no account row
    IPs,                \* remote addresses
    IpOf,               \* IpOf[c]: remote address of connection c
    LockedIp,           \* LockedIp[a]: address account a is locked to, or NoLock
    KnownPw,            \* accounts whose password the clients know
    AValues,            \* client public values A the clients may send
    WrongPassMaxCount,  \* config WrongPass.MaxCount (0 disables the counter)
    WrongPassBanType,   \* config WrongPass.BanType: TRUE bans the account, FALSE the IP
    MaxFailed,          \* bound on the failed_logins counter
    MaxSalt,            \* bound on the number of salts _SetVSFields generates
    InitAccBans,        \* active account_banned rows when the model starts
    AsyncExecute,       \* Execute queues the statement for the database worker
    MaxPending,         \* bound on the statements waiting in that queue
    NoName, NoLock, NoSRP

Names == Accounts \cup Unknown

ASSUME /\ IpOf \in [Conns -> IPs]
       /\ LockedIp \in [Accounts -> IPs \cup {NoLock}]
       /\ KnownPw \subseteq Accounts
       /\ AValues \subseteq {"zero", "N", "other"}
       /\ WrongPassMaxCount \in Nat /\ WrongPassBanType \in BOOLEAN
       /\ Accounts \cap Unknown = {}
       /\ InitAccBans \in [Accounts -> SUBSET {"temp", "perm"}]

\* A key value as the clients see it.
KeyVals == {"none", "public", "secret"}
BanKinds == {"temp", "perm"}

\* The statements that may wait for the database worker: failed_logins + 1,
\* LOGIN_SET_LOGONPROOF (session key stored, failed_logins reset) and the
\* two autobans; who is the account, or the address of an IP ban.
Stmts == [op : {"failed", "proof", "accban"}, who : Accounts, key : KeyVals]
         \cup [op : {"ipban"}, who : IPs, key : {"none"}]

VARIABLES
    \* --- AuthSocket members, per connection ---
    open,        \* socket not shut down
    authed,      \* _authed
    login,       \* _login
    expv,        \* _expversion: "valid" when any expansion flag is set
    srp,         \* account whose (s, v) the (b, B) of this connection were made for
    K,           \* session key K
    rp,          \* _reconnectProof has been set
    \* --- login database ---
    salt,        \* salt[a]: 0 when the account has no stored (v, s), else a salt id
    saltGen,     \* salts generated so far
    vShort,      \* vShort[a]: the stored v hex string is shorter than 64 digits
    sessionKey,  \* account.sessionkey
    failed,      \* account.failed_logins
    accBans,     \* active rows of account_banned for the account
    ipBans,      \* active rows of ip_banned for the address
    dbq,         \* statements Execute queued and the worker has not applied
    \* --- history, not program state ---
    authAs,      \* login at the moment the connection was last authenticated
    authVia,     \* the proof that did it: "none", "logon" or "reconnect"
    listedOther, \* a realm list was sent for an account other than authAs
    sinceBan     \* wrong passwords per account since its last autoban or success

connVars == <<open, authed, login, expv, srp, K, rp>>
dbVars   == <<salt, saltGen, vShort, sessionKey, failed, accBans, ipBans, dbq>>
histVars == <<authAs, authVia, listedOther, sinceBan>>
vars     == <<connVars, dbVars, histVars>>

TypeOK ==
    /\ open \in [Conns -> BOOLEAN]
    /\ authed \in [Conns -> BOOLEAN]
    /\ login \in [Conns -> Names \cup {NoName}]
    /\ expv \in [Conns -> {"valid", "none"}]
    /\ srp \in [Conns -> Accounts \cup {NoSRP}]
    /\ K \in [Conns -> KeyVals]
    /\ rp \in [Conns -> BOOLEAN]
    /\ salt \in [Accounts -> 0..MaxSalt]
    /\ saltGen \in 0..MaxSalt
    /\ vShort \in [Accounts -> BOOLEAN]
    /\ sessionKey \in [Accounts -> KeyVals]
    /\ failed \in [Accounts -> 0..MaxFailed]
    /\ accBans \in [Accounts -> SUBSET BanKinds]
    /\ ipBans \in [IPs -> SUBSET BanKinds]
    /\ dbq \in Seq(Stmts) /\ Len(dbq) <= MaxPending
    /\ authAs \in [Conns -> Names \cup {NoName}]
    /\ authVia \in [Conns -> {"none", "logon", "reconnect"}]
    /\ listedOther \in [Conns -> BOOLEAN]
    /\ sinceBan \in [Accounts -> 0..MaxFailed]

-----------------------------------------------------------------------------
(* The state a freshly constructed AuthSocket is in.  _expversion is not   *)
(* initialised by the constructor, so its first value is whatever the      *)
(* memory held: either no flag or some flag set.                           *)
FreshConn(c) ==
    /\ open' = [open EXCEPT ![c] = TRUE]
    /\ authed' = [authed EXCEPT ![c] = FALSE]
    /\ login' = [login EXCEPT ![c] = NoName]
    /\ \E e \in {"valid", "none"} : expv' = [expv EXCEPT ![c] = e]
    /\ srp' = [srp EXCEPT ![c] = NoSRP]
    /\ K' = [K EXCEPT ![c] = "none"]
    /\ rp' = [rp EXCEPT ![c] = FALSE]
    /\ authAs' = [authAs EXCEPT ![c] = NoName]
    /\ authVia' = [authVia EXCEPT ![c] = "none"]
    /\ listedOther' = [listedOther EXCEPT ![c] = FALSE]
    /\ UNCHANGED sinceBan

Init ==
    /\ open = [c \in Conns |-> TRUE]
    /\ authed = [c \in Conns |-> FALSE]
    /\ login = [c \in Conns |-> NoName]
    /\ expv \in [Conns -> {"valid", "none"}]
    /\ srp = [c \in Conns |-> NoSRP]
    /\ K = [c \in Conns |-> "none"]
    /\ rp = [c \in Conns |-> FALSE]
    /\ salt = [a \in Accounts |-> 0]
    /\ saltGen = 0
    /\ vShort = [a \in Accounts |-> FALSE]
    \* a client that knows the password may have logged in before
    /\ sessionKey \in [Accounts -> {"none", "public", "secret"}]
    /\ \A a \in Accounts : sessionKey[a] = "public" => a \in KnownPw
    /\ \A a \in Accounts : sessionKey[a] = "secret" => a \notin KnownPw
    /\ failed = [a \in Accounts |-> 0]
    /\ accBans = InitAccBans
    /\ ipBans = [i \in IPs |-> {}]
    /\ dbq = << >>
    /\ authAs = [c \in Conns |-> NoName]
    /\ authVia = [c \in Conns |-> "none"]
    /\ listedOther = [c \in Conns |-> FALSE]
    /\ sinceBan = [a \in Accounts |-> 0]

-----------------------------------------------------------------------------
(* Why a logon challenge for name n from connection c is refused, in the   *)
(* order the handler checks: banned IP, no account row, IP lock, account   *)
(* ban.  "none" means the challenge succeeds.                               *)
ChallengeRefusal(c, n) ==
    CASE ipBans[IpOf[c]] # {}                                 -> "ip_banned"
      [] n \notin Accounts                                    -> "unknown_account"
      [] LockedIp[n] # NoLock /\ LockedIp[n] # IpOf[c]        -> "ip_locked"
      [] accBans[n] # {}                                      -> "account_banned"
      [] OTHER                                                -> "none"

(* _SetVSFields: a fresh random salt and the verifier v = g^x mod N,       *)
(* persisted with LOGIN_SET_VS as AsHexStr() strings.  AsHexStr omits       *)
(* leading zero bytes, so a v below 2^248 is stored with fewer than 64      *)
(* digits; s is drawn with its top bit set and always has 64.               *)
SetVSFields(n) ==
    /\ saltGen < MaxSalt
    /\ saltGen' = saltGen + 1
    /\ salt' = [salt EXCEPT ![n] = saltGen + 1]
    /\ \E short \in BOOLEAN : vShort' = [vShort EXCEPT ![n] = short]

(* The stored v and s are used when both are 64 hex digits long.           *)
StoredVSValid(n) == salt[n] # 0 /\ ~vShort[n]

(* Variant of LogonChallenge that sets up the SRP6 values before the       *)
(* refusal checks.                                                          *)
LogonChallengeSRPFirst(c, n, build) ==
    /\ open[c]
    /\ login' = [login EXCEPT ![c] = n]
    /\ expv' = [expv EXCEPT ![c] = build]
    /\ srp' = [srp EXCEPT ![c] = n]
    /\ IF ChallengeRefusal(c, n) = "none" /\ ~StoredVSValid(n)
       THEN SetVSFields(n)
       ELSE UNCHANGED <<salt, saltGen, vShort>>
    /\ UNCHANGED <<open, authed, K, rp, sessionKey, failed, accBans, ipBans,
                   dbq, histVars>>

(* AUTH_LOGON_CHALLENGE with account name n and a client build that is    *)
(* either accepted ("valid") or not.  _login and _expversion are set       *)
(* before any check; only a successful challenge makes new (b, B).          *)
LogonChallenge(c, n, build) ==
    /\ open[c]
    /\ login' = [login EXCEPT ![c] = n]
    /\ expv' = [expv EXCEPT ![c] = build]
    /\ IF ChallengeRefusal(c, n) = "none"
       THEN /\ IF StoredVSValid(n) THEN UNCHANGED <<salt, saltGen, vShort>>
                                   ELSE SetVSFields(n)
            /\ srp' = [srp EXCEPT ![c] = n]
       ELSE UNCHANGED <<srp, salt, saltGen, vShort>>
    /\ UNCHANGED <<open, authed, K, rp, sessionKey, failed, accBans, ipBans,
                   dbq, histVars>>

(* The clients can compute S, hence K and the proof M, when A is a multiple *)
(* of N (S = 0), when b and v were never set on this connection (S = 1),   *)
(* or when they know the password behind the verifier v.                    *)
CanComputeS(c, a) ==
    \/ a = "N"
    \/ srp[c] = NoSRP
    \/ srp[c] \in KnownPw

(* SRP safeguard of the handler: the proof is aborted when A is zero.       *)
ARejected(a) == a = "zero"

(* Variant of ReachesLimit with an off-by-one comparison.                   *)
ReachesLimitLate(count) == count > WrongPassMaxCount

(* The failed-login count at which a wrong password bans.                   *)
ReachesLimit(count) == count >= WrongPassMaxCount

(* The part of the login database the queued statements write, and the     *)
(* queue, as one value: the database as the handler sees it.                 *)
Store == [failed |-> failed, accBans |-> accBans, ipBans |-> ipBans,
          sessionKey |-> sessionKey, q |-> dbq]

(* What one statement does to the tables.                                   *)
Apply(st, w) ==
    CASE w.op = "failed" -> [st EXCEPT !.failed[w.who] = @ + 1]
      [] w.op = "proof"  -> [st EXCEPT !.failed[w.who] = 0,
                                       !.sessionKey[w.who] = w.key]
      [] w.op = "accban" -> [st EXCEPT !.accBans[w.who] = @ \cup {"temp"}]
      [] w.op = "ipban"  -> [st EXCEPT !.ipBans[w.who] = @ \cup {"temp"}]

(* LoginDatabase.Execute: the statement waits in the worker's queue, or is  *)
(* applied at once.                                                          *)
Execute(st, w) ==
    IF AsyncExecute THEN [st EXCEPT !.q = Append(@, w)] ELSE Apply(st, w)

(* The database worker applies the first k queued statements.               *)
WorkerApplies(st, k) ==
    [FoldLeft(Apply, st, SubSeq(st.q, 1, k)) EXCEPT !.q = SubSeq(st.q, k + 1, Len(st.q))]

(* The tables and the queue take the values of st.                          *)
Commit(st) ==
    /\ failed' = st.failed /\ accBans' = st.accBans /\ ipBans' = st.ipBans
    /\ sessionKey' = st.sessionKey /\ dbq' = st.q

(* failed_logins increments for account n still in the queue.               *)
PendingFailed(n) ==
    Cardinality({i \in 1..Len(dbq) : dbq[i].op = "failed" /\ dbq[i].who = n})

(* The failed-login bookkeeping of a wrong proof: LOGIN_SET_FAILEDLOGINS     *)
(* executed, LOGIN_GET_FAILEDLOGINS queried (the worker may have applied     *)
(* any part of its queue by then), and a ban of the account or of the IP     *)
(* once the count read reaches WrongPass.MaxCount.  Rows exist only for      *)
(* real accounts.                                                            *)
WrongPassword(c) ==
    LET n == login[c] IN
    IF WrongPassMaxCount > 0 /\ n \in Accounts
    THEN /\ failed[n] + PendingFailed(n) < MaxFailed
         /\ Len(dbq) + 2 <= MaxPending
         /\ LET st == Execute(Store, [op |-> "failed", who |-> n, key |-> "none"])
                ban == IF WrongPassBanType
                       THEN [op |-> "accban", who |-> n, key |-> "none"]
                       ELSE [op |-> "ipban", who |-> IpOf[c], key |-> "none"]
            IN \E k \in 0..Len(st.q) :
                 LET read == WorkerApplies(st, k) IN
                 IF ReachesLimit(read.failed[n])
                 THEN /\ Commit(Execute(read, ban))
                      /\ sinceBan' = [sinceBan EXCEPT ![n] = 0]
                 ELSE /\ Commit(read)
                      /\ sinceBan' = [sinceBan EXCEPT ![n] = @ + 1]
    ELSE UNCHANGED <<failed, accBans, ipBans, sessionKey, dbq, sinceBan>>

(* AUTH_LOGON_PROOF with client value A = a and a proof M1 that matches     *)
(* (match = TRUE) or not.  A client can only send a matching M1 when it can *)
(* compute S.  The socket is shut down for an invalid build or A = 0;       *)
(* otherwise K is derived before M1 is compared.  A match stores K, the     *)
(* address and the locale (LOGIN_SET_LOGONPROOF, which also resets          *)
(* failed_logins) and sets _authed.                                         *)
LogonProof(c, a, match) ==
    /\ open[c]
    /\ match => CanComputeS(c, a)
    /\ IF expv[c] = "none" \/ ARejected(a)
       THEN /\ open' = [open EXCEPT ![c] = FALSE]
            /\ UNCHANGED <<authed, K, dbVars, histVars>>
       ELSE /\ K' = [K EXCEPT ![c] = IF CanComputeS(c, a) THEN "public" ELSE "secret"]
            /\ IF match
               THEN /\ authed' = [authed EXCEPT ![c] = TRUE]
                    /\ authAs' = [authAs EXCEPT ![c] = login[c]]
                    /\ authVia' = [authVia EXCEPT ![c] = "logon"]
                    /\ IF login[c] \in Accounts
                       THEN /\ Len(dbq) < MaxPending
                            /\ Commit(Execute(Store, [op |-> "proof", who |-> login[c],
                                                      key |-> K'[c]]))
                            /\ sinceBan' = [sinceBan EXCEPT ![login[c]] = 0]
                       ELSE UNCHANGED <<sessionKey, failed, accBans, ipBans, dbq, sinceBan>>
               ELSE /\ WrongPassword(c)
                    /\ UNCHANGED <<authed, authAs, authVia>>
            /\ UNCHANGED <<open, salt, saltGen, vShort, listedOther>>
    /\ UNCHANGED <<login, expv, srp, rp>>

(* AUTH_RECONNECT_CHALLENGE for name n: loads the stored session key and   *)
(* sends a fresh random challenge; no account row shuts the socket.        *)
ReconnectChallenge(c, n) ==
    /\ open[c]
    /\ login' = [login EXCEPT ![c] = n]
    /\ IF n \in Accounts
       THEN /\ K' = [K EXCEPT ![c] = sessionKey[n]]
            /\ rp' = [rp EXCEPT ![c] = TRUE]
            /\ UNCHANGED open
       ELSE /\ open' = [open EXCEPT ![c] = FALSE]
            /\ UNCHANGED <<K, rp>>
    /\ UNCHANGED <<authed, expv, srp, dbVars, histVars>>

(* AUTH_RECONNECT_PROOF: R2 = SHA1(login, R1, challenge, K).  The clients   *)
(* can match it only when they know K.  Without a login, challenge or key  *)
(* the handler returns false and the socket stays open; a mismatch shuts it.*)
ReconnectProof(c, match) ==
    /\ open[c]
    /\ match => K[c] = "public"
    /\ IF login[c] = NoName \/ ~rp[c] \/ K[c] = "none"
       THEN UNCHANGED <<open, authed, authAs, authVia>>
       ELSE IF match
            THEN /\ authed' = [authed EXCEPT ![c] = TRUE]
                 /\ authAs' = [authAs EXCEPT ![c] = login[c]]
                 /\ authVia' = [authVia EXCEPT ![c] = "reconnect"]
                 /\ UNCHANGED open
            ELSE /\ open' = [open EXCEPT ![c] = FALSE]
                 /\ UNCHANGED <<authed, authAs, authVia>>
    /\ UNCHANGED <<login, expv, srp, K, rp, dbVars, listedOther, sinceBan>>

(* REALM_LIST: dispatched only once _authed is set (otherwise OnRead finds *)
(* no handler and shuts the socket).  The list is built for the account     *)
(* named by _login; no account row shuts the socket.                        *)
RealmList(c) ==
    /\ open[c]
    /\ IF authed[c] /\ login[c] \in Accounts
       THEN /\ listedOther' = [listedOther EXCEPT ![c] = @ \/ authAs[c] # login[c]]
            /\ UNCHANGED open
       ELSE /\ open' = [open EXCEPT ![c] = FALSE]
            /\ UNCHANGED listedOther
    /\ UNCHANGED <<authed, login, expv, srp, K, rp, dbVars, authAs, authVia, sinceBan>>

-----------------------------------------------------------------------------
(* The environment: clients disconnect and reconnect, bans run out.        *)

Disconnect(c) ==
    /\ open[c]
    /\ open' = [open EXCEPT ![c] = FALSE]
    /\ UNCHANGED <<authed, login, expv, srp, K, rp, dbVars, histVars>>

Accept(c) ==
    /\ ~open[c]
    /\ FreshConn(c)
    /\ UNCHANGED dbVars

(* A temporary ban whose unbandate has passed is deactivated by            *)
(* LOGIN_SET_EXPIREDACCBANS / LOGIN_SET_EXPIREDIPBANS before it is read.    *)
AccountBanExpires(a) ==
    /\ "temp" \in accBans[a]
    /\ accBans' = [accBans EXCEPT ![a] = @ \ {"temp"}]
    /\ UNCHANGED <<connVars, salt, saltGen, vShort, sessionKey, failed, ipBans, dbq,
                   histVars>>

IpBanExpires(i) ==
    /\ "temp" \in ipBans[i]
    /\ ipBans' = [ipBans EXCEPT ![i] = @ \ {"temp"}]
    /\ UNCHANGED <<connVars, salt, saltGen, vShort, sessionKey, failed, accBans, dbq,
                   histVars>>

(* The database worker applies the oldest queued statement.                  *)
DbWorker ==
    /\ dbq # << >>
    /\ Commit(WorkerApplies(Store, 1))
    /\ UNCHANGED <<connVars, salt, saltGen, vShort, histVars>>

Next ==
    \/ \E c \in Conns :
        \/ \E n \in Names, b \in {"valid", "none"} : LogonChallenge(c, n, b)
        \/ \E a \in AValues, m \in BOOLEAN : LogonProof(c, a, m)
        \/ \E n \in Names : ReconnectChallenge(c, n)
        \/ \E m \in BOOLEAN : ReconnectProof(c, m)
        \/ RealmList(c)
        \/ Disconnect(c)
        \/ Accept(c)
    \/ \E a \in Accounts : AccountBanExpires(a)
    \/ \E i \in IPs : IpBanExpires(i)
    \/ DbWorker

Spec == Init /\ [][Next]_vars

-----------------------------------------------------------------------------
(* Properties.                                                              *)

(* A session key the clients can compute is stored (LOGIN_SET_LOGONPROOF)  *)
(* only for an account whose password they know: otherwise the world       *)
(* server, which trusts account.sessionkey, would admit them to it.  This   *)
(* is what the SRP6 exchange of _HandleLogonChallenge / _HandleLogonProof   *)
(* is for.                                                                  *)
PersistedKeyNeedsPassword ==
    \A a \in Accounts : sessionKey[a] = "public" => a \in KnownPw

(* A reconnect proof (_HandleReconnectProof) authenticates a connection as *)
(* an existing account only when the clients hold that account's password: *)
(* R2 must be made with the session key stored for the account, and only a *)
(* logon with the password puts a key the clients know there.              *)
ReconnectOnlyAsKnownAccount ==
    \A c \in Conns :
        authVia[c] = "reconnect" /\ authAs[c] \in Accounts => authAs[c] \in KnownPw

(* _HandleRealmList sends the realm list (with per-account character        *)
(* counts) only for the account the connection authenticated as.           *)
RealmListForAuthenticatedAccount ==
    \A c \in Conns : ~listedOther[c]

(* What a connection does after authenticating it does as an account whose *)
(* password its client holds: it is admitted by a reconnect proof only as  *)
(* such an account, and _HandleRealmList answers only for the account it   *)
(* authenticated as.  Both read the session's _login, which a later         *)
(* challenge on the same connection overwrites.                             *)
ActsOnlyAsAuthenticatedAccount ==
    ReconnectOnlyAsKnownAccount /\ RealmListForAuthenticatedAccount

(* Everything the server does for an account needs the account's         *)
(* password.  The login database keeps its credentials as spec 4.3 says:   *)
(* the verifier and salt are written once (_SetVSFields only when none     *)
(* existed), and a session key the clients can compute is stored only for  *)
(* an account whose password they know.  And a connection acts only as an  *)
(* account it proved (ActsOnlyAsAuthenticatedAccount).  Init stores no key  *)
(* and authenticates no connection.  A step condition, checked as part of  *)
(* LoginPerSpec.                                                            *)
AccountStepNeedsPassword ==
    /\ \A a \in Accounts : salt[a] # 0 => salt'[a] = salt[a]
    /\ PersistedKeyNeedsPassword'
    /\ ActsOnlyAsAuthenticatedAccount'

(* With WrongPass.MaxCount set, an account never takes WrongPass.MaxCount  *)
(* wrong passwords, from any mix of connections, without a ban being       *)
(* issued (the failed_logins counter of the logon-proof handler).           *)
AutobanWithinLimit ==
    WrongPassMaxCount > 0 => \A a \in Accounts : sinceBan[a] < WrongPassMaxCount


(* The session key account a holds once the database worker has applied   *)
(* every statement issued so far: the key of its latest logon proof.        *)
LatestKey(a) == WorkerApplies(Store, Len(dbq)).sessionKey[a]

(* Spec 8 (end-to-end scenario): the session key a logon proof yields is   *)
(* the one a following reconnect challenge and proof succeed with.  So the *)
(* LOGIN_GET_SESSIONKEY query of _HandleReconnectChallenge loads the key    *)
(* of the account's latest logon proof, which _HandleLogonProof stored      *)
(* with LOGIN_SET_LOGONPROOF.                                               *)
ReconnectLoadsLatestKey ==
    \A c \in Conns, n \in Accounts :
        ReconnectChallenge(c, n) => K'[c] = LatestKey(n)

(* Spec 4.3 and 7: a banned account, or a connection from a banned         *)
(* address, fails authentication.  No logon proof admits a connection as   *)
(* an account while that account or the connection's address has an        *)
(* active ban, including an autoban issued after the connection's           *)
(* challenge by its own or another connection's wrong passwords.            *)
BanStopsLogon ==
    \A c \in Conns, a \in AValues :
        LogonProof(c, a, TRUE) /\ authed'[c] /\ login[c] \in Accounts =>
            accBans[login[c]] = {} /\ ipBans[IpOf[c]] = {}

(* The logon and reconnect handlers do for an account what spec 4.3, 7     *)
(* and 8 say: no step acts for an account without its password             *)
(* (AccountStepNeedsPassword); no account takes WrongPass.MaxCount wrong    *)
(* passwords without an autoban (AutobanWithinLimit), and a ban stops its   *)
(* account's logons (BanStopsLogon); a reconnect uses the key of the        *)
(* latest logon (ReconnectLoadsLatestKey).  The statements a logon proof    *)
(* issues through LoginDatabase.Execute wait for the database worker while  *)
(* the handlers' LoginDatabase.Query reads at once.                         *)
LoginPerSpec ==
    [][/\ AccountStepNeedsPassword
       /\ AutobanWithinLimit'
       /\ BanStopsLogon
       /\ ReconnectLoadsLatestKey]_vars

=============================================================================
