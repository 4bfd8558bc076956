------------------------------ MODULE AuthOnRead ------------------------------
(***************************************************************************)
(* AuthSocket::OnRead: the read loop of one auth connection, its dispatch   *)
(* table and its two flood guards (AuthSocket.cpp).                         *)
(*                                                                          *)
(* The client writes whole packets into the socket's input buffer; each     *)
(* arrival of data runs OnRead once, which peeks the command byte of the    *)
(* first buffered packet, counts it against the guards, and calls the       *)
(* handler the table selects, until the buffer is empty, a handler returns  *)
(* false, or a guard shuts the socket.  Handlers are abstracted to the      *)
(* results they can return (what they do is AuthSession); time(NULL) is a   *)
(* clock of whole seconds.  The last packet may have arrived in part: only  *)
(* its first segment is buffered until the rest arrives.                   *)
(***************************************************************************)
EXTENDS Naturals, Sequences, SequencesExt

CONSTANTS
    MaxChallengesInARow,    \* MAX_AUTH_LOGON_CHALLENGES_IN_A_ROW (3 in the code)
    TestPeriod,             \* AUTH_PACKET_TIME_TEST_PERIOD (30 s in the code)
    PeriodLimit,            \* AUTH_PACKET_PERIOD_LIMIT (10 in the code)
    Cmds,                   \* command bytes the client may send
    MaxTime,                \* last second of the model
    MaxBuffered,            \* bound on packets waiting in the input buffer
    MaxSent                 \* bound on packets the client sends

\* The handler table: command byte and required status.
Table == [LogonChallenge |-> "connected", LogonProof |-> "connected",
          ReconnectChallenge |-> "connected", ReconnectProof |-> "connected",
          RealmList |-> "authed", XferAccept |-> "connected",
          XferResume |-> "connected", XferCancel |-> "connected"]

ASSUME /\ Cmds \subseteq DOMAIN Table \cup {"Unknown"}
       /\ {MaxChallengesInARow, TestPeriod, PeriodLimit} \subseteq Nat \ {0}

(* What a handler does with a complete packet: whether it consumes the      *)
(* packet, shuts the socket down, returns true, and sets _authed.           *)
R(consume, shut, ret, auth) == [consume |-> consume, shut |-> shut, ret |-> ret, auth |-> auth]

HandlerResults(cmd) ==
    CASE cmd = "LogonChallenge"     -> {R(TRUE, FALSE, TRUE, FALSE)}
      [] cmd = "LogonProof"         -> {R(TRUE, FALSE, TRUE, FALSE),   \* wrong password
                                        R(TRUE, FALSE, TRUE, TRUE),    \* proof matches
                                        R(TRUE, TRUE, TRUE, FALSE)}    \* bad build or A = 0
      [] cmd = "ReconnectChallenge" -> {R(TRUE, FALSE, TRUE, FALSE),
                                        R(TRUE, TRUE, FALSE, FALSE)}   \* no account row
      [] cmd = "ReconnectProof"     -> {R(TRUE, FALSE, TRUE, TRUE),
                                        R(TRUE, FALSE, FALSE, FALSE),  \* no login, challenge or key
                                        R(TRUE, TRUE, FALSE, FALSE)}   \* R2 mismatch
      [] cmd = "RealmList"          -> {R(TRUE, FALSE, TRUE, FALSE),
                                        R(TRUE, TRUE, FALSE, FALSE)}   \* no account row
      [] cmd = "XferAccept"         -> {R(FALSE, FALSE, FALSE, FALSE)} \* no patch open
      [] cmd = "XferResume"         -> {R(FALSE, FALSE, FALSE, FALSE)} \* no patch open
      [] cmd = "XferCancel"         -> {R(TRUE, TRUE, TRUE, FALSE)}

(* How much of the last buffered packet has arrived: all of it, less than  *)
(* the fixed size a handler checks first, or more than that but not all.   *)
Parts == {"whole", "short", "long"}

(* The packets longer than their command byte, which can arrive in two      *)
(* segments, and those with a variable-length body after a 4-byte header.  *)
Splittable == {"LogonChallenge", "ReconnectChallenge", "LogonProof",
               "ReconnectProof", "RealmList", "XferResume"}
HeaderFirst == {"LogonChallenge", "ReconnectChallenge"}

VARIABLES
    inbuf,              \* packets in the socket's input buffer; "Garbage"
                        \* is the body of a packet whose header was read
    tail,               \* how much of the last packet in inbuf has arrived
    arrived,            \* data arrived since the last OnRead
    reading,            \* OnRead is running
    open,               \* the socket has not been shut down
    authed,             \* _authed
    now,                \* time(NULL)
    challengesInARow,   \* local of OnRead
    authPacketTime,     \* _authPacketTime (0: never set)
    authPacketCount,    \* _authPacketCount
    \* --- history, not program state ---
    sent,               \* packets the client has sent
    counted,            \* times at which the last PeriodLimit + 1 commands were counted
    dispatched,         \* times at which the last PeriodLimit + 1 handlers were called
    consec,             \* logon challenges counted since the last other command
    trip,               \* which guard shut the socket: "none", "row" or "time"
    lateCall            \* a handler was called after the socket was shut

vars == <<inbuf, tail, arrived, reading, open, authed, now, challengesInARow,
          authPacketTime, authPacketCount, sent, counted, dispatched, consec, trip, lateCall>>

TypeOK ==
    /\ inbuf \in Seq(Cmds \cup {"Garbage"}) /\ Len(inbuf) <= MaxBuffered
    /\ tail \in Parts
    /\ arrived \in BOOLEAN /\ reading \in BOOLEAN
    /\ open \in BOOLEAN /\ authed \in BOOLEAN
    /\ now \in 1..MaxTime
    /\ challengesInARow \in 0..MaxChallengesInARow
    /\ authPacketTime \in 0..MaxTime
    /\ authPacketCount \in 0..PeriodLimit + 1
    /\ sent \in 0..MaxSent
    /\ counted \in Seq(1..MaxTime) /\ dispatched \in Seq(1..MaxTime)
    /\ consec \in Nat
    /\ trip \in {"none", "row", "time"}
    /\ lateCall \in BOOLEAN

Init ==
    /\ inbuf = <<>>
    /\ tail = "whole"
    /\ arrived = FALSE
    /\ reading = FALSE
    /\ open = TRUE
    /\ authed = FALSE
    /\ now = 1
    /\ challengesInARow = 0
    /\ authPacketTime = 0
    /\ authPacketCount = 0
    /\ sent = 0
    /\ counted = <<>>
    /\ dispatched = <<>>
    /\ consec = 0
    /\ trip = "none"
    /\ lateCall = FALSE

-----------------------------------------------------------------------------
(* Appends time t to a history of the last PeriodLimit + 1 times.           *)
Remember(h, t) ==
    IF Len(h) > PeriodLimit THEN Append(Tail(h), t) ELSE Append(h, t)

(* The counting window has lapsed: more than TestPeriod seconds since the   *)
(* last counted packet.                                                     *)
WindowLapsed(t) == authPacketTime = 0 \/ authPacketTime + TestPeriod < t

(* Variant of OverLimit that lets one packet more through.                  *)
OverLimitLate(count) == count > PeriodLimit + 1

(* The packet count that makes the time guard shut the socket.              *)
OverLimit(count) == count > PeriodLimit

(* The number of logon challenges in one read that makes the row guard      *)
(* shut the socket.                                                         *)
RowLimitReached(row) == row = MaxChallengesInARow

(* The dispatch test of the table: a known command whose required status   *)
(* the connection has.                                                      *)
Dispatchable(cmd) ==
    /\ cmd \in DOMAIN Table
    /\ Table[cmd] = "connected" \/ (authed /\ Table[cmd] = "authed")

(* The client writes one packet; the first segment of it may arrive alone.  *)
ClientSend(cmd, part) ==
    /\ open /\ tail = "whole"
    /\ sent < MaxSent /\ Len(inbuf) < MaxBuffered
    /\ part # "whole" => cmd \in Splittable
    /\ part = "long" => cmd \in HeaderFirst
    /\ inbuf' = Append(inbuf, cmd)
    /\ tail' = part
    /\ arrived' = TRUE
    /\ sent' = sent + 1
    /\ UNCHANGED <<reading, open, authed, now, challengesInARow, authPacketTime,
                   authPacketCount, counted, dispatched, consec, trip, lateCall>>

(* The rest of a packet that arrived in part.                               *)
ClientSendRest ==
    /\ open /\ tail # "whole"
    /\ tail' = "whole"
    /\ arrived' = TRUE
    /\ UNCHANGED <<inbuf, reading, open, authed, now, challengesInARow,
                   authPacketTime, authPacketCount, sent, counted, dispatched,
                   consec, trip, lateCall>>

(* A handler called on a packet whose end has not arrived returns false.   *)
(* The challenge handlers, once recv_len() covers the fixed-size struct,   *)
(* read the 4-byte header before finding the body short: the rest of the   *)
(* packet is left at the head of the buffer.  The others read nothing.     *)
PartialRead(cmd) ==
    IF cmd \in HeaderFirst /\ tail = "long"
    THEN <<"Garbage">> \o Tail(inbuf)
    ELSE inbuf

(* The reactor calls OnRead for newly arrived data.                         *)
BeginRead ==
    /\ open /\ ~reading /\ arrived
    /\ reading' = TRUE
    /\ arrived' = FALSE
    /\ challengesInARow' = 0
    /\ UNCHANGED <<inbuf, tail, open, authed, now, authPacketTime, authPacketCount,
                   sent, counted, dispatched, consec, trip, lateCall>>

(* recv_soft finds no command byte: OnRead returns.                         *)
EndRead ==
    /\ reading /\ inbuf = <<>>
    /\ reading' = FALSE
    /\ UNCHANGED <<inbuf, tail, arrived, open, authed, now, challengesInARow,
                   authPacketTime, authPacketCount, sent, counted, dispatched,
                   consec, trip, lateCall>>

(* One iteration of the OnRead loop on the command byte at the head of the *)
(* buffer: the row guard, the time guard, then the table.                  *)
ReadCommand ==
    /\ reading /\ inbuf # <<>>
    /\ LET cmd   == Head(inbuf)
           row   == IF cmd = "LogonChallenge" THEN challengesInARow + 1
                                              ELSE challengesInARow
           count == IF WindowLapsed(now) THEN 1 ELSE authPacketCount + 1
       IN
       /\ counted' = Remember(counted, now)
       /\ consec' = IF cmd = "LogonChallenge" THEN consec + 1 ELSE 0
       /\ IF cmd = "LogonChallenge" /\ RowLimitReached(row)
          THEN \* row guard: shutdown and return
               /\ challengesInARow' = row
               /\ open' = FALSE /\ reading' = FALSE /\ trip' = "row"
               /\ UNCHANGED <<inbuf, authed, authPacketTime, authPacketCount, dispatched, lateCall>>
          ELSE
          /\ challengesInARow' = row
          /\ authPacketTime' = now
          /\ authPacketCount' = count
          /\ IF ~WindowLapsed(now) /\ OverLimit(count)
             THEN \* time guard: shutdown and return
                  /\ open' = FALSE /\ reading' = FALSE /\ trip' = "time"
                  /\ UNCHANGED <<inbuf, authed, dispatched, lateCall>>
             ELSE IF Dispatchable(cmd) /\ Len(inbuf) = 1 /\ tail # "whole"
             THEN /\ dispatched' = Remember(dispatched, now)
                  /\ lateCall' = (lateCall \/ ~open)
                  /\ inbuf' = PartialRead(cmd)
                  /\ reading' = FALSE
                  /\ UNCHANGED <<open, authed, trip>>
             ELSE IF Dispatchable(cmd)
             THEN \E r \in HandlerResults(cmd) :
                    /\ dispatched' = Remember(dispatched, now)
                    /\ lateCall' = (lateCall \/ ~open)
                    /\ inbuf' = IF r.consume THEN Tail(inbuf) ELSE inbuf
                    /\ open' = (open /\ ~r.shut)
                    /\ authed' = (authed \/ r.auth)
                    \* a handler returning false ends OnRead
                    /\ reading' = r.ret
                    /\ UNCHANGED trip
             ELSE \* no handler: unknown packet, shutdown and return
                  /\ open' = FALSE /\ reading' = FALSE
                  /\ UNCHANGED <<inbuf, authed, dispatched, trip, lateCall>>
    /\ UNCHANGED <<tail, arrived, now, sent>>

(* A second passes.                                                         *)
Tick ==
    /\ now < MaxTime
    /\ now' = now + 1
    /\ UNCHANGED <<inbuf, tail, arrived, reading, open, authed, challengesInARow,
                   authPacketTime, authPacketCount, sent, counted, dispatched,
                   consec, trip, lateCall>>

Next ==
    \/ \E cmd \in Cmds, part \in Parts : ClientSend(cmd, part)
    \/ ClientSendRest
    \/ BeginRead
    \/ EndRead
    \/ ReadCommand
    \/ Tick

Spec == Init /\ [][Next]_vars

-----------------------------------------------------------------------------
(* Properties.                                                              *)

(* The time guard bounds the rate of handler calls: no PeriodLimit + 1     *)
(* handler calls ever fall within TestPeriod seconds, whatever mix of      *)
(* commands, read events and handler results led to them (handlers that    *)
(* return false leave their packet to be counted again).                   *)
DispatchRateBounded ==
    Len(dispatched) = PeriodLimit + 1 =>
        Last(dispatched) - Head(dispatched) > TestPeriod

(* Spec 4.5 / 8: the time guard is a sliding count of the commands of one *)
(* TestPeriod-second window; it trips only when more than PeriodLimit      *)
(* commands fall within one window ("spacing the same 11 commands across   *)
(* 31 seconds does not" trip it).  Checked on the last PeriodLimit + 1     *)
(* commands counted when the socket was shut by the time guard.            *)
TimeTripNeedsBurst ==
    trip = "time" =>
        /\ Len(counted) = PeriodLimit + 1
        /\ Last(counted) - Head(counted) <= TestPeriod

(* Spec 4.5 / 8: the row guard counts logon challenges "received without   *)
(* an intervening different command": sending it twice "then a different   *)
(* valid command does not trip it".  The row guard of OnRead must only     *)
(* shut the socket after MaxChallengesInARow consecutive challenges.       *)
RowTripNeedsConsecutive ==
    trip = "row" => consec >= MaxChallengesInARow

(* Spec 4.5 / 8: "sending the logon-challenge command 3 times              *)
(* consecutively with no other command in between trips the limit on the   *)
(* 3rd", whether or not the challenges arrive in one read of OnRead.        *)
ConsecutiveChallengesTrip ==
    consec >= MaxChallengesInARow => ~open

(* Spec 4.3 (dispatch contract): a handler that finds too few bytes        *)
(* buffered returns "not yet" without consuming any, and the next read     *)
(* retries; a split packet is not an error.  So the buffer always starts   *)
(* at a packet boundary: OnRead never takes a byte of a packet's body for  *)
(* a command byte.                                                         *)
BufferAtPacketBoundary == \A i \in 1..Len(inbuf) : inbuf[i] # "Garbage"

(* Spec 5: a connection is torn down at once when a handler signals       *)
(* termination.  A handler that shuts the socket and returns true leaves   *)
(* OnRead looping; the table must call no further handler for the shut     *)
(* connection, whatever else the client has buffered.                      *)
TornDownAtOnce == ~lateCall

(* Spec 4.5: each flood guard of OnRead shuts the connection exactly in    *)
(* the cases the spec gives: the time guard on a burst within one window,  *)
(* the row guard on MaxChallengesInARow consecutive logon challenges, in   *)
(* one read or across reads.                                                *)
FloodGuardsPerSpec ==
    /\ TimeTripNeedsBurst
    /\ RowTripNeedsConsecutive
    /\ ConsecutiveChallengesTrip

(* Spec 4.3, 4.5 and 5 on OnRead: the flood guards shut the connection in  *)
(* the cases the spec gives, split packets wait for their rest, and a      *)
(* connection a handler terminates is handled no further.                   *)
OnReadPerSpec ==
    /\ FloodGuardsPerSpec
    /\ BufferAtPacketBoundary
    /\ TornDownAtOnce

=============================================================================
