--------------------------- MODULE MC_AuthOnRead ----------------------------
(* Model-checking instance of AuthOnRead.  The guard constants are scaled  *)
(* down (the code's 30 s / 10 packets become 2 s / 2 packets) so that a   *)
(* burst, a lapse and a chain of packets fit in a few seconds; the row     *)
(* guard keeps its value 3.                                                 *)
EXTENDS AuthOnRead

MC_AllCmds == {"LogonChallenge", "LogonProof", "ReconnectChallenge",
               "ReconnectProof", "RealmList", "XferAccept", "XferResume",
               "XferCancel", "Unknown"}
=============================================================================
