------------------------------- MODULE MC_GsAI -------------------------------
(* Model-checking instance of GsAI: a creature with a combat script and an *)
(* out-of-combat script.                                                    *)
(*   combat (8 commands): LOCK; WAIT 2; IF ... (to 4); WALK; ENDIF;          *)
(*                        WAITFOR movement; COMBATSTOP; UNLOCK              *)
(*   with RandomCast, a CAST at a random target before COMBATSTOP (9).      *)
(*   out of combat (5):   LABEL; WALK; WAITFOR movement; WAIT 1; GOTO 0     *)
EXTENDS GsAI

CONSTANTS sc, so, noId, null, RandomCast

Cmd(k) == [kind |-> k]

MC_Scripts ==
    [id \in {sc, so} |->
        IF id = sc
        THEN << Cmd("lock"), [kind |-> "wait", delay |-> 2],
                [kind |-> "if", endif |-> 4], Cmd("walk"), Cmd("nop"),
                Cmd("waitfor") >>
             \o (IF RandomCast THEN << Cmd("random") >> ELSE << >>)
             \o << Cmd("combatstop"), Cmd("unlock") >>
        ELSE << Cmd("nop"), Cmd("walk"), Cmd("waitfor"),
                [kind |-> "wait", delay |-> 1], [kind |-> "goto", offset |-> 0] >>]
=============================================================================
