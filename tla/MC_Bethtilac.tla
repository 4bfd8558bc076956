---------------------------- MODULE MC_Bethtilac ----------------------------
EXTENDS Bethtilac

\* 82 decay steps shrunk to 2; SD_ENABLE (10 s) and END_OF_PHASE_1 (cast
\* time + 0.2 s) keep their order: the end comes before the re-enable.
MC_PowerSteps == 2
MC_SdEnableTime == 3
MC_EndDelay == 2
=============================================================================
