--------------------------- MODULE MCScheduleExec ---------------------------
EXTENDS ScheduleExec
=============================================================================
