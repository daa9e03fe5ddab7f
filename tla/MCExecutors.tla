----------------------------- MODULE MCExecutors -----------------------------
EXTENDS Executors
=============================================================================
