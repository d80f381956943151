-------------------------- MODULE MCIntervalTimer --------------------------
EXTENDS IntervalTimer
=============================================================================
