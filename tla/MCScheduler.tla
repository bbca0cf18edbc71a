---------------------------- MODULE MCScheduler ----------------------------
EXTENDS Scheduler

Rates == <<2, 3, 7>>
=============================================================================
