----------------------------- MODULE MCScheduler -----------------------------
\* Bounded instances of the scheduler.  The order of registrations matters to
\* the queue, so buses are numbers and no symmetry is used.
EXTENDS Scheduler
=============================================================================
