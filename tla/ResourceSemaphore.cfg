\* Four iterations and one dispatcher slot over two permits, up to two cancels.
\* Iterations are one-shot tasks and a leaked permit blocks the slot for good,
\* so the system may stop.
SPECIFICATION Spec
CONSTANTS
  Client = {c1, c2, c3, c4}
  Scheduler = {s1}
  Permits = 2
  MaxCancels = 2
INVARIANTS NeverOvercommitted ConservedWithoutCancel NoIdlePermit
PROPERTIES PoolContract WaiterServed
CHECK_DEADLOCK FALSE
