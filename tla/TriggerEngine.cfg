\* The whole engine: two emissions, one of them inside a run that may be
\* cancelled, three triggers, a wait node with a timeout, one reload. Calls are
\* made once, so the system may stop.
SPECIFICATION Spec
CONSTANTS
  startup = startup
  e1 = e1
  e2 = e2
  a = a
  b = b
  daily = daily
  once = once
  closing = closing
  approval = approval
  Run = Run
  Event = {startup, a, b}
  Broadcast = {startup}
  Trigger = {daily, once, closing}
  Listing <- Listed
  WaitFor <- Expressions
  Target <- Targets
  OneShot = {once}
  Emission = {e1, e2}
  Breakable = {e1}
  Calls <- Offered
  Waiter = {approval}
  Consuming = {approval}
  Timed = {approval}
  MaxGen = 2
INVARIANTS NoLostWakeup NoLostFire
PROPERTIES WokenLeaves
CHECK_DEADLOCK FALSE
