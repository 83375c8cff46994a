SPECIFICATION FairSpec
CONSTANT Threads = {t1, t2, t3}
INVARIANT NoLostWakeup
PROPERTIES
  Refines
  AllAreServed
