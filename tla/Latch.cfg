SPECIFICATION FairSpec
CONSTANTS
  Workers = {w1, w2, w3}
  Trippers = {t1, t2}
INVARIANTS RendezvousNotLost FiresOnceAfterTrip
PROPERTY TrippedEventuallyFires
CHECK_DEADLOCK FALSE
