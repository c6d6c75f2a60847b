SPECIFICATION FairSpec
CONSTANTS
  p1 = p1
  p2 = p2
  p3 = p3
  Producers <- MCProducers2
  Consumer = Consumer
  Nobody = Nobody
  Free = Free
  Queued = Queued
  Count = 3
  MaxEnqueues = 5
PROPERTIES DequeueNeverNull ImplementsOwnership PendingIsServed
