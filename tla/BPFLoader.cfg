\* One collector thread, two CPUs: conservation, order, refinement, delivery.
SPECIFICATION FairSpec
CONSTANTS
  CPUs = {c1, c2}
  Pollers = {p1}
  Capacity = 2
  MaxEvents = 3
INVARIANTS TypeOK AtMostOnce Accounted LostForGood PerCpuOrder
PROPERTIES ImplementsSource EventuallyReturned
