\* Two changes and one failure: a lost event, a list or a sync that fails. The second
\* Service makes the loss of one Service's backends less than half.
CONSTANTS
  s1 = s1  s2 = s2  p1 = p1  p2 = p2  b1 = b1
  Services = {s1, s2}
  Ports = {p1, p2}
  Backends = {b1}
  Specs <- SmallSpecs
  Static <- SmallStatic
  Stripe <- SmallStripe
  Initial <- SmallInitial
  Changing = {s1}
  NoObj = NoObj  NoSet = NoSet
  MaxChanges = 2
  MaxFaults = 1
SPECIFICATION WatchSpec
INVARIANT ServedCurrent
PROPERTY Heals
