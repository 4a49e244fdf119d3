CONSTANTS
  Launches = {l1, l2}
  Pages = {p1, p2}
  Slots = {r1, r2}
  Ttl = 1
  None = None
SPECIFICATION Spec
INVARIANTS
  OneSessionPerLaunch
  MutationsNeedTheExchange
  ReadyPageStaysLetIn
  FragmentIsGone
PROPERTIES
  ExchangeEnds
