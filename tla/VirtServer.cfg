SPECIFICATION FairSpec
CONSTANTS
  Backend <- MCBackend
  Hooks <- MCHooks
  Caps <- MCCaps
  Initial <- MCInitial
  HostShared <- MCHostShared
  Path = {p1, p2}
  NoPath = NoPath
  p1 = p1
  p2 = p2
INVARIANTS KnownWhenIdle  GlobalsAgree
PROPERTIES RebootSettles KeepsProtocol
