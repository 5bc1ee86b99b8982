SPECIFICATION Spec
CONSTANTS
  MaxDiscoveries = 2
  MaxProbes = 1
  MaxEvents = 1
  Bindings = {b1, b2}
  NoBinding = NoBinding
INVARIANTS
  ReadyBindingWasProbed
CHECK_DEADLOCK FALSE
