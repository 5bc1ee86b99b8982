SPECIFICATION Spec
CONSTANTS
  MaxDiscoveries = 3
  MaxProbes = 2
  MaxEvents = 1
  Bindings = {b1, b2}
  NoBinding = NoBinding
INVARIANTS
  TypeOK
  AliasesOfOneApproval
  OneAliasSetPerRun
  BindingIsLatestDiscovery
  OneApprovedRule
PROPERTIES
  EndedRunsAreFinal
SYMMETRY BindingSymmetry
CHECK_DEADLOCK FALSE
