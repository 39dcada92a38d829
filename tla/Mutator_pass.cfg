CONSTANTS
  none = none
  Empty <- none
  Inputs <- MCInputs
  Configs <- MCConfigs
  MaxOut <- MCMaxOut
SPECIFICATION Spec
INVARIANT InputRelayed ReplayInOrder
CHECK_DEADLOCK FALSE
