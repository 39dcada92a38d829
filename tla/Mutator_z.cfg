CONSTANTS
  none = none
  Empty <- none
  Inputs <- MCInputs
  Configs <- MCConfigsZ
  MaxOut <- MCMaxOut
SPECIFICATION Spec
INVARIANT HeaderMutationFaithful
CHECK_DEADLOCK FALSE
