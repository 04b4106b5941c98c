\* Every type after every degree of exhaustion of registers and stack, in both directions.
SPECIFICATION Spec
CONSTANTS
  Types <- AllTypes
  Signatures <- AllSignatures
  Systems <- AllSystems
INVARIANTS TypeOK ArgsArrive AcceptedCallFits ResultArrives CallbackSeesArgs
CHECK_DEADLOCK FALSE
