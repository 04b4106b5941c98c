\* Go calls C and C calls Go, with every kind of argument at every degree of register exhaustion.
SPECIFICATION Spec
CONSTANTS
  Types <- AllTypes
  Signatures <- AllSignatures
  MaxStackSlots = 9
INVARIANTS TypeOK ArgsArrive AcceptanceIsExact ResultArrives CallbackSeesArgs SelfCallAgrees
CHECK_DEADLOCK FALSE
