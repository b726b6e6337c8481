SPECIFICATION Spec
CONSTANTS
  XLEN = 6
  ILEN = 5
  IRegs <- MCIRegs
  FRegs <- MCFRegs
  ParamRegs <- MCParamRegs
  CTX_BASE = 32
  SHARED_BASE = 48
  Params <- MCParams
  ParamValues <- MCParamValues
  FloatRegs = {"f1", "f2", "f3"}
  Headers <- MCHeaders
  Statements <- MCStatements
  GlobalCells = {0, 1, 2, 3}
  SharedCells = {0, 1, 2, 3}
CHECK_DEADLOCK FALSE
INVARIANTS
  FrontEndInv
  ComputesThePtx
  SameEffects
