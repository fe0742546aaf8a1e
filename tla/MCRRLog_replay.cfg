\* Record and replay of one guest run with monitor requests at any time.
CONSTANTS
  Prog <- MCProg
  End = 5
  EipAt <- MCEipAt
  EcxAt <- MCEcxAt
  MaxTB = 2
  Values <- MCValues
  IrqVals <- MCIrqVals
  CountBits = 4
  HltEipAt <- MCHltEipAt
  Stale = Stale
SPECIFICATION Spec
INVARIANT TypeOK
PROPERTY ImplementsAbstract
PROPERTY ReplayEnds
