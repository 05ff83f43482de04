SPECIFICATION Spec
CONSTANTS
  Base = 2
  Top = 4
  IplAddr = 1
INVARIANT PinsExclusive
PROPERTY CycleUndisturbed
PROPERTY AtomicAccess
PROPERTY EveryCallReturns
