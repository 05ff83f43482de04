CONSTANTS
  ByteBits = 4
  Base = 3
  AddressSpan = 4096
  SBit = 32
  MaskUnit = 64
  MaxLevel = 3
  InitialMemory <- VectorTable
  Workloads <- MCWorkloads
SPECIFICATION Spec
INVARIANT ArithmeticExact
INVARIANT ShiftsExact
INVARIANT DecimalExact
INVARIANT InterruptPriority
PROPERTY ExceptionsReturn
PROPERTY PrivilegeKept
CHECK_DEADLOCK FALSE
