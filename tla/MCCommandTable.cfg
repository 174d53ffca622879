\* two registrations of one name, a seal, a Call, a dispatched packet and their nested Calls, two hPool workers, a Stop
CONSTANTS
  Names = {"a"}
  Regs <- TwoRegs
  Requests <- FourRequests
  Types = {TInt, TPtr}
  TInt = TInt
  TPtr = TPtr
  TIface = TIface
  Nilable = {TPtr, TIface}
  Interfaces = {TIface}
  Untyped = Untyped
  Nil = Nil
  Error = Error
  Panic = Panic
  None = None
  Width = 2
SPECIFICATION FairSpec
INVARIANTS TypeOK GateIsExact SealBoundsTable
PROPERTY CallReturns
CHECK_DEADLOCK FALSE
