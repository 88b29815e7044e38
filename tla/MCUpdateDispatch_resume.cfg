\* Up to three calls of two processes, for the promise that a resume interrupts no active run.
CONSTANTS
  call1 = call1
  call2 = call2
  result = result
  Dispatchers = {call1, call2}
  Params = {"first"}
  Papers = {result}
  Result = result
  Cites <- NoCites
  Void = Void
  MaxAsked = 3
SPECIFICATION DispatchSpec
SYMMETRY CallSymmetry
PROPERTY ActiveRunsUninterrupted
CHECK_DEADLOCK FALSE
