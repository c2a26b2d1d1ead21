SPECIFICATION Spec
CONSTANTS
  WordBits = 4
  RegisterCount = 3
  FloatAdd <- MCFloatAdd
  GuestProgram <- MCGuestProgram
  IrProgram <- MCIrProgram
  GuestState <- MCGuestState
INVARIANTS
  NativeAgreesWithExecutor
  LoweredProgramsAreAccepted
  OnlyDestinationsChange
CHECK_DEADLOCK FALSE
