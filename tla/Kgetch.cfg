SPECIFICATION BootFairSpec
CONSTANTS
  KeysTyped = {16, 29, 30, 42}
  MaxEvents = 5
  Hoists = FALSE
  FirmwareMasks <- MCFirmwareMasks
  Pages <- MCPages
  TssAddress <- MCTssAddress
  KernelStack = 1130496
  Stub <- MCStub
INVARIANTS TypeOK IrqsMatchCodes ModifiersTrackKeys TablesValid OnlyKnownSources
PROPERTIES ReturnsKeyOfThisCall AcceptedKeyEndsCall CodesAreRead MappingStays
CHECK_DEADLOCK FALSE
