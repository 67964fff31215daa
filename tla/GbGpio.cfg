SPECIFICATION Spec
CONSTANTS
  LineMax = 0
  EventLines <- MCEventLines
  IrqTypes <- MCIrqTypes
  UnsupportedTypes <- MCUnsupported
  ConsumerOutcomes <- MCAll
  IrqOutcomes <- MCOk
  Debounces <- MCDebounces
  EventsDuringFlush = FALSE
INVARIANT TypeOK
INVARIANT IrqStateSynced
PROPERTY MaskReachesModule
