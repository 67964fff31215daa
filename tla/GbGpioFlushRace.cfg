SPECIFICATION Spec
CONSTANTS
  LineMax = 0
  EventLines <- MCEventLines
  IrqTypes <- MCIrqTypes
  UnsupportedTypes <- MCUnsupported
  ConsumerOutcomes <- MCAnswered
  IrqOutcomes <- MCOk
  Debounces <- MCDebounces
  EventsDuringFlush = TRUE
INVARIANT IrqStateSynced
