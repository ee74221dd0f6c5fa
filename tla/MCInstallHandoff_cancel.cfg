\* Two terminals, one fault.
SPECIFICATION Spec
CONSTANTS
  t1 = t1  t2 = t2
  v1 = v1  v2 = v2
  Terminals = {t1, t2}
  Installer = t1
  Choices <- MCChoices
  Payload <- MCPayload
  MaxFaults = 1
  MaxEdits = 0
  None = None
PROPERTY CancelledSavesNothing
CHECK_DEADLOCK FALSE
