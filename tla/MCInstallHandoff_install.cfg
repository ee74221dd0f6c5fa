\* Two terminals, two faults, two edits of the folder.
SPECIFICATION Spec
CONSTANTS
  t1 = t1  t2 = t2
  v1 = v1  v2 = v2
  Terminals = {t1, t2}
  Installer = t1
  Choices <- MCChoices
  Payload <- MCPayload
  MaxFaults = 2
  MaxEdits = 2
  None = None
INVARIANT NeverStranded
PROPERTIES NoLostUpdate OutcomeIsTrue EditsSurvive
CHECK_DEADLOCK FALSE
