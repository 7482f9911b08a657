SPECIFICATION Spec
CONSTANTS
  NULL = NULL
  Users = {"u1", "u2"}
  Chats = {"c1"}
  Imeis = {"i1", "i2"}
  Kinds = {"sessions", "km"}
  Remembered = {"sessions"}
  Inputs <- MCInputs
  Bindings <- MCBindings
  Devices = {"i1"}
  MaxUpdates = 3
  MaxFaults = 1
  MaxChanges = 1
CHECK_DEADLOCK FALSE
INVARIANTS
  TypeOK
  NothingSkipped
  OneDialogPerSlot
PROPERTIES
  BindingIsForLife
  SilenceExplained
  UpdatesAreHandled
