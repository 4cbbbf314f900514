CONSTANTS
  a1 = a1  a2 = a2
  Accounts = {a1}
  MaxSignIns = 3
SPECIFICATION Spec
CHECK_DEADLOCK FALSE
INVARIANTS OutcomeSaysConnected
PROPERTIES OutcomeIsFinal SignInsEnd
