\* From the arguments to the exit status.
CONSTANTS
  Rules = {"QD000", "QD001", "QD002"}
  Unknown = "QD999"
  Units = {"a", "b"}
  Paths = {"units"}
  Inputs <- MCInputs
SPECIFICATION Spec
INVARIANTS TypeOK FlagsCountAnywhere SwitchedOffIsSilent HiddenIsExplained StatusIsEarned
\* A lint ends.
CHECK_DEADLOCK FALSE
