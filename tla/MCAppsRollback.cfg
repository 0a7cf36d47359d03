SPECIFICATION Spec
CONSTANTS
  Calls = {1}
  Builds = {"b", "c"}
  Failing = {"copy", "point"}
  MaxId = 3
CHECK_DEADLOCK FALSE
PROPERTY
  DeployCreates
