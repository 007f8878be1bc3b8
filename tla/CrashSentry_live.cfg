SPECIFICATION Spec
CONSTANTS
  App = {a, b}
  Absent = Absent
  Configurations <- SomeConfigurations
  MaxFaults = 2
INVARIANTS TypeOK OneCrashPerReport ReportLeft
PROPERTY Terminates
