SPECIFICATION CrewSpec
CHECK_DEADLOCK FALSE
CONSTANTS
  Tabs = {1}
  Crews = {s}
  Cycles = {c}
  Currencies = {usd, eur}
  Salary = 2
  Rates = {1}
  Accounts = {0, 1}
  Banked = {s}
  MaxFiles <- MCFiles
  MaxEdits = 2
  MaxVersions <- MCVersions
  MaxRows <- MCRows
PROPERTY ReplacementCoversWhatWasSettled
