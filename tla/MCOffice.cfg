SPECIFICATION OfficeSpec
CHECK_DEADLOCK FALSE
SYMMETRY OfficeSymmetry
CONSTANTS
  u1 = u1
  u2 = u2
  c1 = c1
  c2 = c2
  Nothing = Nothing
  None = Nothing
  Users = {u1, u2}
  Invoices = {1}
  InvoiceTotal <- MCTotal
  Number <- MCNumber
  Payments <- MCPayments
  ApprovedRates = {1, 2}
  Hires = {}
  ReleasePeriods = {}
  MaxEntries = 4
  Tabs = {u1, u2}
  Crews = {"s"}
  Cycles = {c1, c2}
  Currencies = {"usd", "eur"}
  Salary = 2
  Rates = {2}
  Accounts = {0, 1}
  Banked = {"s"}
  MaxFiles <- MCMaxFiles
  MaxEdits = 1
  MaxVersions <- MCMaxVersions
  MaxRows <- MCMaxRows
  Clients = {0}
  Archive = {1, 2, 3}
  Manifest <- MCManifest
  Basis <- MCBasis
  Edits <- MCEdits
  Transfers <- MCTransfers
  Opened <- MCOpened
  Team = {u1, u2}
  Packages <- MCPackages
  Hidden = {7}
  Entries <- MCEntered
  Monthly = {"salary"}
  Acceptable <- MCAcceptable
  MaxWrites = 4
  Absent = Nothing
  Readers = {u1, u2}
  Workbooks <- MCWorkbooks
  MonthlyLabels = {"vessel", "line", "month", "net", "trucks"}
  VoyageLabels = {"vessel", "line", "ref", "date", "month", "net", "trucks"}
  CacheTime = 2
  Timeout = 1
  ImportLimit = 1
  LastTick = 5
  MaxSheets = 2
  Nil = Nothing
  Voyages <- MCVoyages
  Duba <- MCDuba
  Jeddah <- MCJeddah
  Viewers = {u1, u2}
  CopyTime = 1
  LoadTime = 1
  LastHour = 3
  MaxTables = 2
  Untyped = Nothing
  Admins = {u1, u2}
  Files <- MCFiles
  ByHand <- MCByHand
  RuleBooks <- MCRules
  MaxCosts = 5
  MaxJobs = 5
  Unset = Nothing
  Chart <- MCChart
  Bookings <- MCBookings
  Spans <- MCAsked
  Nobody = Nothing
  RowCap = 3
  Closable = {"ap"}
  Reporters = {0}
  MaxBook = 3
  Seeders = {u1, u2}
  Payloads <- MCPayloads
  EnteredLines <- MCLines
  CardDays = {1, 2, 3}
  NoValue = Nothing
  MaxFund = 4
INVARIANTS
  OneEntryPerDocument
  SettlementsFollowAccruals
  ReportsAddUp
  FundAddsUp
  ServiceIsPaidOnce
  ShownAsWhatItIs
  VoyagesAreAsTyped
PROPERTIES
  PostingChecksSetup
  NothingGoesOutAgainUndecided
  RowsAreOfTheStandingApproval
  LegacySettlementsStand
  TeamInputsStand
  CostsStandOnce
