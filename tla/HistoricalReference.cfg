\* Two importers, one reader, while the index refreshes its months.
CONSTANTS
  Payloads <- MCPayloads
  Months <- MCMonths
  Histories <- MCHistories
  Importers = {i1, i2}
  MaxImports = 3
  MaxKills = 1
  MaxRefreshes = 1
SPECIFICATION Spec
INVARIANTS
  ImportAnswered
  BacktestExplained
  ExportAgrees
CHECK_DEADLOCK FALSE
