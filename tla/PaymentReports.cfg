CONSTANTS
    None = None
    Sent = {1, 2}
    Received = {1}
    Period <- MCPeriod
    Limit = 1
    Skew = 0
    MaxTime = 1
SPECIFICATION Spec
INVARIANTS TypeOK PageIsCutOfWhole PagingMissesOnlyForNews ReportAddsUp ConfirmationsAddUp PeriodsMeet
