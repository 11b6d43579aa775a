\* Files whose groups share IDs or are empty, without options; every kind of
\* check under every combination of --group, --check, --skip, --scored and
\* --unscored.
CONSTANTS
  Files <- MCFiles
  Options <- AllOptions
  Skips <- AllSkips
SPECIFICATION MCSpec
INVARIANTS
  TypeOK
  SummaryCounts
  GroupCounts
  ReportInFileOrder
  ReportComplete
  SkipMeansInfo
  OutputsAgree
