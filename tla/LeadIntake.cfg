SPECIFICATION LeadSpec
CONSTANTS
  Schedulers = {s1, s2}
  MaxRecords = 3
  Batch = 2
  Windows = 2
INVARIANTS LeadTypeOK CursorCoversLeads OneReadPerWindow ReportIsWhole
PROPERTY BufferedRecordsRead
CHECK_DEADLOCK FALSE
