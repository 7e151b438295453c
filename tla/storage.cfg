SPECIFICATION Spec
CONSTANTS
  Files = {chain, state}
  Values = {v1, v2}
  Absent = Absent
  Partial = Partial
  MaxFaults = 2
  MaxCrashes = 2
INVARIANTS
  CrashInv CommittedIsReadable FailedWriteHarmless NoStaleRead DataSurvives
PROPERTY
  RefinesAtomicFiles
