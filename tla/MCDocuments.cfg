\* Three overlapping requests, on one file and its access list or on one envelope and its
\* notes, in each backend.
SPECIFICATION MCSpec
CONSTANTS
  Request = {r1, r2, r3}
  File = {f1}
  Account = {a1, a2}
  NoOwner = NoOwner
  VersionCap = 1
  Signer = {s1, s2}
  Event = {e1}
  Token = {t1}
INVARIANT DocumentsTypeOK
INVARIANT RecentHistoryKept
INVARIANT NothingOutlivesFile
INVARIANT ChecksExplained
PROPERTY SnapshotBeforeOverwrite
PROPERTY SignersKept
PROPERTY AuditOnlyGrows
PROPERTY DeletedComesBackOnlyByOverlap
CHECK_DEADLOCK FALSE
