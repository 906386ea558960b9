CONSTANTS
  p1 = p1  p2 = p2
  d1 = d1  d2 = d2
  u1 = u1  u2 = u2  u3 = u3
  c1 = c1  c2 = c2
  NoUpload = NoUpload
  NoCommit = NoCommit
  Publishers = {p1, p2}
  Digests = {d1, d2}
  Admitted = {u1, u2, u3}
  Size <- MCSize
  Intent <- MCIntent
  Uploads = {u1, u2, u3}
  Policy <- LedgerPolicy
  MaxU64 = 3
  Commits = {c1}
  Sent = {TRUE}
  MaxAge = 0
  MaxCrashes = 1
  IoFailures = FALSE
  Disconnects = FALSE
SPECIFICATION Spec
INVARIANT Reserved
INVARIANT PendingWithinPolicy
INVARIANT PublisherBytesWithinPolicy
INVARIANT ReceiptWrittenOnce
PROPERTY ImplementsLedger
