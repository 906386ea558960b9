CONSTANTS
  o1 = o1  o2 = o2
  s1 = s1  s2 = s2  s3 = s3
  r1 = r1  r2 = r2
  NoStatement = NoStatement
  Publications = {o1, o2}
  Statements = {s1, s2, s3}
  Subject <- MCSubject
  Requests = {r1, r2}
  Readers = {k1}
  MaxCrashes = 0
SPECIFICATION Spec
INVARIANT FirstStatementWins
