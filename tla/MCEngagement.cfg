SPECIFICATION Spec
CONSTANTS
  Searched = {m1, m2}
  Message = {m1}
  Text = {t1, t2}
  Body = {t1, t2}
  Query = {q1, q2}
  Says <- MCSays
  Matched <- MCMatched
  t1 = t1
  t2 = t2
  q1 = q1
  q2 = q2
  User = {u1}
  Status = {away, busy}
INVARIANT TypeOK
INVARIANT AnsweredIsKept
INVARIANT SearchExplained
