\* Two concurrent requests on the SQL persisters.
SPECIFICATION Spec
CONSTANTS
  Request = {r1, r2}
  Clock = {1, 2, 3}
  Unread = 0
  Persisters = {"sql"}
PROPERTY CursorOnlyAdvances
\* Every request is answered once: the system stops.
CHECK_DEADLOCK FALSE
