\* Two users of one target: the dial of one fails and takes the connection the
\* other one holds.
SPECIFICATION Spec
CONSTANTS
  Conns = {c1}  Targets = {t1}  NoConn = NoConn  NoTarget = NoTarget
  Users = {u1, u2}  Janitors = {j1}  Closers = {}
PROPERTY ClosedOnlyWhenUnused
CHECK_DEADLOCK FALSE
