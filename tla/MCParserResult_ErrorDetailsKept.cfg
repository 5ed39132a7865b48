SPECIFICATION Spec
CONSTANTS
  Results = {r1, r2}
  Stmts = {s1, s2, s3}
  Msgs = {m1, m2}
  NoMsg = NoMsg
  MaxBatch = 2
  MaxParams = 1
INVARIANT ErrorDetailsKept
\* Undefined behaviour ends the program.
CHECK_DEADLOCK FALSE
