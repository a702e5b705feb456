CONSTANTS
  c1 = c1
  c2 = c2
  c3 = c3
  here = here
  there = there
  Conns = {c1, c2, c3}
  Procs = {here, there}
  ProcOf <- MCProcOf
SPECIFICATION Spec
INVARIANTS TypeOK Covered
PROPERTIES Refinement WriterGetsIn
