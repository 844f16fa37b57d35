SPECIFICATION Spec
CONSTANTS
  Tasks = {t1, t2, t3, t4}
  NULL = NULL
  JUNK = JUNK
  HeadFreed = FALSE
INVARIANTS TypeOK ForwardChain BackwardChain CurrentExists
