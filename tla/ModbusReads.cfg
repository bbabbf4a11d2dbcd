\* Two requests compete for one thread, a third is invalid.
SPECIFICATION Spec
CONSTANTS
  Requests <- MCRequests
  Body <- MCBody
  Threads = 1
  MAX_REGS_PER_OPERATION = 2
  MAX_OPERATIONS_PER_REQUEST = 3
  M <- MCM
  Answers <- MCAnswers
  FloatOf <- MCFloatOf
  MaxFloat <- MCMaxFloat
  None = None
  NaN = NaN
INVARIANTS TypeOK AnswersComplete DecodedAsDeclared
PROPERTY EveryRequestAnswered
\* The system stops when every request is answered.
CHECK_DEADLOCK FALSE
