\* i64 scaled down to 12 bits: every price of the type, six ad credits.
CONSTANTS
  Limit = 2048
  AdCredits = {1, 3, 33, 34, 1000, 2047}
SPECIFICATION Spec
INVARIANTS
  TypeOK
  SharesAreExact
  StoredIsBalanced
\* An instruction is built once: there is nothing to do after the boost.
CHECK_DEADLOCK FALSE
