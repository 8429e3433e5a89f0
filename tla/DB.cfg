\* T with a destructor; three values of index beyond the first: every getter
\* can be overtaken by a whole Set and the next one, and the index wraps.
\* Setters may stop anywhere for ever; getters come and go without end.
SPECIFICATION FairSpec
CONSTANTS
  Readers = {r1, r2}
  Writers = {w1, w2}
  NoWriter = NoWriter
  Values = {v1, v2}
  NoValue = NoValue
  MaxIndex = 3
  NonTrivial = TRUE
INVARIANTS IInv NoDataRace HeldValueIsStable OldValueIsGone
PROPERTIES ImplementsRegister GetterIsLockFree SetTerminates
