\* Two clients come, go, start and stop, two starts may fail, at two rates of
\* which one period is no whole number of ticks.
SPECIFICATION Spec
CONSTANTS
  Clients = {c1, c2}
  Rates = {2, 3}
  Period = 2
  HostFrequency = 4
  MaxSilence = 2
  MaxTime = 9
INVARIANTS IInv HandlerAlternates RunningIsNotified IOIsServed StampIsOfThePresent
PROPERTIES StampsAdvance
