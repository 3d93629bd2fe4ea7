\* Domains are added and removed between the sessions.
CONSTANTS
  d1 = d1
  d2 = d2
  d3 = d3
  Names = {d1, d2, d3}
  Default = Default
  ActiveSets <- Varying
  Contents = {1, 2}
SPECIFICATION Spec
INVARIANTS ActiveTickOnUsable AllOrNothing TimersRun
PROPERTY RegisteredStay
