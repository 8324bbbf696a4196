SPECIFICATION Spec
CONSTANTS
  t1 = t1
  t2 = t2
  a1 = a1
  a2 = a2
  Threads <- TwoThreads
  Addresses <- TwoAddresses
  defaultSettings <- Default
  CustomSettingsMaps <- Files
  invalidCredentialsPenalty = 2
  MaxCount = 6
SYMMETRY Symmetry
INVARIANTS
  AdmittedWithinLimit
  GuessesWithinLimit
