SPECIFICATION SelectionSpec
CONSTANTS
  Label <- MCLabel
  Char <- MCChar
  Profiles <- MCProfiles
  RequestUrls <- MCUrls
CHECK_DEADLOCK FALSE
INVARIANTS
  BestIsMostSpecific
  OnlyComparableCompared
