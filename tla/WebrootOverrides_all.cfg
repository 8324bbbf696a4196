SPECIFICATION MCSpec
CONSTANTS
  MaxVersion = 3
  MaxReloads = 1
  MaxActivity = 2
  Operators = {op1, op2}
  site = site
  slash = slash
  odd = odd
  page = page
  Urls <- MCUrls
  Lookups <- MCLookups
  Lcps = {site, page}
  LcpsOf <- MCLcpsOf
  Categories = {c1, c2}
  NoRow = noRow
INVARIANTS
  ReloadNotLost
PROPERTIES
  OverridesCatchUp
  ServerStartsAndStops
  AddOverwritesNothing
  LastingOverridesApplied
