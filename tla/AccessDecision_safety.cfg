SPECIFICATION Spec
CONSTANTS
  Configs <- Everything
  Versions <- SomeConfigs
  Lookups <- MCLookups
  requestUrl <- MCUrl
  now <- MCNow
  GroupOf <- MCGroupOf
  uncategorizedGroupId = "none"
  PrivateIp = "private"
  MaxChanges = 2
INVARIANTS
  DecidesVerdict
  BlockNamesItsReason
  RestrictionHasSource
