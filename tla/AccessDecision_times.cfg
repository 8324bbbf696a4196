SPECIFICATION Spec
CONSTANTS
  Configs <- SomeConfigs
  Versions <- NoVersions
  Lookups <- MCLookups
  requestUrl <- MCUrl
  now <- MCNow
  GroupOf <- MCGroupOf
  uncategorizedGroupId = "none"
  PrivateIp = "private"
  MaxChanges = 0
INVARIANTS
  LoggedWithTimes
