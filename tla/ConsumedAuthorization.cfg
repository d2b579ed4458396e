SPECIFICATION Spec
CONSTANTS
  V4Bits = 2
  V6Bits = 3
  MaxTtl = 2
  DefaultTtl = 1
  UserLists <- MCUserLists
  HeaderTexts <- MCHeaderTexts
  IpLists <- MCIpLists
  TraceIds = {1, 2}
  Chains <- MCChains
  OtherCodes = {"none", "FST_ERR_CTP_BODY_TOO_LARGE"}
  Statuses = {200, 400, 413, 429, 500, 502, 503, 504}
  Amounts = {0, 1, 2, 3}
  Words = {"", "console", "file", "syslog"}
  Origins = {"a", "evil"}
  Methods = {"GET", "M-SEARCH", "get"}
  Routes = {"undefined", "/api/users/*"}
  MaxListed = 2
INVARIANT ConsumedAuthorizationStaysHome
