\* A user at two inbounds, and either an API call that fails or an Xray that restarts.
SPECIFICATION FairSpec
CONSTANTS
  Users <- OneUser
  Inbounds = {reality, xhttp}
  Requests = {}
  RequestKinds = {}
  Faults = {"api_error", "xray_down"}
  MaxUsage = 1
  MaxRequests = 0
  MaxFaults = 1
PROPERTIES
  OverQuotaIsCutOff
