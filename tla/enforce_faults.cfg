\* One user at two inbounds, one HTTP request of any kind and one fault of any kind.
SPECIFICATION FairSpec
CONSTANTS
  Users <- OneUser
  Inbounds = {reality, xhttp}
  Requests = {post}
  RequestKinds = {"quota_sync", "users_sync", "quota_reset", "runtime_add", "runtime_remove", "persist_config"}
  Faults = {"xray_down", "api_error", "agent_crash", "store_error"}
  MaxUsage = 1
  MaxRequests = 1
  MaxFaults = 1
INVARIANTS
  TypeOK
PROPERTIES
  BlocksFollowUsage
  ExpiryUnlessWedged
