\* Two users at one inbound, an API call that fails, and a request that adds nobody.
SPECIFICATION FairSpec
CONSTANTS
  Users <- TwoUsers
  Inbounds = {reality}
  Requests = {post}
  RequestKinds = {"users_sync", "runtime_remove", "persist_config"}
  Faults = {"api_error"}
  MaxUsage = 1
  MaxRequests = 1
  MaxFaults = 1
PROPERTIES
  AccessSpec
  AccessComesBack
