SPECIFICATION MCSpec
CONSTANTS
  cli = cli
  web = web
  escalation = escalation
  approval = approval
  first = first
  again = again
  other = other
  remote = remote
  cliWorker = cliWorker
  webWorker = webWorker
  Host = {cli, web}
  Event = {escalation, approval}
  Caller = {first, again, other, remote}
  Worker = {cliWorker, webWorker}
  HostOf <- TwoHosts
  EventOf <- Events
  MaxAttempts = 2
  Batch = 2
  MaxCrashes = 1
  Faults = {"temporary", "lost", "refused", "unresolved", "slow", "crash"}
INVARIANTS SuccessIsReal PostsPaidFor OneDeliveryAlone
PROPERTIES SettlesShared
