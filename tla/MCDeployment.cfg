SPECIFICATION MCSpec
CONSTANTS
  Network = "eth_mainnet"
  Scripts = {"deploy"}
  MaxAttempts = 3
  MaxFailures = 2
INVARIANTS WiredTogether NobodyControls ReadyWhenUsable
PROPERTY MainDeploys
CHECK_DEADLOCK FALSE
