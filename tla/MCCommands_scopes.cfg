CONSTANTS
  g1 = g1
  g2 = g2
  r1 = r1
  r2 = r2
  host = host
  Goroutine = {g1, g2}
  Nil = Nil
  Unset = Unset
  NoRoot = NoRoot
  Sysroot = r1
  MaxSteps <- MCMaxSteps
  Plan <- MCPlan
  Offered <- MCOffered
  Settings <- MCSettings
  ProcessEnv <- MCProcessEnv
SPECIFICATION Spec
INVARIANTS
  CommandKeepsSettings
  OneSysroot
  ToolchainFilesLive
PROPERTIES
  HooksReturn
CHECK_DEADLOCK FALSE
