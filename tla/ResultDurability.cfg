SPECIFICATION Spec
CONSTANTS
  Releases = {rel1, rel2}
  NoRelease = NoRelease
  Procs = {p1}
  Nobody = Nobody
  a1 = a1
  a2 = a2
  a3 = a3
  v1 = v1
  v2 = v2
  m1 = m1
  rel1 = rel1
  rel2 = rel2
  scoped = scoped
  Ops = {a1, v1, v2}
  Admins = {}
  NoOp = NoOp
  WholeHost = WholeHost
  Resources = {WholeHost}
  LastSource = 1
  RunOf <- MCRunOf
  ReleaseOf <- MCReleaseOf
  AgentOf <- MCAgentOf
  ActionOf <- MCActionOf
  ResourceOf <- MCResourceOf
  SourceOf <- MCSourceOf
  AdminSourceOf <- MCAdminSourceOf
  HostStates <- MCHostStates
  PowerMayFail = TRUE
  MaxFaults = 3
INVARIANTS
  ResultDurableBeforeRelease
