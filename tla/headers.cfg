SPECIFICATION Spec
CONSTANTS
  Names = {Trace, Agent, Cookie}
  Propagated = {Trace, Agent}
  UserAgent = Agent
  Values = {a, b, Empty}
  Empty = Empty
  GoHttp = GoHttp
  GrpcGo = GrpcGo
  MaxHops = 3
INVARIANTS
  TraceIsKept
  UserAgentOrigin
CHECK_DEADLOCK FALSE
