\* Two requests on their way through the application's middleware.
SPECIFICATION RequestPipelineSpec
CONSTANTS
  r1 = r1
  r2 = r2
  WebRequests = {r1, r2}
INVARIANT RoutesServed
CHECK_DEADLOCK FALSE
