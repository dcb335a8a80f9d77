\* Two messages of one partition; a message's retries run out.
SPECIFICATION ClaimsEventsSpec
CONSTANTS
  MaxClaimEvents = 2
INVARIANT ExhaustedIsDeadLettered
CHECK_DEADLOCK FALSE
