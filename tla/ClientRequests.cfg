\* One request over up to three routes.
CONSTANTS
    MaxRoutes = 3
    MaxAttempts = 3
SPECIFICATION FairSpec
\* the request may have ended
CHECK_DEADLOCK FALSE
PROPERTIES PaidAndLoggedOnce AbortHonoured
