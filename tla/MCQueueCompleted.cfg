SPECIFICATION Spec
CONSTANTS
    Keys = {signed}
    PreSigned = {signed}
    MAX_RETRIES = 5
    MaxCrashes = 0
INVARIANT CompletedIsConfirmed
