SPECIFICATION MCSpec
CONSTANTS
    signed = signed  built = built
    Keys = {signed, built}
    PreSigned = {signed}
    MAX_RETRIES = 5
    MaxCrashes = 3
INVARIANTS TypeOK SuccessIsConfirmed NoSubmissionAfterOutcome
PROPERTIES JobsEnd FailuresAreDeadLettered
