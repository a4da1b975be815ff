SPECIFICATION MCSpec
CONSTANTS
    r1 = r1
    r2 = r2
    w1 = w1
    t1 = t1
    Scopes = {"payments", "webhooks", "faults", "chain"}
    l1 = l1
    Loans = {l1}
    Amounts = {1, 2, 3, 5}
    MaxSessions = 2
    Repayments = {r1, r2}
    Events = {r1, r2}
    Tests = {t1}
    Webhooks = {w1}
    MAX_RETRY_ATTEMPTS = 3
    RateLimit = 1
    MaxFaults = 1
    MaxSweeps = 1
    MaxTimed = 4
INVARIANTS WebhookTypeOK NeverOverpaid SessionsMatchRepayments ShownIsCurrent OneLiveJob
PROPERTIES DeliveriesEnd PaymentsArePosted
CHECK_DEADLOCK FALSE
