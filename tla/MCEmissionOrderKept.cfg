SPECIFICATION Spec
CONSTANTS
    r1 = r1
    c1 = c1
    NoOne = NoOne
    MaxEvents = 2
    Relays = {r1}
    Consumers = {c1}
    MaxPublishAttempts = 2
    BatchSize = 2
    MaxDeliveries = 2
    MaxFaults = 0
INVARIANT EmissionOrderKept
