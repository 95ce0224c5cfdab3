SPECIFICATION Spec
CONSTANTS
    r1 = r1
    c1 = c1
    c2 = c2
    NoOne = NoOne
    MaxEvents = 2
    Relays = {r1}
    Consumers = {c1, c2}
    MaxPublishAttempts = 2
    BatchSize = 2
    MaxDeliveries = 2
    MaxFaults = 2
INVARIANTS NothingIsLost DuplicatesAreBounded DisorderHasACause
PROPERTY EventuallySettled
