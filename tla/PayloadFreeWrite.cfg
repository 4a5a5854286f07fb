SPECIFICATION Spec
CONSTANTS
    n1 = n1
    n2 = n2
    Node = {n1, n2}
    None = None
    Counterparty = {"service_registry"}
    Operation = {"approve", "register_service", "update_service", "deregister_service"}
    MaxAmount = 2
    Uint96 = 3
    MaxFunding = 2
    Price = {0, 1, 2}
    MaxPending = 2
INVARIANT WriteSpendsItsBurn
