SPECIFICATION Spec
CONSTANTS
    n1 = n1
    n2 = n2
    Node = {n1, n2}
    None = None
    Counterparty = {n1, n2, "module", "announcements", "service_registry"}
    Operation = {"approve", "transfer_native", "transfer_token", "send_erc777", "announce", "fund_channel", "close_incoming_channel", "initiate_outgoing_channel_closure", "finalize_outgoing_channel_closure", "redeem_ticket", "register_safe_by_node", "deregister_node_by_safe", "register_service", "update_service", "deregister_service", "deploy_safe"}
    MaxAmount = 2
    Uint96 = 2
    MaxFunding = 1
    Price = {1, 2}
    MaxPending = 1
SYMMETRY Symmetry
INVARIANTS TypeOK PayerIsDebited ParsedIsRequested PaidWriteSpendsItsBurn
