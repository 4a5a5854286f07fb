------------------------------ MODULE Payload ------------------------------
(***************************************************************************)
(* On-chain actions: a PayloadGenerator turns an operation of the node     *)
(* into a transaction request, the request is signed, executed by the      *)
(* chain, and read back by ParsedHoprChainAction::parse_from_eip2718.      *)
(*                                                                         *)
(* A transaction is a message: a destination, a native value and the ABI   *)
(* call it carries.  `body' holds the messages that a call has executed    *)
(* for it (the Safe module's execTransactionFromModule, MultiSend) and     *)
(* `data' the kind of payload an ERC777 send hands to its recipient.       *)
(* Widths are scaled: Uint96 stands for 2^96 and MaxFunding for            *)
(* ChannelBuilder::MAX_FUNDING_AMOUNT.  The static and the alloy-backed    *)
(* generators are one model: the repository compares them byte by byte in  *)
(* cross_verify.rs.                                                        *)
(*                                                                         *)
(* External: the chain, i.e. the effect of a transaction, and the service  *)
(* registry, which burns its current price out of the caller's allowance.  *)
(***************************************************************************)
EXTENDS Integers, Sequences, SequencesExt

CONSTANTS
    Node,           \* the accounts that own a node key
    Counterparty,   \* the addresses that operations are asked for
    Operation,      \* the operations of PayloadGenerator that are used
    MaxAmount,      \* bound on the token amounts asked for
    Uint96,         \* the first amount that a uint96 cannot hold
    MaxFunding,     \* ChannelBuilder::MAX_FUNDING_AMOUNT
    Price,          \* the burns that the owner of the service type sets
    MaxPending,     \* bound on the signed transactions not executed yet
    None

VARIABLES
    pending,        \* the signed transactions, in the order of their nonces
    price,          \* the burn of a registration and of an update
    allowance,      \* what each account lets the service registry take
    registered,     \* the nodes that have an entry in the registry
    last            \* the transaction executed by the last step and how it
                    \* was parsed, or None

vars == <<pending, price, allowance, registered, last>>

Contract == {"token", "channels", "announcements", "node_safe_registry",
             "service_registry", "node_stake_factory"}
Address == Node \cup Contract \cup {"safe", "module", "multi_send"}
Account == Node \cup {"safe"}
Amount == 0 .. MaxAmount

ASSUME PayloadAssumption ==
    /\ Counterparty \subseteq Address
    /\ MaxAmount \in Nat /\ Uint96 \in Nat \ {0} /\ MaxFunding \in 0 .. Uint96 - 1
    /\ Price \subseteq Amount /\ Price # {}
    /\ MaxPending \in Nat \ {0}
    /\ None \notin Address
\* A node is an account of its own.
ASSUME NodeAssumption == Node \cap (Contract \cup {"safe", "module", "multi_send"}) = {}

-----------------------------------------------------------------------------
(* What can be asked of a generator.                                       *)

TokenOps == {"approve", "transfer_token", "send_erc777", "announce", "deploy_safe"}
PeerOps == {"fund_channel", "close_incoming_channel",
            "initiate_outgoing_channel_closure", "finalize_outgoing_channel_closure"}
ServiceWrites == {"register_service", "update_service"}

\* The operations that take an address, and those that take an amount.
Addressed == PeerOps \cup {"approve", "transfer_native", "transfer_token",
                           "send_erc777", "redeem_ticket", "register_safe_by_node"}
Valued == ServiceWrites \cup {"approve", "transfer_native", "transfer_token",
            "send_erc777", "announce", "deploy_safe", "fund_channel", "redeem_ticket"}

ASSUME OperationAssumption ==
    Operation \subseteq Addressed \cup Valued \cup {"deregister_service", "deregister_node_by_safe"}

\* TicketBuilder keeps the amount of a ticket within MAX_TICKET_AMOUNT.
Request == { r \in [op: Operation, who: Counterparty \cup {None}, amount: Amount] :
               /\ (r.who # None) = (r.op \in Addressed)
               /\ r.op \notin Valued => r.amount = 0
               /\ r.op = "redeem_ticket" => r.who \in Node /\ r.amount < MaxFunding }

Generator == [kind: {"basic", "safe"}, me: Node]

-----------------------------------------------------------------------------
(* Encoding.                                                               *)

Message(to, fn, who, amount) ==
    [to |-> to, value |-> 0, fn |-> fn, who |-> who, amount |-> amount,
     data |-> "none", body |-> << >>]

\* A transfer of the native token carries no call.
Native(to, amount) == [Message(to, "none", None, 0) EXCEPT !.value = amount]

Send(to, amount, data) == [Message("token", "send", to, amount) EXCEPT !.data = data]

ModuleExec(m) == [Message("module", "execTransactionFromModule", None, 0)
                    EXCEPT !.body = <<m>>]

\* A slip: a byte too many is kept.
TruncatedWordWide(amount) == amount % (2 * Uint96)

\* uint96 keeps the low twelve bytes of an amount.
TruncatedWord(amount) == amount % Uint96

\* The approval that goes with a paid write of the service registry.
Approval(burn) ==
    IF burn = 0 THEN << >> ELSE <<Message("token", "approve", "service_registry", burn)>>

MultiSend(calls) ==
    ModuleExec([Message("multi_send", "multiSend", None, 0) EXCEPT !.body = calls])

\* A slip: the approval comes after the call that needs it.
PaidServiceRegistryPayloadLate(write, burn) == MultiSend(<<write>> \o Approval(burn))

PaidServiceRegistryPayload(write, burn) == MultiSend(Append(Approval(burn), write))

ServiceCall(g, op) ==
    Message("service_registry",
            CASE op = "register_service"   -> "selfRegister"
              [] op = "update_service"     -> "selfUpdate"
              [] op = "deregister_service" -> "selfDeregister",
            g.me, 0)

\* The calls of the channels contract: amounts are cut to the width of a uint96, and
\* a ticket is named by its issuer.
ChannelsCall(r) ==
    CASE r.op = "fund_channel"  -> Message("channels", "fundChannel", r.who, TruncatedWord(r.amount))
      [] r.op = "redeem_ticket" -> Message("channels", "redeemTicket", r.who, TruncatedWord(r.amount))
      [] OTHER                  -> Message("channels", r.op, r.who, 0)

\* The call of an operation, before a Safe generator wraps it.
EncodedCall(g, r) ==
    CASE r.op = "approve"         -> Message("token", "approve", r.who, r.amount)
      [] r.op = "transfer_native" -> Native(r.who, r.amount)
      [] r.op = "transfer_token"  -> Message("token", "transfer", r.who, r.amount)
      [] r.op = "send_erc777"     -> Send(r.who, r.amount, "curvy")
      [] r.op = "announce"        -> Send("announcements", r.amount, "key_binding")
      [] r.op = "deploy_safe"     -> Send("node_stake_factory", r.amount, "user_data")
      [] r.op \in PeerOps \cup {"redeem_ticket"} -> ChannelsCall(r)
      [] r.op = "register_safe_by_node" ->
           Message("node_safe_registry", "registerSafeByNode", r.who, 0)
      [] OTHER -> ServiceCall(g, r.op)

BasicRefuses(g, r) ==
    \/ r.op \in PeerOps /\ r.who = g.me
    \/ r.op = "deregister_node_by_safe"
    \/ r.op \in ServiceWrites /\ r.amount # 0

BasicPayload(g, r) == IF BasicRefuses(g, r) THEN {} ELSE {EncodedCall(g, r)}

SafeRefuses(g, r) ==
    \/ r.op \in PeerOps /\ r.who = g.me
    \/ r.op = "fund_channel" /\ r.amount > MaxFunding
    \/ r.op = "deploy_safe"

SafePayload(g, r) ==
    IF SafeRefuses(g, r) THEN {}
    ELSE CASE r.op = "register_safe_by_node" -> {EncodedCall(g, r)}
           [] r.op = "deregister_node_by_safe" ->
                {Message("module", "deregisterNodeBySafe", g.me, 0)}
           [] r.op \in ServiceWrites ->
                {PaidServiceRegistryPayload(ServiceCall(g, r.op), r.amount)}
           [] OTHER -> {ModuleExec(EncodedCall(g, r))}

\* The transaction request, or nothing when the generator refuses.
Payloads(g, r) == IF g.kind = "basic" THEN BasicPayload(g, r) ELSE SafePayload(g, r)

-----------------------------------------------------------------------------
(* Parsing: an action names the addresses it is from and to, `from' being  *)
(* the payer of a withdrawal or an approval.                               *)

Action(name, from, to, amount) ==
    [name |-> name, from |-> from, to |-> to, amount |-> amount]
ParseError == Action("error", None, None, 0)

\* A slip: the signer is taken for the payer.
PayerIsSigner(moduleCall) == "eoa"
PayerOf(moduleCall) == IF moduleCall THEN "safe" ELSE "eoa"

\* A slip: the incoming channel is read as an outgoing one.
ParsedChannelsOutgoing(m, signer) ==
    CASE m.fn = "fundChannel" -> Action("FundChannel", None, m.who, m.amount)
      [] m.fn = "initiate_outgoing_channel_closure" ->
           Action("InitializeChannelClosure", signer, m.who, 0)
      [] m.fn = "finalize_outgoing_channel_closure" ->
           Action("FinalizeChannelClosure", signer, m.who, 0)
      [] m.fn = "close_incoming_channel" ->
           Action("IncomingChannelClosure", signer, m.who, 0)
      [] m.fn = "redeemTicket" -> Action("RedeemTicket", m.who, None, m.amount)
      [] OTHER -> ParseError

\* The channel of a ticket is named by its issuer.
ParsedChannels(m, signer) ==
    CASE m.fn = "fundChannel" -> Action("FundChannel", None, m.who, m.amount)
      [] m.fn = "initiate_outgoing_channel_closure" ->
           Action("InitializeChannelClosure", signer, m.who, 0)
      [] m.fn = "finalize_outgoing_channel_closure" ->
           Action("FinalizeChannelClosure", signer, m.who, 0)
      [] m.fn = "close_incoming_channel" ->
           Action("IncomingChannelClosure", m.who, signer, 0)
      [] m.fn = "redeemTicket" -> Action("RedeemTicket", m.who, None, m.amount)
      [] OTHER -> ParseError

ParsedToken(m, moduleCall) ==
    CASE m.fn = "send" /\ m.who = "announcements" ->
           IF m.data = "key_binding" THEN Action("Announce", None, None, 0) ELSE ParseError
      [] m.fn = "approve" -> Action("Approve", PayerOf(moduleCall), m.who, m.amount)
      [] m.fn = "transfer" \/ (m.fn = "send" /\ m.who # "announcements") ->
           Action("WithdrawToken", PayerOf(moduleCall), m.who, m.amount)
      [] OTHER -> ParseError

ParsedCall(m, signer, moduleCall) ==
    CASE m.to = "node_safe_registry" ->
           IF m.fn = "registerSafeByNode"
           THEN Action("RegisterSafeAddress", None, m.who, 0) ELSE ParseError
      [] m.to = "channels" -> ParsedChannels(m, signer)
      [] m.to = "token"    -> ParsedToken(m, moduleCall)
      [] OTHER             -> ParseError

\* A value moved by a call without data is a withdrawal.
IsWithdrawal(m) == m.value # 0 /\ m.fn = "none"

Parsed(m, signer) ==
    CASE m.to = "module" ->
           IF m.fn # "execTransactionFromModule" THEN ParseError
           ELSE IF IsWithdrawal(m.body[1])
                THEN Action("WithdrawNative", PayerOf(TRUE), m.body[1].to, m.body[1].value)
                ELSE ParsedCall(m.body[1], signer, TRUE)
      [] m.to \in Contract -> ParsedCall(m, signer, FALSE)
      [] m.to \notin Contract \cup {"module"} ->
           IF m.value > 0 THEN Action("WithdrawNative", PayerOf(FALSE), m.to, m.value)
           ELSE ParseError

-----------------------------------------------------------------------------
(* Execution, external: who sends which messages to which contract.        *)

Executed(m, signer) ==
    IF m.to # "module" THEN <<[by |-> signer, m |-> m]>>
    ELSE IF m.body = << >> THEN << >>
    ELSE LET inner == m.body[1]
             calls == IF inner.fn = "multiSend" THEN inner.body ELSE m.body
         IN  [i \in 1 .. Len(calls) |-> [by |-> "safe", m |-> calls[i]]]

\* One call against <<allowance, registered, spent, ok>>.
Charged(s, by, node, burn) ==
    [s EXCEPT !.allowance[by] = @ - burn, !.spent = @ + burn,
              !.registered = @ \cup {node}]
Failed(s) == [s EXCEPT !.ok = FALSE]

Applied(s, call) ==
    LET m == call.m
        write(burn, wanted) ==
            IF (m.who \in s.registered) = wanted /\ s.allowance[call.by] >= burn
            THEN Charged(s, call.by, m.who, burn) ELSE Failed(s)
    IN  CASE ~ s.ok -> s
          [] s.ok /\ m.fn = "approve" /\ m.who = "service_registry" ->
               [s EXCEPT !.allowance[call.by] = m.amount]
          [] s.ok /\ m.fn = "selfRegister" -> write(price.register, FALSE)
          [] s.ok /\ m.fn = "selfUpdate"   -> write(price.update, TRUE)
          [] s.ok /\ m.fn = "selfDeregister" ->
               IF m.who \in s.registered
               THEN [s EXCEPT !.registered = @ \ {m.who}] ELSE Failed(s)
          [] OTHER -> s

Outcome(m, signer) ==
    FoldLeft(Applied, [allowance |-> allowance, registered |-> registered,
                       spent |-> 0, ok |-> TRUE],
             Executed(m, signer))

-----------------------------------------------------------------------------
Init ==
    /\ pending = << >>
    /\ price \in [register: Price, update: Price]
    /\ allowance = [a \in Account |-> 0]
    /\ registered = {}
    /\ last = None

\* The burn that the registry takes for a write now.
Burn(op) == IF op = "register_service" THEN price.register ELSE price.update

\* A generator builds the payload of an operation and the node signs it.
\* History: was a service write asked for with the burn in force then?
Submit(g, r) ==
    /\ Len(pending) < MaxPending
    /\ \E m \in Payloads(g, r) :
         pending' = Append(pending, [generator |-> g, request |-> r, message |-> m,
                                     atBurn |-> r.op \in ServiceWrites /\ r.amount = Burn(r.op)])
    /\ last' = None
    /\ UNCHANGED <<price, allowance, registered>>

\* The owner of the service type changes its burns.
BurnChanged(kind, burn) ==
    /\ price' = [price EXCEPT ![kind] = burn]
    /\ last' = None
    /\ UNCHANGED <<pending, allowance, registered>>

\* The chain executes the transaction with the next nonce, all of it or
\* nothing, and an observer parses it.
Execute ==
    /\ pending # << >>
    /\ LET tx == Head(pending)
           signer == tx.generator.me
           result == Outcome(tx.message, signer)
       IN  /\ last' = [generator |-> tx.generator, request |-> tx.request, atBurn |-> tx.atBurn,
                       action |-> Parsed(tx.message, signer),
                       executed |-> Executed(tx.message, signer),
                       spent |-> IF result.ok THEN result.spent ELSE 0]
           /\ allowance' = IF result.ok THEN result.allowance ELSE allowance
           /\ registered' = IF result.ok THEN result.registered ELSE registered
    /\ pending' = Tail(pending)
    /\ UNCHANGED price

Next ==
    \/ \E g \in Generator, r \in Request : Submit(g, r)
    \/ \E kind \in {"register", "update"}, burn \in Price : BurnChanged(kind, burn)
    \/ Execute

Spec == Init /\ [][Next]_vars

-----------------------------------------------------------------------------
\* The shape of the state, with the amounts the ABI types can hold.
TypeOK ==
    /\ Len(pending) <= MaxPending
    /\ \A i \in DOMAIN pending :
         /\ pending[i].generator \in Generator
         /\ pending[i].request \in Request
         /\ pending[i].atBurn \in BOOLEAN
         /\ pending[i].message.amount \in Amount
         /\ pending[i].message.fn = "fundChannel" => pending[i].message.amount < Uint96
    /\ price \in [register: Price, update: Price]
    /\ allowance \in [Account -> Amount]
    /\ registered \subseteq Node

\* The action an operation is meant to be read back as.
Wanted(g, r) ==
    LET payer == IF g.kind = "safe" THEN "safe" ELSE "eoa"
    IN  CASE r.op = "approve"         -> Action("Approve", payer, r.who, r.amount)
          [] r.op = "transfer_native" -> Action("WithdrawNative", payer, r.who, r.amount)
          [] r.op \in {"transfer_token", "send_erc777"} ->
               Action("WithdrawToken", payer, r.who, r.amount)
          [] r.op = "announce"        -> Action("Announce", None, None, 0)
          [] r.op = "fund_channel"    -> Action("FundChannel", None, r.who, r.amount)
          [] r.op = "initiate_outgoing_channel_closure" ->
               Action("InitializeChannelClosure", g.me, r.who, 0)
          [] r.op = "finalize_outgoing_channel_closure" ->
               Action("FinalizeChannelClosure", g.me, r.who, 0)
          [] r.op = "close_incoming_channel" ->
               Action("IncomingChannelClosure", r.who, g.me, 0)
          [] r.op = "redeem_ticket"   -> Action("RedeemTicket", r.who, None, r.amount)
          [] r.op = "register_safe_by_node" ->
               Action("RegisterSafeAddress", None, r.who, 0)

\* The operations that ParsedHoprChainAction has an action for, and whose
\* transaction is not taken for something else on the way there.
Understood(g, r) ==
    /\ r.op \notin ServiceWrites \cup
            {"deregister_service", "deregister_node_by_safe", "deploy_safe"}
    /\ r.op = "transfer_native" =>
         r.amount > 0 /\ (g.kind = "basic" => r.who \notin Contract \cup {"module"})
    /\ r.op = "send_erc777" => r.who # "announcements"

\* The parser is not the inverse of the generators for two operations: it has no
\* action for the deployment of a Safe and reads the one a Basic generator builds as
\* a withdrawal to the factory (chain/parser.rs, "Any other ERC777 send"), and the
\* Basic generator cuts the funding of a channel to the low 96 bits of its amount.
NotInverted(r) ==
    r.op = "deploy_safe" \/ (r.op = "fund_channel" /\ r.amount >= Uint96)

\* But for those two, an executed transaction is read back as the operation it was
\* built for, from either generator, and never as another one: what has no action of
\* its own is refused (chain/parser.rs, both generators).
ParsedIsRequested ==
    last # None /\ ~NotInverted(last.request) =>
        last.action = IF Understood(last.generator, last.request)
                      THEN Wanted(last.generator, last.request) ELSE ParseError

\* What one call moves: the asset, its recipient and the amount.
Moved(m) ==
    CASE m.fn = "none" -> <<"WithdrawNative", m.to, m.value>>
      [] m.fn \in {"transfer", "send"} -> <<"WithdrawToken", m.who, m.amount>>
      [] m.fn = "approve" -> <<"Approve", m.who, m.amount>>
      [] OTHER -> <<m.fn, None, 0>>

\* The payer that the parser names for a withdrawal or an approval is the
\* account the chain debits, for the amount and the recipient it names, and
\* the transaction debits nobody else (Payer in chain/parser.rs).
PayerIsDebited ==
    last # None /\ last.action.name \in {"WithdrawNative", "WithdrawToken", "Approve"} =>
        /\ Len(last.executed) = 1
        /\ last.executed[1].by =
              (IF last.action.from = "safe" THEN "safe" ELSE last.generator.me)
        /\ Moved(last.executed[1].m) = <<last.action.name, last.action.to, last.action.amount>>

\* A service write with a burn spends no more than that burn, whatever the
\* owner of the type does to the price and whatever allowance earlier
\* transactions left behind (the approval bundled by a Safe generator).
PaidWriteSpendsItsBurn ==
    last # None /\ last.request.op \in ServiceWrites /\ last.request.amount > 0 =>
        last.spent <= last.request.amount

\* The doc of register_service: the approval of a Safe generator "protects the caller
\* against a concurrent burn increase".  A caller that asked for a write with the burn
\* in force, zero included, spends no more than that, whatever the burn is by then.
WriteSpendsItsBurn ==
    last # None /\ last.generator.kind = "safe" /\ last.atBurn =>
        last.spent <= last.request.amount
=============================================================================
