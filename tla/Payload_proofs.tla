---------------------------- MODULE Payload_proofs ----------------------------
(***************************************************************************)
(* Proofs about Payload.                                                    *)
(*                                                                          *)
(* First what the parser reads from the payload of each operation, then     *)
(* what the chain executes of it, then the invariant: every transaction in  *)
(* flight was made by a generator from one request, so that the properties  *)
(* follow from lemmas about a request and its payload.                      *)
(***************************************************************************)
EXTENDS Payload, SequenceTheorems, TLAPS

\* A signed transaction: what was asked for, of whom, and what was made of it.
MessageSet == UNION { UNION { Payloads(g, r) : r \in Request } : g \in Generator }
Transaction == { tx \in [generator: Generator, request: Request, message: MessageSet,
                         atBurn: BOOLEAN] :
                   tx.message \in Payloads(tx.generator, tx.request) }

-----------------------------------------------------------------------------
(* Parsing                                                                  *)

\* The parts of a request.
LEMMA RequestType ==
    ASSUME NEW r \in Request
    PROVE  /\ r.op \in Addressed \cup Valued \cup {"deregister_service", "deregister_node_by_safe"}
           /\ r.amount \in Amount /\ r.amount \in Int /\ 0 <= r.amount
           /\ r.op \in Addressed => r.who \in Address
           /\ r.op = "redeem_ticket" => r.amount < MaxFunding
           /\ MaxFunding \in Int /\ MaxFunding < Uint96 /\ Uint96 \in Nat
BY OperationAssumption, PayloadAssumption DEF Request, Amount

\* Sends and native transfers are messages with one part replaced.
LEMMA SendParts ==
    ASSUME NEW to, NEW amount, NEW data
    PROVE  /\ Send(to, amount, data).to = "token" /\ Send(to, amount, data).fn = "send"
           /\ Send(to, amount, data).who = to /\ Send(to, amount, data).amount = amount
           /\ Send(to, amount, data).data = data /\ Send(to, amount, data).value = 0
           /\ Send(to, amount, data).body = <<>>
BY DEF Send, Message

LEMMA NativeParts ==
    ASSUME NEW to, NEW amount
    PROVE  /\ Native(to, amount).to = to /\ Native(to, amount).fn = "none"
           /\ Native(to, amount).value = amount /\ Native(to, amount).amount = 0
           /\ Native(to, amount).body = <<>>
BY DEF Native, Message

\* A transaction that a Safe executes for its module.
LEMMA ModuleParts ==
    ASSUME NEW m
    PROVE  /\ ModuleExec(m).to = "module" /\ ModuleExec(m).fn = "execTransactionFromModule"
           /\ ModuleExec(m).value = 0 /\ ModuleExec(m).amount = 0
           /\ ModuleExec(m).body = <<m>> /\ ModuleExec(m).body[1] = m
BY DEF ModuleExec, Message

LEMMA MultiSendParts ==
    ASSUME NEW calls
    PROVE  LET m == MultiSend(calls).body[1]
           IN  /\ MultiSend(calls).to = "module"
               /\ MultiSend(calls).fn = "execTransactionFromModule"
               /\ MultiSend(calls).amount = 0 /\ MultiSend(calls).body # <<>>
               /\ m.to = "multi_send" /\ m.fn = "multiSend" /\ m.value = 0 /\ m.body = calls
<1> DEFINE inner == [Message("multi_send", "multiSend", None, 0) EXCEPT !.body = calls]
<1>1. /\ inner.to = "multi_send" /\ inner.fn = "multiSend" /\ inner.value = 0
      /\ inner.body = calls
    BY DEF Message
<1>2. MultiSend(calls) = ModuleExec(inner)
    BY DEF MultiSend
<1> HIDE DEF inner
<1> QED
    BY <1>1, <1>2, ModuleParts

\* What the parser reads: the operation that was asked for or, for the deployment of a
\* Safe, a withdrawal to the factory.
Taken(g, r) == Understood(g, r) \/ r.op = "deploy_safe"
ReadAs(g, r) ==
    IF r.op = "deploy_safe"
    THEN Action("WithdrawToken", PayerOf(g.kind = "safe"), "node_stake_factory", r.amount)
    ELSE Wanted(g, r)

\* What the call of an operation is read as.
LEMMA CallParsed ==
    ASSUME NEW g \in Generator, NEW r \in Request, NEW viaModule \in BOOLEAN,
           r.op \notin {"transfer_native", "deregister_node_by_safe"},
           r.op = "fund_channel" => r.amount < Uint96,
           r.op \in TokenOps => viaModule = (g.kind = "safe")
    PROVE  ParsedCall(EncodedCall(g, r), g.me, viaModule) =
              IF Taken(g, r) THEN ReadAs(g, r) ELSE ParseError
<1> DEFINE m == EncodedCall(g, r)
<1>1. CASE r.op \in ServiceWrites \cup {"deregister_service"}
    <2>1. m.to = "service_registry"
        BY <1>1 DEF EncodedCall, ServiceCall, Message, ServiceWrites, PeerOps
    <2>2. ~Taken(g, r)
        BY <1>1 DEF Taken, Understood, ServiceWrites
    <2> QED
        BY <2>1, <2>2 DEF ParsedCall
<1>2. CASE r.op \in PeerOps \cup {"redeem_ticket"}
    <2>1. m = ChannelsCall(r)
        BY <1>2 DEF EncodedCall, PeerOps
    <2>2. Taken(g, r)
        BY <1>2 DEF Taken, Understood, PeerOps, ServiceWrites
    <2>3. r.amount % Uint96 = r.amount \/ r.op \notin {"fund_channel", "redeem_ticket"}
        BY RequestType, <1>2
    <2>4. m.to = "channels"
        BY <2>1, <1>2 DEF ChannelsCall, Message, PeerOps
    <2>5. ParsedChannels(m, g.me) = ReadAs(g, r)
        BY <1>2, <2>1, <2>3 DEF ChannelsCall, Message, PeerOps, TruncatedWord, ParsedChannels, ReadAs, Wanted
    <2> QED
        BY <2>2, <2>4, <2>5 DEF ParsedCall
<1>3. CASE r.op = "register_safe_by_node"
    <2>1. m.to = "node_safe_registry" /\ m.fn = "registerSafeByNode" /\ m.who = r.who
        BY <1>3 DEF EncodedCall, Message, PeerOps
    <2> QED
        BY <1>3, <2>1 DEF ParsedCall, Taken, Understood, ReadAs, Wanted, ServiceWrites
<1>4. CASE r.op \in TokenOps
    <2>0. viaModule = (g.kind = "safe")
        BY <1>4
    <2> DEFINE wanted == IF Taken(g, r) THEN ReadAs(g, r) ELSE ParseError
    <2>1. CASE r.op = "approve"
        <3>1. m.to = "token" /\ m.fn = "approve" /\ m.who = r.who /\ m.amount = r.amount
            BY <2>1 DEF EncodedCall, Message, PeerOps
        <3>2. ParsedToken(m, viaModule) = wanted
            BY <2>0, <2>1, <3>1 DEF ParsedToken, Taken, Understood, ReadAs, Wanted, ServiceWrites, PayerOf
        <3> QED
            BY <3>1, <3>2 DEF ParsedCall
    <2>2. CASE r.op = "transfer_token"
        <3>1. m.to = "token" /\ m.fn = "transfer" /\ m.who = r.who /\ m.amount = r.amount
            BY <2>2 DEF EncodedCall, Message, PeerOps
        <3>2. ParsedToken(m, viaModule) = wanted
            BY <2>0, <2>2, <3>1 DEF ParsedToken, Taken, Understood, ReadAs, Wanted, ServiceWrites, PayerOf
        <3> QED
            BY <3>1, <3>2 DEF ParsedCall
    <2>3. CASE r.op = "send_erc777"
        <3>1. m = Send(r.who, r.amount, "curvy")
            BY <2>3 DEF EncodedCall, PeerOps
        <3>2. /\ m.to = "token" /\ m.fn = "send" /\ m.who = r.who /\ m.amount = r.amount
              /\ m.data = "curvy"
            BY <3>1, SendParts
        <3>3. ParsedToken(m, viaModule) = wanted
            BY <2>0, <2>3, <3>2 DEF ParsedToken, Taken, Understood, ReadAs, Wanted, ServiceWrites, PayerOf
        <3> QED
            BY <3>2, <3>3 DEF ParsedCall
    <2>4. CASE r.op = "announce"
        <3>1. m = Send("announcements", r.amount, "key_binding")
            BY <2>4 DEF EncodedCall, PeerOps
        <3>2. m.to = "token" /\ m.fn = "send" /\ m.who = "announcements" /\ m.data = "key_binding"
            BY <3>1, SendParts
        <3>3. ParsedToken(m, viaModule) = wanted
            BY <2>4, <3>2 DEF ParsedToken, Taken, Understood, ReadAs, Wanted, ServiceWrites
        <3> QED
            BY <3>2, <3>3 DEF ParsedCall
    <2>5. CASE r.op = "deploy_safe"
        <3>1. m = Send("node_stake_factory", r.amount, "user_data")
            BY <2>5 DEF EncodedCall, PeerOps
        <3>2. m.to = "token" /\ m.fn = "send" /\ m.who = "node_stake_factory" /\ m.amount = r.amount
            BY <3>1, SendParts
        <3>3. ParsedToken(m, viaModule) = wanted
            BY <2>0, <2>5, <3>2 DEF ParsedToken, Taken, Understood, ReadAs, Wanted, ServiceWrites, PayerOf
        <3> QED
            BY <3>2, <3>3 DEF ParsedCall
    <2> QED
        BY <1>4, <2>1, <2>2, <2>3, <2>4, <2>5 DEF TokenOps
<1> QED
    BY <1>1, <1>2, <1>3, <1>4, RequestType
    DEF Addressed, Valued, PeerOps, TokenOps, ServiceWrites

\* A withdrawal of the native token.
LEMMA NativeParsed ==
    ASSUME NEW g \in Generator, NEW r \in Request, r.op = "transfer_native"
    PROVE  /\ EncodedCall(g, r) = Native(r.who, r.amount)
           /\ g.kind = "basic" =>
                 Parsed(EncodedCall(g, r), g.me) = IF Taken(g, r) THEN ReadAs(g, r) ELSE ParseError
           /\ g.kind = "safe" =>
                 Parsed(ModuleExec(EncodedCall(g, r)), g.me) =
                    IF Taken(g, r) THEN ReadAs(g, r) ELSE ParseError
<1> DEFINE m == EncodedCall(g, r)
<1>1. m = Native(r.who, r.amount)
    BY DEF EncodedCall, PeerOps
<1>2. m.to = r.who /\ m.fn = "none" /\ m.value = r.amount
    BY <1>1, NativeParts
<1>3. ReadAs(g, r) = Action("WithdrawNative", PayerOf(g.kind = "safe"), r.who, r.amount)
    BY DEF ReadAs, Wanted, PayerOf
<1>4. r.amount \in Int /\ 0 <= r.amount
    BY RequestType
<1>5. \A viaModule \in BOOLEAN : ParsedCall(m, g.me, viaModule) = ParseError
    <2> SUFFICES ASSUME NEW viaModule \in BOOLEAN
                 PROVE  ParsedCall(m, g.me, viaModule) = ParseError
        OBVIOUS
    <2>1. ParsedChannels(m, g.me) = ParseError
        BY <1>2 DEF ParsedChannels
    <2>2. ParsedToken(m, viaModule) = ParseError
        BY <1>2 DEF ParsedToken
    <2> QED
        BY <1>2, <2>1, <2>2 DEF ParsedCall
<1>6. ASSUME g.kind = "basic"
      PROVE  Parsed(m, g.me) = IF Taken(g, r) THEN ReadAs(g, r) ELSE ParseError
    <2>1. CASE r.who = "module"
        BY <1>2, <1>6, <2>1 DEF Parsed, Taken, Understood, Contract
    <2>2. CASE r.who \in Contract
        <3>1. r.who # "module"
            BY <2>2 DEF Contract
        <3> QED
            BY <1>2, <1>5, <1>6, <2>2, <3>1 DEF Parsed, Taken, Understood
    <2>3. CASE r.who \notin Contract \cup {"module"}
        <3>1. Parsed(m, g.me) = IF r.amount > 0 THEN Action("WithdrawNative", PayerOf(FALSE), r.who, r.amount)
                                ELSE ParseError
            BY <1>2, <2>3 DEF Parsed
        <3>2. Taken(g, r) <=> r.amount > 0
            BY <2>3 DEF Taken, Understood, ServiceWrites
        <3> QED
            BY <1>3, <1>6, <3>1, <3>2
    <2> QED
        BY <2>1, <2>2, <2>3
<1>7. ASSUME g.kind = "safe"
      PROVE  Parsed(ModuleExec(m), g.me) = IF Taken(g, r) THEN ReadAs(g, r) ELSE ParseError
    <2> HIDE DEF m
    <2>1. /\ ModuleExec(m).to = "module" /\ ModuleExec(m).fn = "execTransactionFromModule"
          /\ ModuleExec(m).body[1] = m
        BY ModuleParts
    <2>2. CASE r.amount = 0
        <3>1. ~IsWithdrawal(m)
            BY <1>2, <2>2 DEF IsWithdrawal
        <3>2. Parsed(ModuleExec(m), g.me) = ParsedCall(m, g.me, TRUE)
            BY <2>1, <3>1 DEF Parsed, Contract
        <3>3. ~Taken(g, r)
            BY <2>2 DEF Taken, Understood
        <3> QED
            BY <1>5, <3>2, <3>3
    <2>3. CASE r.amount > 0
        <3>1. IsWithdrawal(m)
            BY <1>2, <1>4, <2>3 DEF IsWithdrawal
        <3>2. Parsed(ModuleExec(m), g.me) = Action("WithdrawNative", PayerOf(TRUE), r.who, r.amount)
            BY <1>2, <2>1, <3>1 DEF Parsed, Contract
        <3>3. Taken(g, r)
            BY <1>7, <2>3 DEF Taken, Understood, ServiceWrites
        <3>4. PayerOf(TRUE) = PayerOf(g.kind = "safe")
            BY <1>7 DEF PayerOf
        <3> QED
            BY <1>3, <3>2, <3>3, <3>4
    <2> QED
        BY <1>4, <2>2, <2>3
<1> QED
    BY <1>1, <1>6, <1>7

\* The fields of a call other than a native transfer.
LEMMA EncodedParts ==
    ASSUME NEW g \in Generator, NEW r \in Request,
           r.op \notin {"transfer_native", "deregister_node_by_safe"}
    PROVE  /\ EncodedCall(g, r).to \in {"token", "channels", "node_safe_registry", "service_registry"}
           /\ EncodedCall(g, r).value = 0 /\ EncodedCall(g, r).body = <<>>
           /\ EncodedCall(g, r).fn \in {"approve", "transfer", "send", "registerSafeByNode",
                  "fundChannel", "redeemTicket", "selfRegister", "selfUpdate", "selfDeregister"}
                  \cup PeerOps
           /\ EncodedCall(g, r).amount \in Amount
<1> DEFINE m == EncodedCall(g, r)
<1>1. r.amount \in Amount /\ r.amount % Uint96 \in Amount /\ 0 \in Amount
    <2>1. r.amount \in Int /\ 0 <= r.amount /\ r.amount <= MaxAmount /\ MaxAmount \in Nat
          /\ Uint96 \in Int /\ Uint96 > 0
        BY RequestType, PayloadAssumption DEF Amount
    <2>2. 0 <= r.amount % Uint96 /\ r.amount % Uint96 <= r.amount /\ r.amount % Uint96 \in Int
        BY <2>1
    <2> QED
        BY <2>1, <2>2 DEF Amount
<1>2. CASE r.op \in ServiceWrites \cup {"deregister_service"}
    <2>1. m = ServiceCall(g, r.op)
        BY <1>2 DEF EncodedCall, PeerOps, ServiceWrites
    <2> QED
        BY <1>1, <1>2, <2>1 DEF ServiceCall, Message, ServiceWrites
<1>3. CASE r.op \in PeerOps \cup {"redeem_ticket"}
    <2>1. m = ChannelsCall(r)
        BY <1>3 DEF EncodedCall, PeerOps
    <2> QED
        BY <1>1, <1>3, <2>1 DEF ChannelsCall, Message, PeerOps, TruncatedWord
<1>4. CASE r.op \in {"register_safe_by_node", "approve", "transfer_token"}
    <2>1. \/ m = Message("node_safe_registry", "registerSafeByNode", r.who, 0)
          \/ m = Message("token", "approve", r.who, r.amount)
          \/ m = Message("token", "transfer", r.who, r.amount)
        BY <1>4 DEF EncodedCall, PeerOps
    <2> QED
        BY <1>1, <2>1 DEF Message
<1>5. CASE r.op \in {"send_erc777", "announce", "deploy_safe"}
    <2>1. \E to, data : m = Send(to, r.amount, data)
        BY <1>5 DEF EncodedCall, PeerOps
    <2> QED
        BY <1>1, <2>1, SendParts
<1> QED
    BY <1>2, <1>3, <1>4, <1>5, RequestType DEF Addressed, Valued, PeerOps, ServiceWrites

\* What a generator makes of a request.
LEMMA PayloadCases ==
    ASSUME NEW g \in Generator, NEW r \in Request, NEW m \in Payloads(g, r)
    PROVE  \/ /\ g.kind = "basic" \/ r.op = "register_safe_by_node"
              /\ r.op \notin ServiceWrites \/ r.amount = 0
              /\ r.op # "deregister_node_by_safe" /\ m = EncodedCall(g, r)
           \/ /\ g.kind = "safe" /\ r.op = "deregister_node_by_safe"
              /\ m = Message("module", "deregisterNodeBySafe", g.me, 0)
           \/ /\ g.kind = "safe" /\ r.op \in ServiceWrites
              /\ m = MultiSend(Append(Approval(r.amount), ServiceCall(g, r.op)))
           \/ /\ g.kind = "safe"
              /\ r.op \notin ServiceWrites \cup {"deploy_safe", "deregister_node_by_safe",
                                                  "register_safe_by_node"}
              /\ m = ModuleExec(EncodedCall(g, r))
<1>1. g.kind \in {"basic", "safe"}
    BY DEF Generator
<1>2. CASE g.kind = "basic"
    BY <1>2 DEF Payloads, BasicPayload, BasicRefuses
<1>3. CASE g.kind = "safe"
    <2>1. m \in SafePayload(g, r) /\ ~SafeRefuses(g, r)
        BY <1>3 DEF Payloads, SafePayload
    <2>2. r.op # "deploy_safe"
        BY <2>1 DEF SafeRefuses
    <2>3. CASE r.op \in ServiceWrites
        BY <1>3, <2>1, <2>3 DEF SafePayload, ServiceWrites, PaidServiceRegistryPayload
    <2>4. CASE r.op \notin ServiceWrites
        BY <1>3, <2>1, <2>2, <2>4 DEF SafePayload
    <2> QED
        BY <2>3, <2>4
<1> QED
    BY <1>1, <1>2, <1>3

\* A call that is no native transfer is read the same, whoever carries it.
LEMMA CarriedCall ==
    ASSUME NEW g \in Generator, NEW r \in Request,
           r.op \notin {"transfer_native", "deregister_node_by_safe"}
    PROVE  /\ Parsed(EncodedCall(g, r), g.me) = ParsedCall(EncodedCall(g, r), g.me, FALSE)
           /\ Parsed(ModuleExec(EncodedCall(g, r)), g.me) = ParsedCall(EncodedCall(g, r), g.me, TRUE)
<1> DEFINE m == EncodedCall(g, r)
<1>1. /\ m.to \in {"token", "channels", "node_safe_registry", "service_registry"}
      /\ m.value = 0
    BY EncodedParts
<1>2. ~IsWithdrawal(m)
    BY <1>1 DEF IsWithdrawal
<1>3. /\ ModuleExec(m).to = "module" /\ ModuleExec(m).fn = "execTransactionFromModule"
      /\ ModuleExec(m).body[1] = m
    BY ModuleParts
<1> HIDE DEF m
<1>4. Parsed(m, g.me) = ParsedCall(m, g.me, FALSE)
    BY <1>1 DEF Parsed, Contract
<1>5. Parsed(ModuleExec(m), g.me) = ParsedCall(m, g.me, TRUE)
    BY <1>2, <1>3 DEF Parsed, Contract
<1> QED
    BY <1>4, <1>5 DEF m

\* The parser reads from a transaction what its generator was asked for.
LEMMA TransactionParsed ==
    ASSUME NEW g \in Generator, NEW r \in Request, NEW m \in Payloads(g, r),
           r.op = "fund_channel" => r.amount < Uint96
    PROVE  Parsed(m, g.me) = IF Taken(g, r) THEN ReadAs(g, r) ELSE ParseError
<1> DEFINE read == IF Taken(g, r) THEN ReadAs(g, r) ELSE ParseError
<1>0. g.kind \in {"basic", "safe"}
    BY DEF Generator
<1>1. ASSUME g.kind = "basic" \/ r.op = "register_safe_by_node",
             r.op # "deregister_node_by_safe", m = EncodedCall(g, r)
      PROVE  Parsed(m, g.me) = read
    <2>1. CASE r.op = "transfer_native"
        BY <1>1, <2>1, NativeParsed
    <2>2. CASE r.op # "transfer_native"
        <3>1. r.op \in TokenOps => FALSE = (g.kind = "safe")
            BY <1>1 DEF TokenOps
        <3>2. ParsedCall(EncodedCall(g, r), g.me, FALSE) = read
            BY <1>1, <2>2, <3>1, CallParsed
        <3> QED
            BY <1>1, <2>2, <3>2, CarriedCall
    <2> QED
        BY <2>1, <2>2
<1>2. ASSUME g.kind = "safe", m = ModuleExec(EncodedCall(g, r)), r.op # "deregister_node_by_safe"
      PROVE  Parsed(m, g.me) = read
    <2>1. CASE r.op = "transfer_native"
        BY <1>2, <2>1, NativeParsed
    <2>2. CASE r.op # "transfer_native"
        <3>1. r.op \in TokenOps => TRUE = (g.kind = "safe")
            BY <1>2
        <3>2. ParsedCall(EncodedCall(g, r), g.me, TRUE) = read
            BY <1>2, <2>2, <3>1, CallParsed
        <3> QED
            BY <1>2, <2>2, <3>2, CarriedCall
    <2> QED
        BY <2>1, <2>2
<1>3. ASSUME r.op = "deregister_node_by_safe", m = Message("module", "deregisterNodeBySafe", g.me, 0)
      PROVE  Parsed(m, g.me) = read
    BY <1>3 DEF Message, Parsed, Contract, Taken, Understood
<1>4. ASSUME r.op \in ServiceWrites, m = MultiSend(Append(Approval(r.amount), ServiceCall(g, r.op)))
      PROVE  Parsed(m, g.me) = read
    <2> DEFINE inner == m.body[1]
    <2>1. /\ m.to = "module" /\ m.fn = "execTransactionFromModule"
          /\ inner.to = "multi_send" /\ inner.value = 0
        BY <1>4, MultiSendParts
    <2> HIDE DEF inner
    <2>2. ParsedCall(inner, g.me, TRUE) = ParseError /\ ~IsWithdrawal(inner)
        BY <2>1 DEF ParsedCall, IsWithdrawal
    <2>3. Parsed(m, g.me) = ParseError
        BY <2>1, <2>2 DEF Parsed, Contract, inner
    <2>4. ~Taken(g, r)
        BY <1>4 DEF Taken, Understood, ServiceWrites
    <2> QED
        BY <2>3, <2>4
<1> QED
    BY <1>1, <1>2, <1>3, <1>4, PayloadCases

LEMMA FundingParsed ==
    ASSUME NEW g \in Generator, NEW r \in Request, NEW m \in Payloads(g, r), r.op = "fund_channel"
    PROVE  Parsed(m, g.me).name = "FundChannel"
<1> DEFINE call == EncodedCall(g, r)
<1>1. call = Message("channels", "fundChannel", r.who, TruncatedWord(r.amount))
    BY DEF EncodedCall, ChannelsCall, PeerOps
<1>2. call.to = "channels" /\ call.fn = "fundChannel"
    BY <1>1 DEF Message
<1>3. \A viaModule \in BOOLEAN : ParsedCall(call, g.me, viaModule).name = "FundChannel"
    BY <1>2 DEF ParsedCall, ParsedChannels, Action
<1>4. m = call \/ m = ModuleExec(call)
    BY PayloadCases DEF ServiceWrites
<1> QED
    BY <1>3, <1>4, CarriedCall

-----------------------------------------------------------------------------
(* Execution                                                                *)

\* The chain executes a call for the account that signed it, and a call that
\* a Safe makes for its module for the Safe.
LEMMA ExecutedByNode ==
    ASSUME NEW m, NEW me, m.to # "module"
    PROVE  Executed(m, me) = <<[by |-> me, m |-> m]>>
BY DEF Executed

LEMMA ExecutedBySafe ==
    ASSUME NEW m, NEW me, m.fn # "multiSend"
    PROVE  Executed(ModuleExec(m), me) = <<[by |-> "safe", m |-> m]>>
<1> DEFINE t == ModuleExec(m)
<1>1. t.to = "module" /\ t.body = <<m>> /\ t.body # <<>> /\ t.body[1] = m
    BY ModuleParts
<1> HIDE DEF t
<1>2. Executed(t, me) = [i \in 1 .. Len(<<m>>) |-> [by |-> "safe", m |-> <<m>>[i]]]
    BY <1>1 DEF Executed
<1>3. Len(<<m>>) = 1 /\ \A i \in 1 .. 1 : <<m>>[i] = m
    OBVIOUS
<1>4. [i \in 1 .. 1 |-> [by |-> "safe", m |-> <<m>>[i]]] = <<[by |-> "safe", m |-> m]>>
    BY <1>3
<1> QED
    BY <1>2, <1>3, <1>4 DEF t

\* What a transaction that is read as a withdrawal or an approval has executed.
PayerNamed(action, executed, me) ==
    action.name \in {"WithdrawNative", "WithdrawToken", "Approve"} =>
        /\ Len(executed) = 1
        /\ executed[1].by = (IF action.from = "safe" THEN "safe" ELSE me)
        /\ Moved(executed[1].m) = <<action.name, action.to, action.amount>>

LEMMA TransactionPayer ==
    ASSUME NEW g \in Generator, NEW r \in Request, NEW m \in Payloads(g, r)
    PROVE  PayerNamed(Parsed(m, g.me), Executed(m, g.me), g.me)
<1> DEFINE action == Parsed(m, g.me)
           call == EncodedCall(g, r)
<1> SUFFICES ASSUME action.name \in {"WithdrawNative", "WithdrawToken", "Approve"}
             PROVE  /\ Len(Executed(m, g.me)) = 1
                    /\ Executed(m, g.me)[1].by = (IF action.from = "safe" THEN "safe" ELSE g.me)
                    /\ Moved(Executed(m, g.me)[1].m) = <<action.name, action.to, action.amount>>
    BY DEF PayerNamed
<1>1. r.op # "fund_channel"
    BY FundingParsed
<1>2. Taken(g, r) /\ action = ReadAs(g, r)
    BY <1>1, TransactionParsed DEF ParseError, Action
<1>3. r.op \in {"approve", "transfer_native", "transfer_token", "send_erc777", "deploy_safe"}
    BY <1>1, <1>2, RequestType
    DEF Taken, Understood, ReadAs, Wanted, Action, Addressed, Valued, PeerOps, ServiceWrites
<1>4. /\ action.from = (IF g.kind = "safe" THEN "safe" ELSE "eoa")
      /\ Moved(call) = <<action.name, action.to, action.amount>>
      /\ call.fn # "multiSend"
    <2>1. CASE r.op = "approve"
        BY <1>2, <2>1 DEF EncodedCall, Message, PeerOps, Moved, ReadAs, Wanted, Action
    <2>2. CASE r.op = "transfer_native"
        <3>1. call.to = r.who /\ call.value = r.amount /\ call.fn = "none"
            BY <2>2, NativeParsed, NativeParts
        <3> QED
            BY <1>2, <2>2, <3>1 DEF Moved, ReadAs, Wanted, Action
    <2>3. CASE r.op = "transfer_token"
        BY <1>2, <2>3 DEF EncodedCall, Message, PeerOps, Moved, ReadAs, Wanted, Action
    <2>4. CASE r.op = "send_erc777"
        <3>1. call = Send(r.who, r.amount, "curvy")
            BY <2>4 DEF EncodedCall, PeerOps
        <3>2. call.fn = "send" /\ call.who = r.who /\ call.amount = r.amount
            BY <3>1, SendParts
        <3> QED
            BY <1>2, <2>4, <3>2 DEF Moved, ReadAs, Wanted, Action
    <2>5. CASE r.op = "deploy_safe"
        <3>1. call = Send("node_stake_factory", r.amount, "user_data")
            BY <2>5 DEF EncodedCall, PeerOps
        <3>2. call.fn = "send" /\ call.who = "node_stake_factory" /\ call.amount = r.amount
            BY <3>1, SendParts
        <3> QED
            BY <1>2, <2>5, <3>2 DEF Moved, ReadAs, PayerOf, Action
    <2> QED
        BY <1>3, <2>1, <2>2, <2>3, <2>4, <2>5
<1>5. CASE g.kind = "basic"
    <2>1. m = call
        BY <1>5, PayloadCases
    <2>2. m.to # "module"
        <3>1. CASE r.op = "transfer_native"
            <4>1. call.to = r.who
                BY <3>1, NativeParsed, NativeParts
            <4> QED
                BY <1>2, <1>5, <2>1, <3>1, <4>1 DEF Taken, Understood
        <3>2. CASE r.op # "transfer_native"
            <4>1. call.to \in {"token", "channels", "node_safe_registry", "service_registry"}
                BY <1>3, <3>2, EncodedParts
            <4> QED
                BY <2>1, <4>1
        <3> QED
            BY <3>1, <3>2
    <2>3. Executed(m, g.me) = <<[by |-> g.me, m |-> m]>>
        BY <2>2, ExecutedByNode
    <2> HIDE DEF action, call
    <2> QED
        BY <1>4, <1>5, <2>1, <2>3
<1>6. CASE g.kind = "safe"
    <2>1. m = ModuleExec(call)
        BY <1>3, <1>6, PayloadCases DEF ServiceWrites
    <2>2. Executed(m, g.me) = <<[by |-> "safe", m |-> call]>>
        BY <1>4, <2>1, ExecutedBySafe
    <2> HIDE DEF action, call
    <2> QED
        BY <1>4, <1>6, <2>2
<1> QED
    BY <1>5, <1>6 DEF Generator

\* A call that changes an allowance or an entry does so for an account and
\* within the bounds of the state.
Proper(call) ==
    /\ call.by \in Account
    /\ call.m.fn = "approve" => call.m.amount \in Amount
    /\ call.m.fn \in {"selfRegister", "selfUpdate", "selfDeregister"} => call.m.who \in Node

\* The approval that a Safe is given for a paid write, and the write.
LEMMA WriteCalls ==
    ASSUME NEW g \in Generator, NEW op \in ServiceWrites \cup {"deregister_service"}
    PROVE  /\ ServiceCall(g, op).fn = (CASE op = "register_service" -> "selfRegister"
                                         [] op = "update_service" -> "selfUpdate"
                                         [] op = "deregister_service" -> "selfDeregister")
           /\ ServiceCall(g, op).who = g.me
BY DEF ServiceCall, Message, ServiceWrites

LEMMA AppendPair ==
    ASSUME NEW x, NEW y
    PROVE  Append(<<>>, y) = <<y>> /\ Append(<<x>>, y) = <<x, y>>
<1>1. <<x>> \in Seq({x, y}) /\ <<x, y>> \in Seq({x, y})
    OBVIOUS
<1>2. Append(<<x>>, y) \in Seq({x, y})
    BY <1>1
<1>3. Len(Append(<<x>>, y)) = 2 /\ Append(<<x>>, y)[1] = x /\ Append(<<x>>, y)[2] = y
    BY <1>1
<1>4. Len(<<x, y>>) = 2 /\ <<x, y>>[1] = x /\ <<x, y>>[2] = y
    OBVIOUS
<1>5. \A i \in 1 .. 2 : i = 1 \/ i = 2
    OBVIOUS
<1>6. Append(<<x>>, y) = <<x, y>>
    BY <1>1, <1>2, <1>3, <1>4, <1>5, SeqEqual
<1>7. Append(<<>>, y) = <<y>>
    OBVIOUS
<1> QED
    BY <1>6, <1>7

LEMMA MultiSendExecuted ==
    ASSUME NEW g \in Generator, NEW op \in ServiceWrites, NEW burn \in Amount, NEW me
    PROVE  LET write == [by |-> "safe", m |-> ServiceCall(g, op)]
               approval == [by |-> "safe", m |-> Message("token", "approve", "service_registry", burn)]
           IN  Executed(MultiSend(Append(Approval(burn), ServiceCall(g, op))), me) =
                  IF burn = 0 THEN <<write>> ELSE <<approval, write>>
<1> DEFINE w == ServiceCall(g, op)
           a == Message("token", "approve", "service_registry", burn)
           calls == Append(Approval(burn), w)
           t == MultiSend(calls)
<1>1. /\ t.to = "module" /\ t.body # <<>>
      /\ t.body[1].fn = "multiSend" /\ t.body[1].body = calls
    BY MultiSendParts
<1>2. calls = IF burn = 0 THEN <<w>> ELSE <<a, w>>
    <2>1. Approval(burn) = IF burn = 0 THEN <<>> ELSE <<a>>
        BY DEF Approval
    <2> HIDE DEF w, a
    <2>2. Append(<<>>, w) = <<w>> /\ Append(<<a>>, w) = <<a, w>>
        BY AppendPair
    <2> QED
        BY <2>1, <2>2
<1> HIDE DEF t, calls, w, a
<1>3. Executed(t, me) = [i \in 1 .. Len(calls) |-> [by |-> "safe", m |-> calls[i]]]
    BY <1>1 DEF Executed
<1>4. CASE burn = 0
    <2>1. calls = <<w>> /\ Len(calls) = 1 /\ calls[1] = w
        BY <1>2, <1>4
    <2>2. [i \in 1 .. 1 |-> [by |-> "safe", m |-> calls[i]]] = <<[by |-> "safe", m |-> w]>>
        BY <2>1
    <2> QED
        BY <1>3, <1>4, <2>1, <2>2 DEF t, calls, w
<1>5. CASE burn # 0
    <2>1. Len(calls) = 2 /\ calls[1] = a /\ calls[2] = w
        BY <1>2, <1>5
    <2>2. [i \in 1 .. 2 |-> [by |-> "safe", m |-> calls[i]]] =
             <<[by |-> "safe", m |-> a], [by |-> "safe", m |-> w]>>
        BY <2>1
    <2> QED
        BY <1>3, <1>5, <2>1, <2>2 DEF t, calls, w, a
<1> QED
    BY <1>4, <1>5

\* The calls of a transaction: none, one, or an approval and a write.
LEMMA TransactionCalls ==
    ASSUME NEW g \in Generator, NEW r \in Request, NEW m \in Payloads(g, r)
    PROVE  \/ Executed(m, g.me) = <<>>
           \/ \E c : Proper(c) /\ Executed(m, g.me) = <<c>>
           \/ \E c, d : Proper(c) /\ Proper(d) /\ Executed(m, g.me) = <<c, d>>
<1> DEFINE call == EncodedCall(g, r)
<1>0. g.me \in Node /\ g.me \in Account /\ "safe" \in Account /\ r.amount \in Amount
    BY RequestType DEF Generator, Account
<1>1. ASSUME r.op # "deregister_node_by_safe", NEW by \in Account
      PROVE  Proper([by |-> by, m |-> call])
    <2>1. CASE r.op = "transfer_native"
        <3>1. call.fn = "none"
            BY <2>1, NativeParsed, NativeParts
        <3> QED
            BY <3>1 DEF Proper
    <2>2. CASE r.op \in ServiceWrites \cup {"deregister_service"}
        <3>1. call = ServiceCall(g, r.op)
            BY <2>2 DEF EncodedCall, PeerOps, ServiceWrites
        <3>2. call.fn # "approve" /\ call.who = g.me
            BY <2>2, <3>1, WriteCalls DEF ServiceWrites
        <3> QED
            BY <1>0, <3>2 DEF Proper
    <2>3. CASE r.op \notin {"transfer_native", "deregister_service"} \cup ServiceWrites
        <3>1. call.amount \in Amount
            BY <1>1, <2>3, EncodedParts
        <3>2. call.fn \notin {"selfRegister", "selfUpdate", "selfDeregister"}
            <4>1. CASE r.op \in PeerOps \cup {"redeem_ticket"}
                <5>1. call = ChannelsCall(r)
                    BY <4>1 DEF EncodedCall, PeerOps
                <5> QED
                    BY <4>1, <5>1 DEF ChannelsCall, Message, PeerOps
            <4>2. CASE r.op \in {"register_safe_by_node", "approve", "transfer_token"}
                <5>1. \/ call = Message("node_safe_registry", "registerSafeByNode", r.who, 0)
                      \/ call = Message("token", "approve", r.who, r.amount)
                      \/ call = Message("token", "transfer", r.who, r.amount)
                    BY <4>2 DEF EncodedCall, PeerOps
                <5> QED
                    BY <5>1 DEF Message
            <4>3. CASE r.op \in {"send_erc777", "announce", "deploy_safe"}
                <5>1. \E to, data : call = Send(to, r.amount, data)
                    BY <4>3 DEF EncodedCall, PeerOps
                <5> QED
                    BY <5>1, SendParts
            <4> QED
                BY <1>1, <2>3, <4>1, <4>2, <4>3, RequestType
                DEF Addressed, Valued, PeerOps, ServiceWrites
        <3> QED
            BY <3>1, <3>2 DEF Proper
    <2> QED
        BY <2>1, <2>2, <2>3
<1>2. ASSUME m = call, r.op # "deregister_node_by_safe"
      PROVE  Executed(m, g.me) = <<>> \/ \E c : Proper(c) /\ Executed(m, g.me) = <<c>>
    <2>1. CASE m.to # "module"
        BY <1>0, <1>1, <1>2, <2>1, ExecutedByNode
    <2>2. CASE m.to = "module"
        <3>1. r.op = "transfer_native"
            BY <1>2, <2>2, EncodedParts
        <3>2. m.body = <<>>
            BY <1>2, <3>1, NativeParsed, NativeParts
        <3> QED
            BY <2>2, <3>2 DEF Executed
    <2> QED
        BY <2>1, <2>2
<1>3. ASSUME m = ModuleExec(call), r.op # "deregister_node_by_safe"
      PROVE  \E c : Proper(c) /\ Executed(m, g.me) = <<c>>
    <2>1. call.fn # "multiSend"
        <3>1. CASE r.op = "transfer_native"
            BY <3>1, NativeParsed, NativeParts
        <3>2. CASE r.op # "transfer_native"
            BY <1>3, <3>2, EncodedParts DEF PeerOps
        <3> QED
            BY <3>1, <3>2
    <2>2. Executed(m, g.me) = <<[by |-> "safe", m |-> call]>>
        BY <1>3, <2>1, ExecutedBySafe
    <2> QED
        BY <1>0, <1>1, <1>3, <2>2
<1>4. ASSUME m = Message("module", "deregisterNodeBySafe", g.me, 0)
      PROVE  Executed(m, g.me) = <<>>
    BY <1>4 DEF Message, Executed
<1>5. ASSUME r.op \in ServiceWrites, m = MultiSend(Append(Approval(r.amount), ServiceCall(g, r.op)))
      PROVE  \/ \E c : Proper(c) /\ Executed(m, g.me) = <<c>>
             \/ \E c, d : Proper(c) /\ Proper(d) /\ Executed(m, g.me) = <<c, d>>
    <2> DEFINE w == [by |-> "safe", m |-> ServiceCall(g, r.op)]
               a == [by |-> "safe", m |-> Message("token", "approve", "service_registry", r.amount)]
    <2>1. Executed(m, g.me) = IF r.amount = 0 THEN <<w>> ELSE <<a, w>>
        BY <1>0, <1>5, MultiSendExecuted
    <2>2. Proper(a)
        BY <1>0 DEF Proper, Message
    <2>3. Proper(w)
        <3>1. w.by = "safe" /\ w.m.who = g.me /\ w.m.fn # "approve"
            BY <1>5, WriteCalls DEF ServiceWrites
        <3> QED
            BY <1>0, <3>1 DEF Proper
    <2> HIDE DEF a, w
    <2> QED
        BY <2>1, <2>2, <2>3
<1> QED
    BY <1>2, <1>3, <1>4, <1>5, PayloadCases

\* The execution of a transaction folds Applied over at most two calls.
AppliedAll(base, calls) == FoldLeft(Applied, base, calls)

LEMMA NoneApplied ==
    ASSUME NEW base
    PROVE  AppliedAll(base, <<>>) = base
<1> HIDE DEF Applied
<1> DEFINE Def(g, s) == IF s = {} THEN base ELSE Applied(g[s \ {Max(s)}], <<>>[Max(s)])
           U == {{}}
           F == [s \in U |-> base]
           G == CHOOSE g : g = [s \in U |-> Def(g, s)]
<1>1. F = [s \in U |-> Def(F, s)]
    OBVIOUS
<1>2. G = [s \in U |-> Def(G, s)]
    <2> HIDE DEF Def, F, U
    <2> QED
        BY <1>1
<1>3. G[{}] = base
    <2> HIDE DEF G
    <2> QED
        BY <1>2
<1>4. SUBSET {} = U /\ DOMAIN <<>> = {}
    OBVIOUS
<1>5. AppliedAll(base, <<>>) = G[{}]
    <2> HIDE DEF U
    <2> QED
        BY <1>4 DEF AppliedAll, FoldLeft, MapThenFoldSet
<1> QED
    BY <1>3, <1>5

LEMMA OneApplied ==
    ASSUME NEW base, NEW c
    PROVE  AppliedAll(base, <<c>>) = Applied(base, c)
<1> HIDE DEF Applied
<1> DEFINE Def(g, s) == IF s = {} THEN base ELSE Applied(g[s \ {Max(s)}], <<c>>[Max(s)])
           U == {{}, {1}}
           F == [s \in U |-> IF s = {} THEN base ELSE Applied(base, c)]
           G == CHOOSE g : g = [s \in U |-> Def(g, s)]
<1>1. Max({1}) = 1
    BY DEF Max
<1>2. SUBSET {1} = U /\ DOMAIN <<c>> = {1} /\ <<c>>[1] = c /\ {1} \ {1} = {} /\ {1} # {}
    OBVIOUS
<1>3. F[{}] = Def(F, {}) /\ F[{1}] = Def(F, {1})
    BY <1>1, <1>2
<1>4. F = [s \in U |-> Def(F, s)]
    <2> HIDE DEF Def
    <2> QED
        BY <1>3
<1>5. G = [s \in U |-> Def(G, s)]
    <2> HIDE DEF Def, F, U
    <2> QED
        BY <1>4
<1>6. \A s \in U : G[s] = Def(G, s)
    <2> HIDE DEF G, Def
    <2> QED
        BY <1>5
<1>7. G[{1}] = Applied(base, c)
    <2> HIDE DEF G
    <2>1. G[{}] = base
        BY <1>6
    <2> QED
        BY <2>1, <1>1, <1>2, <1>6
<1>8. AppliedAll(base, <<c>>) = G[{1}]
    <2> HIDE DEF U
    <2> QED
        BY <1>2 DEF AppliedAll, FoldLeft, MapThenFoldSet
<1> QED
    BY <1>7, <1>8

LEMMA TwoApplied ==
    ASSUME NEW base, NEW c, NEW d, NEW s, s = Applied(base, c)
    PROVE  AppliedAll(base, <<c, d>>) = Applied(s, d)
<1> HIDE DEF Applied
<1> DEFINE Def(g, u) == IF u = {} THEN base ELSE Applied(g[u \ {Max(u)}], <<c, d>>[Max(u)])
           U == {{}, {1}, {2}, {1, 2}}
           F == [u \in U |-> IF u = {} THEN base
                             ELSE IF u = {1} THEN Applied(base, c)
                             ELSE IF u = {2} THEN Applied(base, d)
                             ELSE Applied(Applied(base, c), d)]
           G == CHOOSE g : g = [u \in U |-> Def(g, u)]
<1>1. Max({1}) = 1 /\ Max({2}) = 2 /\ Max({1, 2}) = 2
    BY DEF Max
<1>2. SUBSET {1, 2} = U
    OBVIOUS
<1>3. DOMAIN <<c, d>> = {1, 2} /\ <<c, d>>[1] = c /\ <<c, d>>[2] = d
    OBVIOUS
<1>4. /\ {1} \ {1} = {} /\ {2} \ {2} = {} /\ {1, 2} \ {2} = {1}
      /\ {1} # {} /\ {2} # {} /\ {1, 2} # {} /\ {1} # {2} /\ {1, 2} # {2} /\ {1, 2} # {1}
    OBVIOUS
<1>5. \A u \in U : F[u] = Def(F, u)
    <2>1. F[{}] = Def(F, {})
        OBVIOUS
    <2>2. F[{1}] = Def(F, {1})
        BY <1>1, <1>3, <1>4
    <2>3. F[{2}] = Def(F, {2})
        BY <1>1, <1>3, <1>4
    <2>4. F[{1, 2}] = Def(F, {1, 2})
        BY <1>1, <1>3, <1>4
    <2> QED
        BY <2>1, <2>2, <2>3, <2>4
<1>6. F = [u \in U |-> Def(F, u)]
    <2> HIDE DEF Def
    <2> QED
        BY <1>5
<1>7. G = [u \in U |-> Def(G, u)]
    <2> HIDE DEF Def, F, U
    <2> QED
        BY <1>6
<1>8. \A u \in U : G[u] = Def(G, u)
    <2> HIDE DEF G, Def
    <2> QED
        BY <1>7
<1>9. G[{1, 2}] = Applied(Applied(base, c), d)
    <2> HIDE DEF G
    <2>1. G[{}] = base
        BY <1>8
    <2>2. G[{1}] = Applied(base, c)
        BY <2>1, <1>1, <1>3, <1>4, <1>8
    <2> QED
        BY <2>2, <1>1, <1>3, <1>4, <1>8
<1>10. AppliedAll(base, <<c, d>>) = G[{1, 2}]
    <2> HIDE DEF U
    <2> QED
        BY <1>2, <1>3 DEF AppliedAll, FoldLeft, MapThenFoldSet
<1> QED
    BY <1>9, <1>10

LEMMA PriceIsBurn ==
    ASSUME price \in [register: Price, update: Price]
    PROVE  /\ price.register \in Amount /\ price.register \in Int
           /\ price.update \in Amount /\ price.update \in Int
<1>1. price.register \in Amount /\ price.update \in Amount
    BY PayloadAssumption
<1> QED
    BY <1>1, PayloadAssumption DEF Amount

\* What the calls of a transaction have come to.
Progress == [allowance: [Account -> Amount], registered: SUBSET Node, spent: Int, ok: BOOLEAN]

LEMMA AppliedType ==
    ASSUME price \in [register: Price, update: Price], NEW s \in Progress, NEW call, Proper(call)
    PROVE  Applied(s, call) \in Progress
<1>1. s.allowance \in [Account -> Amount] /\ s.registered \subseteq Node /\ s.spent \in Int
    BY DEF Progress
<1>2. call.by \in Account /\ s.allowance[call.by] \in Amount
    BY <1>1 DEF Proper
<1>3. price.register \in Amount /\ price.update \in Amount
    BY PriceIsBurn
<1>4. ASSUME NEW burn \in Amount, s.allowance[call.by] >= burn, call.m.who \in Node
      PROVE  Charged(s, call.by, call.m.who, burn) \in Progress
    <2>1. s.allowance[call.by] - burn \in Amount /\ burn \in Int
        BY <1>2, <1>4, PayloadAssumption DEF Amount
    <2>2. [s.allowance EXCEPT ![call.by] = @ - burn] \in [Account -> Amount]
        BY <1>1, <1>2, <2>1
    <2>3. s.registered \cup {call.m.who} \subseteq Node /\ s.spent + burn \in Int
        BY <1>1, <1>4, <2>1
    <2>4. Charged(s, call.by, call.m.who, burn) =
             [allowance |-> [s.allowance EXCEPT ![call.by] = @ - burn],
              registered |-> s.registered \cup {call.m.who}, spent |-> s.spent + burn, ok |-> s.ok]
        <3> DEFINE a == [s.allowance EXCEPT ![call.by] = @ - burn]
        <3>1. Charged(s, call.by, call.m.who, burn) =
                 [s EXCEPT !.allowance = a, !.spent = s.spent + burn,
                           !.registered = s.registered \cup {call.m.who}]
            BY DEF Charged
        <3>2. s = [allowance |-> s.allowance, registered |-> s.registered, spent |-> s.spent, ok |-> s.ok]
            BY DEF Progress
        <3> HIDE DEF a
        <3> QED
            BY <3>1, <3>2 DEF a
    <2> QED
        BY <2>2, <2>3, <2>4 DEF Progress
<1>5. Failed(s) \in Progress
    BY DEF Failed, Progress
<1>6. ASSUME call.m.fn = "approve"
      PROVE  [s EXCEPT !.allowance[call.by] = call.m.amount] \in Progress
    BY <1>1, <1>2, <1>6 DEF Proper, Progress
<1>7. [s EXCEPT !.registered = @ \ {call.m.who}] \in Progress
    BY <1>1 DEF Progress
<1>8. CASE call.m.fn = "selfRegister"
    BY <1>3, <1>4, <1>5, <1>8 DEF Applied, Proper
<1>9. CASE call.m.fn = "selfUpdate"
    BY <1>3, <1>4, <1>5, <1>9 DEF Applied, Proper
<1>10. CASE call.m.fn = "selfDeregister"
    BY <1>5, <1>7, <1>10 DEF Applied
<1>11. CASE call.m.fn \notin {"selfRegister", "selfUpdate", "selfDeregister"}
    BY <1>6, <1>11 DEF Applied
<1> QED
    BY <1>8, <1>9, <1>10, <1>11

LEMMA OutcomeType ==
    ASSUME price \in [register: Price, update: Price], allowance \in [Account -> Amount],
           registered \subseteq Node,
           NEW g \in Generator, NEW r \in Request, NEW m \in Payloads(g, r)
    PROVE  Outcome(m, g.me) \in Progress
<1> DEFINE base == [allowance |-> allowance, registered |-> registered, spent |-> 0, ok |-> TRUE]
<1>1. base \in Progress
    BY DEF Progress
<1> HIDE DEF base
<1>2. Outcome(m, g.me) = AppliedAll(base, Executed(m, g.me))
    BY DEF Outcome, AppliedAll, base
<1>3. CASE Executed(m, g.me) = <<>>
    BY <1>1, <1>2, <1>3, NoneApplied
<1>4. ASSUME NEW c, Proper(c), Executed(m, g.me) = <<c>>
      PROVE  Outcome(m, g.me) \in Progress
    <2>1. Outcome(m, g.me) = Applied(base, c)
        BY <1>2, <1>4, OneApplied
    <2> QED
        BY <1>1, <1>4, <2>1, AppliedType
<1>5. ASSUME NEW c, NEW d, Proper(c), Proper(d), Executed(m, g.me) = <<c, d>>
      PROVE  Outcome(m, g.me) \in Progress
    <2> DEFINE s == Applied(base, c)
    <2>1. s \in Progress
        BY <1>1, <1>5, AppliedType
    <2>2. s = Applied(base, c)
        OBVIOUS
    <2> HIDE DEF s
    <2>3. Applied(s, d) \in Progress
        BY <1>5, <2>1, AppliedType
    <2> QED
        BY <1>2, <1>5, <2>2, <2>3, TwoApplied
<1> QED
    BY <1>3, <1>4, <1>5, TransactionCalls

\* A write that comes with a burn executes the approval of that burn first,
\* so that it fails or takes no more.
LEMMA PaidWrite ==
    ASSUME price \in [register: Price, update: Price], allowance \in [Account -> Amount],
           registered \subseteq Node,
           NEW g \in Generator, NEW r \in Request, NEW m \in Payloads(g, r),
           r.op \in ServiceWrites, r.amount > 0
    PROVE  LET result == Outcome(m, g.me)
           IN  (IF result.ok THEN result.spent ELSE 0) <= r.amount
<1> DEFINE base == [allowance |-> allowance, registered |-> registered, spent |-> 0, ok |-> TRUE]
           w == [by |-> "safe", m |-> ServiceCall(g, r.op)]
           a == [by |-> "safe", m |-> Message("token", "approve", "service_registry", r.amount)]
           approved == [allowance |-> [allowance EXCEPT !["safe"] = r.amount],
                        registered |-> registered, spent |-> 0, ok |-> TRUE]
           result == Outcome(m, g.me)
<1>1. r.amount \in Amount /\ r.amount \in Int /\ "safe" \in Account
    BY RequestType DEF Account
<1>2. m = MultiSend(Append(Approval(r.amount), ServiceCall(g, r.op)))
    BY PayloadCases DEF ServiceWrites
<1>3. Executed(m, g.me) = <<a, w>>
    BY <1>1, <1>2, MultiSendExecuted
<1>4. Applied(base, a) = approved
    <2>1. a.by = "safe" /\ a.m.fn = "approve" /\ a.m.who = "service_registry" /\ a.m.amount = r.amount
        BY DEF Message
    <2> HIDE DEF a
    <2> QED
        BY <1>1, <2>1 DEF Applied
<1>5. result = Applied(approved, w)
    <2> HIDE DEF a, w, approved
    <2>1. result = AppliedAll(base, <<a, w>>)
        BY <1>3 DEF Outcome, AppliedAll
    <2>2. approved = Applied(base, a)
        BY <1>4
    <2> HIDE DEF result, base
    <2>3. AppliedAll(base, <<a, w>>) = Applied(approved, w)
        BY <2>2, TwoApplied
    <2> QED
        BY <2>1, <2>3
<1>6. approved.allowance["safe"] = r.amount
    BY <1>1
<1>7. w.by = "safe" /\ w.m.fn = IF r.op = "register_service" THEN "selfRegister" ELSE "selfUpdate"
    BY WriteCalls DEF ServiceWrites
<1>8. \/ result = Failed(approved)
      \/ \E burn \in {price.register, price.update} :
            burn <= r.amount /\ result = Charged(approved, "safe", w.m.who, burn)
    <2>1. approved.ok = TRUE
        OBVIOUS
    <2>2. price.register \in Int /\ price.update \in Int
        BY PriceIsBurn
    <2> HIDE DEF w, approved, result
    <2>3. CASE r.op = "register_service"
        BY <1>1, <1>5, <1>6, <1>7, <2>1, <2>2, <2>3 DEF Applied
    <2>4. CASE r.op = "update_service"
        BY <1>1, <1>5, <1>6, <1>7, <2>1, <2>2, <2>4 DEF Applied
    <2> QED
        BY <2>3, <2>4 DEF ServiceWrites
<1>9. Failed(approved).ok = FALSE
    BY DEF Failed
<1>10. \A burn : Charged(approved, "safe", w.m.who, burn).spent = 0 + burn
    BY DEF Charged
<1>11. price.register \in Int /\ price.update \in Int
    BY PriceIsBurn
<1> HIDE DEF result, approved, w
<1>12. (IF result.ok THEN result.spent ELSE 0) <= r.amount
    BY <1>1, <1>8, <1>9, <1>10, <1>11
<1> QED
    BY <1>12 DEF result

-----------------------------------------------------------------------------
(* The specification                                                        *)

\* What is in flight was made by a generator from a request of its node, and
\* what was executed last is such a transaction, read and applied as a whole.
InFlight == pending \in Seq(Transaction) /\ Len(pending) <= MaxPending

Accounted ==
    /\ price \in [register: Price, update: Price]
    /\ allowance \in [Account -> Amount]
    /\ registered \subseteq Node

LastExecuted ==
    last # None =>
        \E g \in Generator, r \in Request : \E m \in Payloads(g, r) :
            /\ last.generator = g /\ last.request = r
            /\ last.action = Parsed(m, g.me) /\ last.executed = Executed(m, g.me)
            /\ r.op \in ServiceWrites /\ r.amount > 0 => last.spent <= r.amount

IInv == InFlight /\ Accounted /\ LastExecuted

LEMMA InitIInv == Init => IInv
<1> SUFFICES ASSUME Init PROVE IInv
    OBVIOUS
<1>1. InFlight
    BY PayloadAssumption DEF Init, InFlight
<1>2. 0 \in Amount
    BY PayloadAssumption DEF Amount
<1> QED
    BY <1>1, <1>2 DEF Init, IInv, Accounted, LastExecuted

LEMMA SubmitIInv ==
    ASSUME IInv, NEW g \in Generator, NEW r \in Request, Submit(g, r)
    PROVE  IInv'
<1>1. PICK m \in Payloads(g, r) :
         pending' = Append(pending, [generator |-> g, request |-> r, message |-> m,
                                     atBurn |-> r.op \in ServiceWrites /\ r.amount = Burn(r.op)])
    BY DEF Submit
<1> DEFINE tx == [generator |-> g, request |-> r, message |-> m,
                  atBurn |-> r.op \in ServiceWrites /\ r.amount = Burn(r.op)]
<1>2. tx \in Transaction
    <2>1. m \in MessageSet
        BY DEF MessageSet
    <2> QED
        BY <2>1 DEF Transaction
<1>3. InFlight'
    <2> HIDE DEF tx
    <2>1. pending \in Seq(Transaction) /\ Len(pending) < MaxPending
        BY DEF IInv, InFlight, Submit
    <2>2. pending' = Append(pending, tx)
        BY <1>1 DEF tx
    <2> QED
        BY <1>2, <2>1, <2>2, PayloadAssumption DEF InFlight
<1>4. last' = None /\ UNCHANGED <<price, allowance, registered>>
    BY DEF Submit
<1> QED
    BY <1>3, <1>4 DEF IInv, Accounted, LastExecuted

LEMMA BurnChangedIInv ==
    ASSUME IInv, NEW kind \in {"register", "update"}, NEW burn \in Price, BurnChanged(kind, burn)
    PROVE  IInv'
<1>1. price' \in [register: Price, update: Price]
    BY DEF IInv, Accounted, BurnChanged
<1> QED
    BY <1>1 DEF IInv, InFlight, Accounted, LastExecuted, BurnChanged

LEMMA ExecuteIInv ==
    ASSUME IInv, Execute
    PROVE  IInv'
<1> DEFINE tx == Head(pending)
           signer == tx.generator.me
           result == Outcome(tx.message, signer)
<1>1. tx \in Transaction /\ InFlight'
    BY PayloadAssumption DEF IInv, InFlight, Execute
<1> HIDE DEF tx
<1>2. /\ tx.generator \in Generator /\ tx.request \in Request
      /\ tx.message \in Payloads(tx.generator, tx.request)
    BY <1>1 DEF Transaction
<1>3. PICK g \in Generator, r \in Request : tx.generator = g /\ tx.request = r
    BY <1>2
<1>4. PICK m \in Payloads(g, r) : tx.generator = g /\ tx.request = r /\ tx.message = m
    BY <1>2, <1>3
<1>5. result \in Progress
    BY <1>4, OutcomeType DEF IInv, Accounted
<1>6. r.op \in ServiceWrites /\ r.amount > 0 =>
         (IF result.ok THEN result.spent ELSE 0) <= r.amount
    BY <1>4, PaidWrite DEF IInv, Accounted
<1> HIDE DEF result
<1>7. last' = [generator |-> g, request |-> r, atBurn |-> tx.atBurn, action |-> Parsed(m, g.me),
               executed |-> Executed(m, g.me), spent |-> IF result.ok THEN result.spent ELSE 0]
    BY <1>4 DEF Execute, tx, result
<1>8. /\ allowance' = (IF result.ok THEN result.allowance ELSE allowance)
      /\ registered' = (IF result.ok THEN result.registered ELSE registered)
      /\ price' = price
    BY DEF Execute, tx, result
<1>9. Accounted'
    BY <1>5, <1>8 DEF IInv, Accounted, Progress
<1>10. LastExecuted'
    BY <1>6, <1>7 DEF LastExecuted
<1> QED
    BY <1>1, <1>9, <1>10 DEF IInv

LEMMA NextIInv == IInv /\ [Next]_vars => IInv'
<1> SUFFICES ASSUME IInv, [Next]_vars PROVE IInv'
    OBVIOUS
<1>1. ASSUME NEW g \in Generator, NEW r \in Request, Submit(g, r)
      PROVE  IInv'
    BY <1>1, SubmitIInv
<1>2. ASSUME NEW kind \in {"register", "update"}, NEW burn \in Price, BurnChanged(kind, burn)
      PROVE  IInv'
    BY <1>2, BurnChangedIInv
<1>3. CASE Execute
    BY <1>3, ExecuteIInv
<1>4. CASE UNCHANGED vars
    BY <1>4 DEF IInv, InFlight, Accounted, LastExecuted, vars
<1> QED
    BY <1>1, <1>2, <1>3, <1>4 DEF Next

THEOREM Inductive == Spec => []IInv
<1>1. Init => IInv
    BY InitIInv
<1>2. IInv /\ [Next]_vars => IInv'
    BY NextIInv
<1> QED
    BY <1>1, <1>2, PTL DEF Spec

\* But for the deployment of a Safe and a funding that is cut, what is parsed is what
\* was asked for, or an error where the parser has no action for it (chain/parser.rs,
\* both generators), for any accounts and amounts.
THEOREM OperationsAreReadBack == Spec => []ParsedIsRequested
<1>1. IInv => ParsedIsRequested
    <2>1. ASSUME NEW r \in Request, ~NotInverted(r)
          PROVE  r.op # "deploy_safe" /\ (r.op = "fund_channel" => r.amount < Uint96)
        BY <2>1, RequestType DEF NotInverted
    <2>2. ASSUME NEW g \in Generator, NEW r \in Request, NEW m \in Payloads(g, r), ~NotInverted(r)
          PROVE  Parsed(m, g.me) = IF Understood(g, r) THEN Wanted(g, r) ELSE ParseError
        BY <2>1, <2>2, TransactionParsed DEF Taken, ReadAs
    <2> QED
        BY <2>2 DEF IInv, LastExecuted, ParsedIsRequested
<1> QED
    BY <1>1, Inductive, PTL

\* The payer named by the parser is the account the chain debits, and the
\* transaction has nothing else executed.
THEOREM PayersAreDebited == Spec => []PayerIsDebited
<1>1. IInv => PayerIsDebited
    BY TransactionPayer DEF IInv, LastExecuted, PayerNamed, PayerIsDebited
<1> QED
    BY <1>1, Inductive, PTL

\* The approval bundled with a paid write bounds what the write takes.
THEOREM PaidWritesAreBounded == Spec => []PaidWriteSpendsItsBurn
<1>1. IInv => PaidWriteSpendsItsBurn
    BY DEF IInv, LastExecuted, PaidWriteSpendsItsBurn
<1> QED
    BY <1>1, Inductive, PTL

\* The amount of a signed message fits the state's bound, and that of a
\* fundChannel call a uint96.
LEMMA TransactionAmount ==
    ASSUME NEW g \in Generator, NEW r \in Request, NEW m \in Payloads(g, r)
    PROVE  /\ m.amount \in Amount
           /\ m.fn = "fundChannel" => m.amount < Uint96
<1> DEFINE call == EncodedCall(g, r)
<1>0. 0 \in Amount
    BY PayloadAssumption DEF Amount
<1>1. ASSUME m = call, r.op # "deregister_node_by_safe"
      PROVE  m.amount \in Amount /\ (m.fn = "fundChannel" => m.amount < Uint96)
    <2>1. CASE r.op = "transfer_native"
        <3>1. call.fn = "none" /\ call.amount = 0
            BY <2>1, NativeParsed, NativeParts
        <3> QED
            BY <1>0, <1>1, <3>1
    <2>2. CASE r.op # "transfer_native"
        <3>1. call.amount \in Amount
            BY <1>1, <2>2, EncodedParts
        <3>2. CASE r.op = "fund_channel"
            <4>1. call.amount = r.amount % Uint96
                BY <3>2 DEF EncodedCall, ChannelsCall, PeerOps, Message, TruncatedWord
            <4>2. r.amount % Uint96 < Uint96
                BY RequestType, PayloadAssumption
            <4> QED
                BY <1>1, <3>1, <4>1, <4>2
        <3>3. CASE r.op # "fund_channel"
            <4>1. call.fn # "fundChannel"
                <5>1. CASE r.op \in PeerOps \cup {"redeem_ticket"}
                    <6>1. call = ChannelsCall(r)
                        BY <5>1 DEF EncodedCall, PeerOps
                    <6> QED
                        BY <3>3, <5>1, <6>1 DEF ChannelsCall, Message, PeerOps
                <5>2. CASE r.op \in ServiceWrites \cup {"deregister_service"}
                    <6>1. call = ServiceCall(g, r.op)
                        BY <5>2 DEF EncodedCall, PeerOps, ServiceWrites
                    <6> QED
                        BY <5>2, <6>1, WriteCalls DEF ServiceWrites
                <5>3. CASE r.op \in {"register_safe_by_node", "approve", "transfer_token"}
                    <6>1. \/ call = Message("node_safe_registry", "registerSafeByNode", r.who, 0)
                          \/ call = Message("token", "approve", r.who, r.amount)
                          \/ call = Message("token", "transfer", r.who, r.amount)
                        BY <5>3 DEF EncodedCall, PeerOps
                    <6> QED
                        BY <6>1 DEF Message
                <5>4. CASE r.op \in {"send_erc777", "announce", "deploy_safe"}
                    <6>1. \E to, data : call = Send(to, r.amount, data)
                        BY <5>4 DEF EncodedCall, PeerOps
                    <6> QED
                        BY <6>1, SendParts
                <5> QED
                    BY <1>1, <2>2, <5>1, <5>2, <5>3, <5>4, RequestType
                    DEF Addressed, Valued, PeerOps, ServiceWrites
            <4> QED
                BY <1>1, <3>1, <4>1
        <3> QED
            BY <3>2, <3>3
    <2> QED
        BY <2>1, <2>2
<1>2. ASSUME NEW c, m = ModuleExec(c)
      PROVE  m.amount \in Amount /\ m.fn # "fundChannel"
    BY <1>0, <1>2, ModuleParts
<1>3. ASSUME NEW calls, m = MultiSend(calls)
      PROVE  m.amount \in Amount /\ m.fn # "fundChannel"
    BY <1>0, <1>3, MultiSendParts
<1>4. ASSUME m = Message("module", "deregisterNodeBySafe", g.me, 0)
      PROVE  m.amount \in Amount /\ m.fn # "fundChannel"
    BY <1>0, <1>4 DEF Message
<1> QED
    BY <1>1, <1>2, <1>3, <1>4, PayloadCases

\* The shape of the state: the chain takes no account below zero or beyond
\* the amounts asked for.
THEOREM TypeCorrect == Spec => []TypeOK
<1>1. IInv => TypeOK
    <2> SUFFICES ASSUME IInv PROVE TypeOK
        OBVIOUS
    <2>1. ASSUME NEW i \in DOMAIN pending
          PROVE  /\ pending[i].generator \in Generator /\ pending[i].request \in Request
                 /\ pending[i].atBurn \in BOOLEAN
                 /\ pending[i].message.amount \in Amount
                 /\ pending[i].message.fn = "fundChannel" => pending[i].message.amount < Uint96
        <3>1. pending[i] \in Transaction
            BY <2>1 DEF IInv, InFlight
        <3>2. /\ pending[i].generator \in Generator /\ pending[i].request \in Request
              /\ pending[i].message \in Payloads(pending[i].generator, pending[i].request)
              /\ pending[i].atBurn \in BOOLEAN
            BY <3>1 DEF Transaction
        <3> QED
            BY <3>2, TransactionAmount
    <2> QED
        BY <2>1 DEF IInv, InFlight, Accounted, TypeOK
<1> QED
    BY <1>1, Inductive, PTL
=============================================================================
