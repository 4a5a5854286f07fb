# A formal model of hopr-types

`hopr-types` is the crate of data types that a HOPR node is built from: tickets,
channels, acknowledgements, paths, on-chain transactions, keys, metrics. Most of it
has no thread of its own. What can go wrong is what happens to its values over many
calls, by many callers: conversions in an order nobody tried, a check that is made
once and relied upon later, a file that two processes write, an atomic that several
threads update, a resolver that changes while it is asked.

This directory holds TLA+ modules for the parts where that matters, TLC
configurations that check them on small instances, and proofs for TLAPS. Paths below
are relative to the crate's `src/`.

## 1. Inventory

### Components that are modelled

| Component | State | Operations | Module |
|---|---|---|---|
| Tickets (`internal/tickets.rs`, part of `crypto/types.rs`, `crypto/vrf.rs`, `crypto/signing.rs`) | values of six types, all `Copy` | build, sign, verify, leak, serialize and parse, acknowledge, redeem, transfer and back | `Tickets` |
| Identity keystore (`keypair/key_pair.rs`, `keypair/keystore.rs`) | the file at `id_path`, the keys of each process | `HoprKeys::init` with reading, migration and writing | `Keystore` |
| Gauges (`telemetry/metrics.rs`, `telemetry/guard.rs`) | exported counter, shadow value per label, lock | increment, decrement, set, guard creation and drop | `Gauge`, `AtomicGauge` |
| Path validation (`internal/path.rs`) | the hops resolved so far; the resolver's view of the chain | `ValidatedPath::new` | `PathValidation` |
| Acknowledgement batches (`internal/protocol.rs`, `crypto/signing.rs`) | stored keys and optimistic results, memo of points | `verify`, `verify_batch` | `AckBatch` |
| Channel entries (`internal/channels.rs`) | a node's copy of an on-chain channel | `diff_channels`, comparison, closure times | `Channel` |
| Metric state, counters, histograms (`telemetry/metrics.rs`) | the provider, the list of prefix providers under its lock, instruments, timers | set, register, create, increment, observe, measure | `Metrics` |
| Service registry types (`internal/service.rs`, part of `chain/chain_events.rs`) | a node's copy of the registry | conversions of logs to events and entries | `Services` |
| Winning probabilities (`internal/tickets.rs`, part of `primitive/primitives.rs`) | none | conversions, comparison, products and quotients | `WinProb` |
| Balances (`primitive/balance.rs`) | none | arithmetic, printing, parsing | `Amounts` |
| Bounded sizes, routes, sender ids (`primitive/bounded.rs`, `internal/routing.rs`) | none | construction, narrowing, inversion, sequences | `Routing` |
| Lioness (`crypto/lioness.rs`) | the buffers of a call | `encrypt_block`, `decrypt_block` | `Lioness` |
| Verifiable random function (`crypto/vrf.rs`) | none | derive, verify, witnesses, encoding | `Vrf` |
| BN254 keys and scan identities (`crypto/types.rs`, `crypto/keypairs.rs`, `crypto/curvy.rs`) | none | parsing, compression, both orders of bytes | `Bn254` |
| Peer ids, bindings, announcements, names (`crypto/types.rs`, `internal/announcement.rs`, `internal/account.rs`, `internal/service.rs`) | none | conversions and their checks | `Identities` |
| Payloads and parser (`chain/payload/*`, `chain/parser.rs`) | signed transactions; burns, allowances and entries of the service registry | the operations of both generators, `parse_from_eip2718` | `Payload` |

How they interact: the modules share no state in the code, and none in the model. A
`Ticket` names a channel epoch and index of `Channel`, a redeemed ticket becomes the
`redeem_ticket` operation of `Payload`, an `Acknowledgement` verified by `AckBatch`
carries the half key that `Tickets` is acknowledged with, the luck of a ticket is made of
the V of `Vrf` and compared as in `WinProb`, and the keys that `Keystore` keeps sign all
of them. Each crossing is one value that is passed by copy.
In the repository itself nothing connects them; the nodes that do are elsewhere. So
there is one specification per component, and a composition where the code has
one: `Gauge` composes gauges, their guards and the lock, `AckBatch` the two coupled
halves of the batch check, and `Services` the events with the node that follows them.

Where the difficulty of each lies, and what makes it correct:

* **Tickets.** The checks are spread over the conversions: limits in the builder,
  widths in the encoding, signature in `verify`, challenge in `acknowledge`, win and
  loopback in `into_redeemable`. After each, later types rely on it. Correct is: a
  verified ticket was issued, exactly so, by its issuer; a response stays a solution;
  a redeemable ticket is a win of another node than the issuer; a transfer loses no
  win and takes none for another network. A transferable ticket that another party
  sends brings what the sender chose, and only part of it is checked again.
* **Keystore.** Look, read, truncate, write are separate calls of the file system, by
  processes that may overlap and be killed. Correct is: one identity, stored before it
  is used; an existing key never lost to a migration race; an unreadable file never
  replaced. All of it ends where a look at the file fails: the code takes that for the
  absence of the file.
* **Gauges.** One operation updates two atomics, one of them by a compare-and-swap
  loop, and creates its entry under a lock. Correct is: linearizable, no update lost,
  the exported value and the shadow agree, every call returns.
* **Path validation.** Each hop is awaited twice or three times while the chain moves.
  Correct is: on a chain that stands still the valid paths and no others; on one that
  moves, no loop and nothing that was never true.
* **Acknowledgement batches.** The early return of the lazy signature check decides
  how many entries the caller gets an answer for. Correct is: the batch answers what
  the single checks would.
* **Channels.** The comparison of closure times is approximate and the copy is kept by
  differences. Correct is: no change is lost, and the error does not add up.
* **Payloads.** Sixteen operations, two generators, one parser that works from the
  bytes. Correct is: what is read back is what was asked for, paid by who is named as
  the payer, and a service write spends no more than its burn.
* **Metric state.** Whoever comes first sets the provider, and an instrument keeps what
  it found at its creation. Correct is: the longest prefix binds whatever the order of
  registration, a provider that was accepted gets everything, and counts and exports
  agree.
* **Service registry.** An update does not say when its entry was registered. Correct is:
  a node that has seen all logs has the registry, and one that began late has no time
  that is before the true one.
* **Pure functions.** Floats, saturation, encodings and buffers: no state, but values at
  the edges that nobody tried. Correct is: conversions agree with each other both ways.

### Components that are not modelled

* `network/*`, `crypto_random`: text forms and calls of a generator, without behaviour
  over time. Sealing of hosts is not implemented in the repository.
* Addresses, key identifiers, logs and the traits of byte conversion in `primitive/`.
* `chain/chain_events.rs` beyond the service registry: events that carry channel
  entries, accounts and balances unchanged. The indexer that orders them is elsewhere.
* Text forms and accessors of accounts and routing options.
* Hashes, stream ciphers, signatures and the arithmetic of the real curves: they are
  ideal, external or any functions in the modules that need them. Curvy spend keys are
  opaque.

## 2. The modules

Every model keeps the control of the code and abstracts its data. A conversion that
returns an error is a step that is not enabled, or that ends the computation where
the code ends it. Operators that begin with the comment "A slip" are plausible
mistakes, used by nothing in the specification; exchanged for the definition they
follow, each of them makes TLC refute one property.

### Tickets

The six ticket types are `Copy`, so any value may be converted again, by any task, in
any order. The state is the set of values of each type that exist anywhere, which only
grows, plus two histories: `issued`, what was given to `sign()`, and `received`, the
transferable tickets of another party that were accepted. There is one action per
conversion:

| Action | Code |
|---|---|
| `Build`, `BuildSigned`, `BuildVerified` | `TicketBuilder::build`, `build_signed`, `build_verified` |
| `SendReceive` | the encoding of a ticket and `TryFrom<&[u8]>` |
| `Sign`, `Verify`, `Leak` | `Ticket::sign`, `Ticket::verify`, `VerifiedTicket::leak` |
| `IntoUnacknowledged`, `IntoAcknowledged`, `Acknowledge` | the methods of these names |
| `StartRedeeming` | the public field `status` |
| `AckIntoRedeemable`, `AckIntoTransferable` | `into_redeemable`, `into_transferable` |
| `RedeemableIntoTransferable`, `RedeemableIntoAcknowledged`, `TransferableIntoRedeemable` | the `From` implementations and `TransferableWinningTicket::into_redeemable` |
| `ReceiveRedeemable` | `TransferableWinningTicket::into_redeemable` on a value that came from another party |

A hash is the record of what was hashed, after the fields were cut to their width on
the wire; a signature is its signer and hash, and one over another hash recovers to
nobody; the VRF output is a function of redeemer, message and separator. Half keys
stay scalars modulo the group order, because the sum of two valid ones may be zero.
The luck is a constant operator.

`build_verified` and `into_acknowledged` take a hash and a response on trust.
`TrustedCallers` says that callers keep that trust.

`TransferableWinningTicket` has public fields and is decoded by serde field by field, so
`ReceiveRedeemable` takes any: numbers beyond the limits of the builder (`IncomingTicket`,
type `DecodedTicket`), any response, VRF parameters that somebody made for any hash or that
nobody made (`IncomingVrf`), any signature that exists. `into_redeemable` checks the
expected issuer, the signature and the win; it compares the response with no challenge,
verifies no VRF parameters and makes no loopback check. The properties therefore
distinguish: `ResponseSolvesChallenge`, `RedeemableIsForeignWin` and the part of
`VerifiedIsIssued` about the width of the fields hold of everything except what
`received` brought, and say exactly what it brought; what a received ticket keeps is that
its issuer signed it and that it wins with the parameters it holds. `TransferExact` is
about the values that the conversions make, including those made of received ones; it is
not about the received values themselves, which are accepted or not. The other
serde types are taken to be restored as they were stored, on the same side, and the
expected issuer that the receiver passes is the signer (any other is refused).

### Keystore

One file and several processes. `Start` is the look at the file's metadata, `Read` and
`ReadFails` the reading with decryption and migration, `Truncate` and `Write` the two
halves of `fs::write`, `End` a crash or an error of reading or writing. An error of
`fs::metadata` is no error of `init`: `is_ok()` makes it the same as an absent file, and the
start draws keys and writes them over what is there (`IsOk`, with `answered` FALSE). Random
keys are numbers that were never drawn before. `overlapped` remembers whether a start ever
began while another was under way, `missed` whether the look at a file that is there ever
failed.

### Gauge and AtomicGauge

`AtomicGauge` states what callers rely on: each call takes effect once, at one moment
between its call and its return. `Gauge` is the code: `Export`, `Ensure`, `Insert`,
`Load`, `CasOk`, `CasFails`, `Swap`, `Settle`, `Return`, one step per access to
something shared. The read lock is held in the steps after `Ensure` and before
`Return`, and `Insert`, under the write lock, waits for its readers. A `SimpleGauge` is
a label whose entry is there from the start and takes no lock. `AbstractSpec` is
`AtomicGauge` under the mapping of `shadow` to its value, each call being applied when
its exchange or swap succeeds.

### PathValidation

`ResolveOrigin`, `ResolveHop`, `CheckChannel` and `ResolverFails` are the parts of
`ValidatedPath::new` between its awaits; `ChannelChanges` and `KeyChanges` change the
resolver's view in between. The histories `bound` and `opened` collect what was true
at any moment of the validation.

### AckBatch

`VerifyEach` is the way of small batches. `StartBatch`, `Pull` and `Check` are the
signature check, which pulls one entry at a time, `VerifyOne` and `Collect` the
individual checks after it, in any order, as rayon runs them.

### Channel

The contract (`Fund`, `Redeem`, `InitiateClosure`, `FinalizeClosure`) and the clock are
external. `Observe` is the node: it gets a report, made by `ChannelBuilder`, compares
it by `diff_channels` and applies the changes to its copy.

### Payload

`Submit` is an operation of a `BasicPayloadGenerator` or a `SafePayloadGenerator` and
the signature of its transaction; `Execute` is the chain and the parser;
`BurnChanged` is the owner of the service type. `atBurn` remembers of a service write
whether it was asked for with the burn then in force. The static and the alloy-backed
generators are one model, since `cross_verify.rs` compares them byte by byte. The
chain's effects are external. The contents of announcements, Curvy notes and Safe
deployments are kinds.

### Metrics

`InitWithProvider` and `GatherAllMetrics` touch the state that is set once;
`RegisterPrefixProvider` checks it and `Register` changes the list under its lock;
`Resolve` and `Find` are the two halves of `meter_for_metric`. An increment exports in one
step and counts in the next (`IncrementSimple`, `Count`). What a provider was told is
counted per series: provider, name and labels. `OwnTimers` says that callers return a
timer to a histogram of the name it came from; nothing in the code checks it. `Sorted` is the
stable sort by descending length.

### Services

The contract writes entries and emits logs; `ChainEvent` is the conversion of a log, with
`FromRegistered` and `FromUpdated`; `Follow` is a node that processes one, and keeps the
registration time it knows, as the doc of the conversion asks. `StartLate` begins behind
the first log.

### The modules of pure functions

They have no variables: operators for the functions, predicates for what the functions
promise each other, and constants small enough to evaluate them on everything.

* `WinProb`: a float of [0, 1] is an integer times a unit, with a mantissa of `Bits` bits
  and rounding to even where the code adds 1.0; a luck has the mantissa and four bits more.
* `Amounts`: an amount up to `MaxAmount`; a text is what the regular expression captures.
* `Routing`: bounds, the vector that truncates and the one that refuses, hashes of sender
  ids as tuples of what was hashed.
* `Lioness`: bits are sets, the two buffers of a call are one if it is in place, and each
  round reads the one the code reads.
* `Vrf`: an abstract group with the laws that the algorithm relies on, both builds of
  `derive_vrf_parameters`, and the draw as an argument.
* `Bn254`: a small curve of prime order, encodings as an `x` and the bit of a parity,
  secrets as digits in both orders.
* `Identities`: peer ids as a code and a digest, addresses as sequences of protocols.

### Compositions for TLC

`MCGauge`, `MCChannel` and `MCSequential` put modules that share nothing into one
instance: each behaviour runs one of them while the others wait. In `MCSequential` it
either verifies a batch or picks one sample and evaluates the predicates for it.

## 3. What is checked

| Run | Instance | What it shows |
|---|---|---|
| `Tickets` | 2 nodes, 2 separators, group of order 3, widths of one bit, indexes within and beyond the limit, 5 values, received tickets with every response and VRF parameters | `VerifiedIsIssued`, `TransferExact`, `ResponseSolvesChallenge`, `RedeemableIsForeignWin` |
| `TicketsReceived` | the same | finds `ResponseIsSolution` violated by a received ticket |
| `Keystore` | 3 processes, 2 passwords, 3 rounds of random keys, files of every format, none, a torn one | `OneIdentity`, `RunningIsDurable`, `CompleteFileStays` for starts that do not overlap; `ExistingKeysKept`, `DamagedFileIsNotReplaced` for all; each of them until a look at the metadata of an existing file fails |
| `KeystoreOverwrites` | 2 processes | finds `CompleteFileUntouched` violated by starts that overlap |
| `Telemetry` | 2 threads with 2 calls each on a simple and two labelled gauges, guards on one, fairness; or 2 threads, 3 providers, 3 names, prefixes of length 0 to 2, 2 instruments, 4 calls of which 2 use them | `ExportedIsShadow`, `AbstractSpec`, `GuardsBalance`: a quiet gauge reads the sum of the guards; `CallsReturn`: every call ends; `CustomFeedsAll`, `LongestPrefixBinds`, `ExportsAgree` |
| `Path` | 3 nodes, every path of up to 2 hops over keys and addresses and of 3 hops over either, 2 registries, every set of open channels, 1 change | `DecidesValidity`, `AcceptedIsLoopFree`, `AcceptedWasTrue` |
| `Sequential` | batches of up to 3 over two points and a key that is none, memo 1, minimum batch 2; one sample of each function: mantissas of 4 bits, amounts to 255 with 2 digits behind the point, texts of up to 4 digits, cipher blocks of 1 and 2 bits, a curve of 13 points, a group of order 5, addresses of up to 3 protocols, bounds of 3 | `ResultsAgree`, `PointsAnswered`; `ProbabilitiesAgree`, `AmountsAgree`, `CipherInverts`, `KeysAndProofsAgree`, `IdentitiesHold` |
| `AckBatchNotAPoint` | the same batches | finds `EveryEntryAnswered` violated |
| `Channel` | 5 ticks, 2 per second, 2 epochs, stake and index to 2; or a registry of one type, 2 nodes, metadata at and below the limit, 5 logs in 3 blocks | `CopyIsReport`, `EarlyByLessThanASecond`, `ClosureTimesAgree`; `MirrorAgrees` |
| `Payload` | 2 nodes, all 16 operations, addresses of nodes, of the module and of contracts, amounts to 2, 1 transaction pending | `ParsedIsRequested` (without the deployment of a Safe and a funding above a uint96), `PayerIsDebited`, `PaidWriteSpendsItsBurn` |
| `PayloadFreeWrite` | service writes and approvals, 2 pending | finds `WriteSpendsItsBurn` violated by a write that was built at the burn then in force |
| `MulF64` | the samples of `Sequential` | finds `ProductsNotLess` violated |

Each passing run also checks the `TypeOK` of the module it is named for, `Telemetry` that
of `Gauge` and `Sequential` that of `AckBatch`.

### Why the bounds are enough

* *Tickets.* Five values reach the longest chains of conversions that differ: signed,
  acknowledged, transferable, redeemable again, acknowledged again; a reception counts
  two, so that what was received goes on through two conversions. Order 3 is the
  smallest group where two valid half keys can cancel out. An index of 2 exceeds both
  the limit and the width, so that a limit off by one shows. With probability 0 of a
  luck in 0 .. 1 tickets win and lose. The proofs carry the result to all constants.
* *Keystore.* A third process can come between two that overlap; three rounds of keys
  let each process draw once. What holds is proved for any number.
* *Gauge.* Losing an update takes two threads. With set, add, subtract and guards in one
  instance every pair of operations meets. Refinement and the agreement of exported value
  and shadow are proved for any number of threads and calls.
* *Metrics.* Three prefixes of one another registered in any order, of which one is empty
  and refused; two instruments are enough for one made before and one after a
  registration, two uses for one that is overtaken.
* *Services.* Five logs hold a registration, two updates, a removal and a second
  registration; three blocks tell the time of each from the next.
* *Samples.* Where a function is an induction over its input (a sum, a text, a sequence)
  three or four parts reach every boundary; where it is arithmetic, all values of a small
  width are tried, so that rounding, carry and overflow occur in every combination.
* *Path.* With three hops a loop need not be adjacent and a channel between two hops
  need not be the first; one change may fall between any two awaits.
* *AckBatch.* Memo 1 and batch 2 replace 8 and 4: two keys are enough to find the memo
  full, three entries to have some before and some behind a bad key.
* *Channel.* Two ticks per second make "within a second" neither equality nor
  everything; the grace period is longer than a second and the clock reaches the end
  of a closure that was announced twice.
* *Payload.* Amounts 0, 1 and 2 are none, the most a funding may have, and the first
  that a uint96 cannot hold. One pending transaction is enough for a burn to change
  between its building and its execution; what is left in an allowance is state.

`CHECK_DEADLOCK FALSE` stands in the runs whose behaviours end: every call was made
(`MaxCalls`, `MaxValues`, `MaxFresh`), the clock ran out, or the computation returned
its result. `Payload` has no such end and is checked for deadlock.

### Fairness

Only `CallsReturn` needs it. `FairSpec` of `Gauge`, repeated in `TelemetrySpec`, is weak fairness of the next step of
each thread that is inside a call (the scheduler runs every thread) and strong
fairness of `CasOk` (`compare_exchange_weak` may fail spuriously, but does not do so
for ever on a value that keeps standing still). Nothing is assumed of idle threads.
That no thread retries for ever rests on the bound of calls: with others that never
stop to call, the loop is lock-free and not wait-free.

## 4. What is proved

The theorems hold for every value of the constants that satisfies the assumptions
named in the modules.

**`Tickets_proofs`.** `TypeCorrect`: no conversion leaves its types. A hash determines the
issuer, the separator and the ticket up to the digits that the encoding cuts off
(`HashBinds`), and of a ticket within the limits it cuts none (`EncodedFits`). `GenuineInv`
strengthens `VerifiedIsIssued` with what tickets and transferable tickets have to satisfy:
a signature that exists was made by `sign()` over these fields, and digits beyond the
widths were received (`Traced`). It gives `TicketsAreGenuine`. `WinInv`
adds that what became transferable is a win under the hash of its signature, with VRF
parameters of a node other than the issuer or received ones (`VrfTraced`):
`WinsAreForeign` and, with `HashBinds`, `TransfersAreExact`. `ResponsesSolve` is
inductive given the types: each response solves the challenge it travels with or was
received with its ticket. All but the first assume `TrustedCallers`; without it the
first to fail is `VerifiedIsIssued`, by a hash that is not the ticket's.

**`Keystore_proofs`.** All but the types is about behaviours in which no look at an existing
file failed (`~missed`). `KeptInv` is `ExistingKeysKept` with "a file that was there
never becomes absent"; without the second half a start could draw a new chain key with a
look that succeeded.
`ExistingKeysSurvive` follows for any processes, overlapping or not, and so does
`DamagedFilesStay`, which the types alone are enough for. `ExclusiveInv`
says that as long as no starts overlapped at most one is under way, that it writes only
over what is not a complete file, and that whatever was returned is what the file
holds. It gives `StartsAgree`, `RunningKeysAreStored` and `CompleteFilesStay`.

**`Gauge_proofs`.** `Inv`: types, the entry of a label exists from `Ensure` or `Insert`
on, and a step fits the kind of its operation. Under it each step of the code is a
step of `AtomicGauge` or a stutter (`StepRefines`), which gives
`ImplementsAtomicGauge`. For `NothingIsLost` the exported value of a label has to differ
from its shadow by what the threads inside a call still owe it, a sum over all threads.
A sum over a finite set is a function on its subsets that obeys the recursion (`Adds`);
a first section shows that it exists, does not depend on the order and changes with one
summand (`SumsAgree`, `SumsExist`, `SumMoves`). In a quiet state every debt is zero.
`GInv` does the same for the guards: the shadow of a label is the sum of what the guards
that are held claim and of what operations under way have still to apply, which gives
`GuardsAddUp`.

The same module proves what `Metrics` promises. `MetricInv` relates the list of prefix
providers to what was accepted (no prefix twice, longest first, the last provider of
each) and the state to the instruments and to those being made. `SortedList` and
`Registers` show that registration keeps the list so, `ChosenIsExpected` that the first
hit in such a list is the longest prefix; `FeedsCustom` and `PrefixesBind` follow.
`ExportInv` adds that a counter's series is the sum of the shadows behind it and the
number of increments that have exported and not counted: `ExportsAddUp`.

**`Channel_proofs`.** `IInv` adds to the types that the copy equals the last report in the
sense of `EntryEq` (`CopyIsReport`), that this report is one of the state it was made of,
and that a closure is at most a notice period ahead of the clock. Because every diff is
made against the report itself, and the report is of the channel to less than a second,
the distance does not grow with the number of reports: `CopiesAreAlmostOnTime`, and with
it `CopiesFollow` and `ClosureIsOneQuestion`.

**`Payload_proofs`.** `Inductive` gives each pending transaction the message that its
generator makes of its request at some burn, and the last result the request it came
from. The messages are compared case by case with what the parser reads
(`OperationsAreReadBack`, where `ReadAs` adds the one operation that is read as
another), with the account the chain debits (`PayersAreDebited`) and with
the allowance: the approval that a paid write bundles replaces whatever was left, so that
its registry call can spend no more (`PaidWritesAreBounded`).

**`Services_proofs`.** The invariant says of every beginning of the log what the
registry was after it, and of the copy that it is what the logs between `start` and `read`
make of nothing. The registration time a node keeps is the one of the entry or, if it never
saw it, the time of an update, which is later: `CopiesAgree`.

**`PathValidation_proofs`.** The hops accepted so far are a valid beginning (`LoopFree`,
`WasTrue`), the ticket issuer is the hop before the next one (`Shape`), and while nothing
changed every refusal names a part of `Valid` that fails (`Still`). From these come
`ValidationDecides`, `AcceptedPathsAreLoopFree` and `AcceptedPathsWereTrue`.

**`Sequential_proofs`.** For `AckBatch` the invariant follows the two sides that the
iterator couples: what is stored is the part of the batch that was pulled (`Stored`), a
check that still says yes has verified every stored entry (`Checked`), and the results that
are no longer to do are right (`Individual`). It gives `BatchesAgree` and
`BatchesOfPointsAreAnswered`. For `Lioness` both directions are reduced to one pure form
(`Rounds`, `RoundsBack`), whatever buffer is read; what is left is four times the fact that
adding a mask twice changes nothing. `CipherIsPermutation` holds for every key stream and
digest, and `CiphersInvert` says so of the samples. For `Vrf`, on each of the two bases the
verifier subtracts from the response what the challenge added to the commitment (`Opens`),
so that it hashes what the prover hashed. `DerivedVrfVerifies` holds for every group with
the named laws and any hash functions. `IdentitiesAreRead` compares what is written with
what is read: a peer id is a prefix and a key of known size, so cutting off the one leaves
the other (`PeerIdsRead`); an announcement takes off only the last protocol and only if it
is the binding's own (`AnnouncementsHold`); the text of a name ends at its last byte that is
not zero (`LastNonZero`, `NamesHold`); a reversed route within the bound fills it no further
(`RoutesHold`); and no two members of a sequence of ids were hashed from the same number and
predecessor (`SenderIdsHold`).

`ProbabilitiesAreKept` is for any number of bits and any `Epsilon` that `FloatAssumption`
allows. Adding 1.0 rounds a float to one of its two neighbours (`Neighbours`), by at most
one unit of precision (`RoundedNear`) and without changing the order (`RoundedMonotone`); a
float that is snapped to neither bound keeps that mantissa in its luck (`Unsnapped`), so that
it is back within `Epsilon` (`ProbabilitiesKept`). What `as_f64` says of any luck is a
multiple `k` of the unit with `16k` just below the lucks that win (`Told`); `WinsHold`,
`ComparisonsHold` and `QuotientsHold` follow from it.

`KeysAreTold` is for any field without zero divisors, any curve over it without a point of
`y = 0`, any base and any length of a secret. Two roots of one square are equal or add up to
the modulus (`Roots`), and as that is odd they differ in parity (`Negation`): the parity bit
finds the one that was compressed, whichever root the decompression computed
(`RootOfParity`, `Decompressed`, `Compressed`). A secret is the digits of a number
(`NumberRecursion`, `NumberTellsSecret`), so that two secrets of one key, which are below
the order, are one (`KeyTellsSecret`).

`AmountsAreKept` is for any largest amount and scale. A sum that saturates at every step is
the exact sum, saturated once (`SumIsExact`), and the exact sum depends neither on the
direction (`SumFromBehind`) nor on where a part is taken out (`SumWithout`). An amount is its
whole units continued by the digits of its fraction (`DigitsOf`), and trimming those takes
off zeros that parsing puts back (`TrimmedFills`): `PrintedHold`. For `ParsedNotMore` a
number grows by a power of ten with the digits that continue it, and by no more only if they
are zeros (`Grows`). `TextsHold` is for texts with at most `LongestFraction` digits behind
the point, which is also what TLC samples; the argument needs only that this is a
number, up to which `AmountAssumption` speaks of the powers of ten.

All these are about any argument of their types; `Sampled`, which says that a sample has
them, carries them to the states of `SequentialSpec`.

**Induction.** The induction theorems of the library take an operator and cannot be
used, but the fact that they rest on can: `LeastNat` and `NoDescent` of `Gauge_proofs` say
that a non-empty set of numbers, or of finite sets, has a least member, and an induction is
a proof that the set of counterexamples has none. `Upwards` of `Sequential_proofs` is the
usual form of it for numbers. The folds of the community modules are solutions of a
recursion over the subsets of a set that is not known to have one: `FoldExists` builds it
by their size, `LeftFoldExists` and `NumberRecursion` use it for folds from either end, and
`Along` numbers its values by position, after which `Upwards` applies.

**Assumptions beyond the models' own.** `NodeAssumption` and `OperationAssumption` of
`Payload`, `FollowAssumption` of `MCChannel` and `MetricAssumption` of `MCGauge` say that
`None` is no value of the kinds it stands beside and that names are what they are; the code
has an `Option` there. `RouteAssumption` and `IdentityAssumption` of `MCSequential` say the
same of its refusals (`Err` in the code), that packet keys have one size, and that the byte
a name is padded with is not one that a name may hold (`is_ascii_graphic` excludes zero).
`FieldAssumption` of `Bn254` says that the modulus is a prime, by what a proof can use of
it, and that no point is its own negation (the group has an odd order); `SecretAssumption`
and parts of `AmountAssumption` say again that errors are no values. `PowersAssumption` of
`WinProb` and the other parts of `AmountAssumption` state that powers of two and ten are
positive numbers, and that each power of ten is ten times the one before: the provers do not
know what `^` means.

**Only model-checked:** `CallsReturn`, since liveness is beyond the prover. Every invariant
and every action property of the passing runs is a theorem.

## 5. Where code and documentation disagree

Five disagreements are shown by runs:

* `AckBatchNotAPoint`: `OffchainSignature::verify_batch` returns at the first key that
  is not a point, before it pulled the rest, and `Acknowledgement::verify_batch`
  answers for what was pulled. Valid acknowledgements behind it get no result.
* `TicketsReceived`: `into_redeemable` takes the response of a `TransferableWinningTicket`
  as it was sent. A ticket with a response that does not solve its challenge, but wins,
  becomes a `RedeemableTicket`, whose doc calls the response the solution
  (`internal/tickets.rs:1121`).
* `KeystoreOverwrites`: the file is looked for first and later created with truncation.
  Two starts at once leave one of them running with keys that are not stored. (The run
  leaves out that a failed look alone has the same effect, see below.)
* `PayloadFreeWrite`: a service write with a burn of zero bundles no approval. Built by a
  Safe generator while the burn is zero, and executed after the burn was raised, it spends
  an allowance that is left, although the doc of `register_service` says that the caller is
  protected against a concurrent increase.
* `MulF64`: the product of an amount with one of the two floats next below 1 is zero,
  because the sum with 1.0 and `f64::EPSILON` is 2.0 and its mantissa zero.

Others were met while modelling and are kept as observations.

`fs::metadata(id_path).is_ok()` (`keypair/key_pair.rs:212` and `250`) does not tell an error
from the absence of the file. When the call fails for a file that is there and the write
does not, a single start draws new keys and replaces the file, complete or torn, against
`test_should_not_overwrite_existing`. `missed` marks such starts in the model, and no
property but the types survives one.

`ParsedHoprChainAction` says that it is "effectively inverse of a `PayloadGenerator`"
(`chain/parser.rs:45`). It is not for the deployment of a Safe by the Basic generator, which
is read as a withdrawal of tokens to the factory like any other ERC777 send
(`chain/parser.rs:311-320`); its payer and amount are right (`PayerIsDebited`). Nor is it for a
funding of a channel by the Basic generator above 96 bits: that generator
(`chain/payload/static_based.rs:711`), unlike the Safe one, checks no maximum and encodes the low
96 bits of the amount. `ParsedIsRequested` names both and leaves them out. The service
writes and the removal of a node by its Safe have no action and are refused.

`build_verified` does
not compare the hash it is given, while the doc of `VerifiedTicket` guarantees it.
`into_redeemable` neither compares its separator with that of the ticket nor requires
the recipient's key, as a comment in it does. A luck of zero wins at `NEVER`, and the
doc of `is_winning` states the opposite order of the comparison. A channel that
`ValidatedPath::new` checked may be closed when it returns. `ChannelStatus` declares
`Eq` with a comparison that is not transitive.

`div_f64` panics for factors so small that 1.0 absorbs them, and for the one next below 1;
`as_f64` never gives one of these. `From<u64>` of `WinningProbability` drops the highest
byte. `min` and `max` of probabilities within the tolerance return the other one,
whichever is smaller. `new_base` panics where the doc of `Balance` says that all
arithmetic saturates (`primitive/balance.rs:119`). The conversion of a `BoundedSize` to
`u8` cuts bounds above 255. An `AnnouncementData` of an address with two peer ids at its
end still ends in one, against `announcement.rs:133`, and one of nothing but a peer id is
stored empty. A later item of `into_sequence` does not continue the sequence by itself,
since the numbers start again, while the doc (`internal/routing.rs:237`) says that any
element predicts the next: who computes it has to know the place of the item as well. A
default `VrfParameters` panics when it is encoded, and
`verify` does not compare the public key with the creator's address; the contract does.

## 6. Plan

Order of work, the most important behaviour first:

1. Done: the modules of section 2 with their runs, and the proofs of section 4.
2. To model: the order of chain events that `Channel` is told of, with the removal and
   repetition of logs, once the indexer's side of it is in this repository; the options of
   whole destinations.
3. Abstract specifications worth stating: `AckBatch` as "verify each entry" in one step,
   `PathValidation` as one decision on a chain that stands still, `Keystore` without
   overlap as an identity that is chosen once.
4. To prove: that a step of `AckBatch`, `PathValidation` and `Keystore` implements those of
   the abstract specifications of item 3; that a text with any number of digits behind the
   point is no more than it says.
