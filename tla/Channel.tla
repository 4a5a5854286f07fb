------------------------------- MODULE Channel -------------------------------
(***************************************************************************)
(* ChannelEntry, ChannelStatus and ChannelChange (src/internal/channels.rs)*)
(* as a node uses them: it keeps a copy of a channel, compares each entry  *)
(* that its indexer reports with the copy by diff_channels, applies the    *)
(* changes it is told, and asks the copy whether the closure time is over. *)
(*                                                                         *)
(* The channel itself lives in the channels contract, which is not in this *)
(* repository: it may be funded, charged, closed in two steps and opened   *)
(* again under the next epoch.  Reports may skip states of it, and state   *)
(* the closure time to less than a second.                                 *)
(***************************************************************************)
EXTENDS Integers

CONSTANTS
    Second,         \* clock ticks of a second
    MaxTime,        \* bound: the clock
    Grace,          \* the notice period of the contract
    MaxStake,       \* ChannelBuilder::MAX_CHANNEL_STAKE (2^96 - 1)
    MaxTicketIndex, \* TicketBuilder::MAX_TICKET_INDEX (2^48 - 1)
    MaxEpoch,       \* TicketBuilder::MAX_CHANNEL_EPOCH (2^24 - 1)
    None            \* no remaining time

ASSUME TimeAssumption ==
    /\ Second \in Nat \ {0} /\ MaxTime \in Nat /\ Grace \in Nat
    /\ None \notin Nat
ASSUME LimitAssumption ==
    MaxStake \in Nat /\ MaxTicketIndex \in Nat /\ MaxEpoch \in Nat \ {0}

Time == 0 .. MaxTime + Grace + Second

Closed == [kind |-> "Closed"]
Open == [kind |-> "Open"]
PendingToClose(t) == [kind |-> "PendingToClose", at |-> t]

Status == {Closed, Open} \cup {PendingToClose(t) : t \in Time}

\* The fields that change; the parties and with them the id do not.
ChannelEntry == [status : Status, balance : 0 .. MaxStake,
                 ticket_index : 0 .. MaxTicketIndex, epoch : 0 .. MaxEpoch]

-----------------------------------------------------------------------------
(* Comparison                                                               *)

Abs(x) == IF x < 0 THEN -x ELSE x

\* A slip: the closure time is not compared.
StatusEqKind(s, t) == s.kind = t.kind

\* PartialEq of ChannelStatus: closure times count as equal within a second.
StatusEq(s, t) ==
    /\ s.kind = t.kind
    /\ s.kind = "PendingToClose" => Abs(s.at - t.at) < Second

\* PartialEq of ChannelEntry
EntryEq(l, r) ==
    /\ StatusEq(l.status, r.status)
    /\ l.balance = r.balance /\ l.ticket_index = r.ticket_index /\ l.epoch = r.epoch

\* A slip: the epoch is left out.
ChangedNotEpoch(l, r) ==
    {f \in {"balance", "ticket_index"} : l[f] # r[f]}
    \cup IF StatusEq(l.status, r.status) THEN {} ELSE {"status"}

\* ChannelChange::diff_channels: the fields that differ.
Changed(l, r) ==
    {f \in {"balance", "ticket_index", "epoch"} : l[f] # r[f]}
    \cup IF StatusEq(l.status, r.status) THEN {} ELSE {"status"}

\* A slip: the new balance is taken for an increase of it.
AppliedSummed(l, r) ==
    [f \in DOMAIN l |-> IF f \notin Changed(l, r) THEN l[f]
                        ELSE IF f = "balance" THEN l[f] + r[f] ELSE r[f]]

\* The receiver of a diff takes the right side of each change.
Applied(l, r) == [f \in DOMAIN l |-> IF f \in Changed(l, r) THEN r[f] ELSE l[f]]

(* Closure times                                                            *)

\* A slip: the closure time itself is not over yet.
ClosureTimeElapsedAfter(s, t) ==
    s.kind = "Closed" \/ (s.kind = "PendingToClose" /\ s.at < t)

\* closure_time_elapsed, closure_time_passed
ClosureTimeElapsed(s, t) ==
    s.kind = "Closed" \/ (s.kind = "PendingToClose" /\ s.at <= t)

\* remaining_closure_time, with the saturating subtraction of SystemTime
RemainingClosureTime(s, t) ==
    CASE s.kind = "Open" -> None
      [] s.kind = "PendingToClose" -> IF s.at > t THEN s.at - t ELSE 0
      [] OTHER -> 0

-----------------------------------------------------------------------------
VARIABLES
    chain,      \* the channel in the contract
    local,      \* the node's copy
    report,     \* the entry its indexer reported last
    source,     \* history: the channel of which that was a report
    now         \* the clock of chain and node

vars == <<chain, local, report, source, now>>

TypeOK ==
    /\ chain \in ChannelEntry
    /\ local \in ChannelEntry
    /\ report \in ChannelEntry /\ source \in ChannelEntry
    /\ now \in 0 .. MaxTime

Init ==
    /\ chain = [status |-> Open, balance |-> MaxStake, ticket_index |-> 0, epoch |-> 1]
    /\ local = chain /\ report = chain /\ source = chain
    /\ now = 0

(* The contract                                                             *)

Tick ==
    /\ now < MaxTime
    /\ now' = now + 1
    /\ UNCHANGED <<chain, local, report, source>>

OnChain == UNCHANGED <<local, report, source, now>>

Fund ==
    /\ chain.balance < MaxStake
    /\ chain' = [chain EXCEPT !.balance = MaxStake,
                              !.status = IF @ = Closed THEN Open ELSE @,
                              !.ticket_index = IF chain.status = Closed THEN 0 ELSE @,
                              !.epoch = IF chain.status = Closed THEN @ + 1 ELSE @]
    /\ chain'.epoch <= MaxEpoch
    /\ OnChain

Redeem ==
    /\ chain.status # Closed /\ chain.balance > 0
    /\ chain.ticket_index < MaxTicketIndex
    /\ chain' = [chain EXCEPT !.balance = @ - 1, !.ticket_index = @ + 1]
    /\ OnChain

\* A pending closure may be announced again.
InitiateClosure ==
    /\ chain.status # Closed
    /\ chain' = [chain EXCEPT !.status = PendingToClose(now + Grace)]
    /\ OnChain

FinalizeClosure ==
    /\ chain.status.kind = "PendingToClose" /\ chain.status.at <= now
    /\ chain' = [chain EXCEPT !.status = Closed, !.balance = 0]
    /\ OnChain

(* The node                                                                 *)

\* The indexer states the closure time up to a second late.
Reports(c) ==
    IF c.status.kind = "PendingToClose"
    THEN {[c EXCEPT !.status = PendingToClose(c.status.at + j)] : j \in 0 .. Second - 1}
    ELSE {c}

\* ChannelBuilder::build is Ok.
Builds(e) == e.balance <= MaxStake /\ e.ticket_index <= MaxTicketIndex /\ e.epoch <= MaxEpoch

Observe ==
    /\ report' \in {e \in Reports(chain) : Builds(e)}
    /\ source' = chain
    /\ local' = Applied(local, report')
    /\ UNCHANGED <<chain, now>>

Next == Tick \/ Fund \/ Redeem \/ InitiateClosure \/ FinalizeClosure \/ Observe

Spec == Init /\ [][Next]_vars

-----------------------------------------------------------------------------
(* Properties                                                               *)

\* A copy kept by diffs is the reported entry, in the sense of their comparison: no
\* change of any field gets lost, whatever states the reports skipped.
CopyIsReport == EntryEq(local, report)

\* If the node's copy says that the closure time is over, so does the channel it was
\* reported from, less than a second later: what the comparison leaves out does not
\* add up over the reports, and no closure that was announced again is missed.
EarlyByLessThanASecond ==
    \A t \in Time : ClosureTimeElapsed(local.status, t)
        => ClosureTimeElapsed(source.status, t + Second - 1)

\* The two questions about the closure of the copy agree at every time: no time remains
\* exactly when it is over.
ClosureTimesAgree ==
    \A t \in Time :
        ClosureTimeElapsed(local.status, t) <=> RemainingClosureTime(local.status, t) = 0
=============================================================================
