---------------------------- MODULE Channel_proofs ----------------------------
(***************************************************************************)
(* What Channel promises for every grace period, resolution of the closure *)
(* time and limit, and however long channel and node go on.                *)
(*                                                                         *)
(* The copy of a channel is related to the channel through the report: the *)
(* copy equals the last report by the comparison that ignores less than a  *)
(* second, and the report is one of the channel.  Because a diff is made   *)
(* against the report itself the distance does not grow with the reports.  *)
(***************************************************************************)
EXTENDS Channel, TLAPS

\* A closure in the contract is at most one notice period ahead of the clock, which leaves
\* the room that a late report needs.
WithinNotice ==
    chain.status.kind = "PendingToClose" => chain.status.at <= MaxTime + Grace

IInv == TypeOK /\ WithinNotice /\ CopyIsReport /\ report \in Reports(source)

-----------------------------------------------------------------------------
\* The statuses by their kind.
LEMMA StatusKinds ==
    ASSUME NEW s \in Status
    PROVE  \/ s = Closed /\ s.kind = "Closed"
           \/ s = Open /\ s.kind = "Open"
           \/ s.kind = "PendingToClose" /\ s.at \in Time /\ s = PendingToClose(s.at)
<1>1. CASE s = Closed
    BY <1>1 DEF Closed
<1>2. CASE s = Open
    BY <1>2 DEF Open
<1>3. ASSUME NEW t \in Time, s = PendingToClose(t)
      PROVE  s.kind = "PendingToClose" /\ s.at \in Time /\ s = PendingToClose(s.at)
    BY <1>3 DEF PendingToClose
<1> QED
    BY <1>1, <1>2, <1>3 DEF Status

\* ChannelStatus equals itself.
LEMMA StatusEqReflexive ==
    ASSUME NEW s \in Status
    PROVE  StatusEq(s, s)
<1>1. CASE s.kind = "PendingToClose"
    <2>1. s.at \in Int
        BY <1>1, StatusKinds, TimeAssumption DEF Time, Closed, Open
    <2> QED
        BY <2>1, TimeAssumption DEF StatusEq, Abs
<1> QED
    BY <1>1 DEF StatusEq

\* diff_channels followed by its application gives an entry that equals the right side, of
\* fields of either side.
LEMMA DiffsApply ==
    ASSUME NEW l \in ChannelEntry, NEW r \in ChannelEntry
    PROVE  Applied(l, r) \in ChannelEntry /\ EntryEq(Applied(l, r), r)
<1> DEFINE a == Applied(l, r)
<1>1. DOMAIN l = {"status", "balance", "ticket_index", "epoch"}
    BY DEF ChannelEntry
<1>2. \A f \in {"balance", "ticket_index", "epoch"} : a[f] = r[f]
    BY <1>1 DEF Applied, Changed
<1>3. a.status = IF StatusEq(l.status, r.status) THEN l.status ELSE r.status
    BY <1>1 DEF Applied, Changed
<1>4. l.status \in Status /\ r.status \in Status
    BY DEF ChannelEntry
<1>5. a = [status |-> a.status, balance |-> a.balance,
           ticket_index |-> a.ticket_index, epoch |-> a.epoch]
    BY <1>1 DEF Applied
<1>6. a \in ChannelEntry
    <2>1. r.balance \in 0 .. MaxStake /\ r.ticket_index \in 0 .. MaxTicketIndex
              /\ r.epoch \in 0 .. MaxEpoch
        BY DEF ChannelEntry
    <2> HIDE DEF a
    <2> QED
        BY <1>2, <1>3, <1>4, <1>5, <2>1 DEF ChannelEntry
<1>7. StatusEq(a.status, r.status)
    <2> HIDE DEF a
    <2> QED
        BY <1>3, <1>4, StatusEqReflexive
<1> QED
    BY <1>2, <1>6, <1>7 DEF EntryEq

\* A channel whose closure is within the notice period is reported as an entry.
LEMMA ReportsAreEntries ==
    ASSUME NEW c \in ChannelEntry,
           c.status.kind = "PendingToClose" => c.status.at <= MaxTime + Grace,
           NEW r \in Reports(c)
    PROVE  r \in ChannelEntry
<1>1. CASE c.status.kind # "PendingToClose"
    BY <1>1 DEF Reports
<1>2. CASE c.status.kind = "PendingToClose"
    <2>1. PICK j \in 0 .. Second - 1 : r = [c EXCEPT !.status = PendingToClose(c.status.at + j)]
        BY <1>2 DEF Reports
    <2>2. c.status \in Status
        BY DEF ChannelEntry
    <2>3. c.status.at \in Time
        BY <1>2, <2>2, StatusKinds
    <2>4. c.status.at + j \in Time
        BY <1>2, <2>3, TimeAssumption DEF Time
    <2>5. PendingToClose(c.status.at + j) \in Status
        BY <2>4 DEF Status
    <2> QED
        BY <2>1, <2>5 DEF ChannelEntry
<1> QED
    BY <1>1, <1>2

-----------------------------------------------------------------------------
LEMMA InitIInv == Init => IInv
<1> SUFFICES ASSUME Init PROVE IInv
    OBVIOUS
<1>1. chain \in ChannelEntry /\ chain.status = Open
    BY LimitAssumption DEF Init, ChannelEntry, Status
<1>2. chain.status.kind = "Open"
    BY <1>1 DEF Open
<1>3. TypeOK
    BY <1>1, TimeAssumption DEF Init, TypeOK
<1>4. CopyIsReport
    BY <1>1, <1>2 DEF Init, CopyIsReport, EntryEq, StatusEq
<1>5. report \in Reports(source)
    BY <1>2 DEF Init, Reports
<1> QED
    BY <1>2, <1>3, <1>4, <1>5 DEF IInv, WithinNotice

\* What the contract does leaves the node alone and keeps the channel an entry.
LEMMA ContractKeepsIInv ==
    ASSUME IInv, OnChain, chain' \in ChannelEntry, WithinNotice'
    PROVE  IInv'
BY DEF IInv, OnChain, TypeOK, CopyIsReport, Reports

LEMMA FundKeepsIInv == IInv /\ Fund => IInv'
<1> SUFFICES ASSUME IInv, Fund PROVE IInv'
    OBVIOUS
<1>1. chain \in ChannelEntry /\ chain.status \in Status
    BY DEF IInv, TypeOK, ChannelEntry
<1>2. chain'.status = IF chain.status = Closed THEN Open ELSE chain.status
    BY <1>1 DEF Fund, ChannelEntry
<1>3. chain'.status \in Status
    BY <1>1, <1>2 DEF Status
<1>4. chain'.epoch \in 0 .. MaxEpoch
    <2>1. chain'.epoch = IF chain.status = Closed THEN chain.epoch + 1 ELSE chain.epoch
        BY <1>1 DEF Fund, ChannelEntry
    <2>2. chain.epoch \in Nat /\ chain'.epoch <= MaxEpoch
        BY <1>1 DEF Fund, ChannelEntry
    <2> QED
        BY <2>1, <2>2, LimitAssumption
<1>5. chain'.balance \in 0 .. MaxStake /\ chain'.ticket_index \in 0 .. MaxTicketIndex
    BY <1>1, LimitAssumption DEF Fund, ChannelEntry
<1>6. chain' = [status |-> chain'.status, balance |-> chain'.balance,
                ticket_index |-> chain'.ticket_index, epoch |-> chain'.epoch]
    BY <1>1 DEF Fund, ChannelEntry
<1>7. chain' \in ChannelEntry
    <2> DEFINE s == chain'.status  b == chain'.balance
               t == chain'.ticket_index  e == chain'.epoch
    <2>1. [status |-> s, balance |-> b, ticket_index |-> t, epoch |-> e] \in ChannelEntry
        BY <1>3, <1>4, <1>5 DEF ChannelEntry
    <2> QED
        BY <1>6, <2>1
<1>8. WithinNotice'
    BY <1>2 DEF IInv, WithinNotice, Open
<1> QED
    BY <1>7, <1>8, ContractKeepsIInv DEF Fund

LEMMA RedeemKeepsIInv == IInv /\ Redeem => IInv'
<1> SUFFICES ASSUME IInv, Redeem PROVE IInv'
    OBVIOUS
<1>1. chain \in ChannelEntry
    BY DEF IInv, TypeOK
<1>2. chain' = [status |-> chain.status, balance |-> chain.balance - 1,
                ticket_index |-> chain.ticket_index + 1, epoch |-> chain.epoch]
    BY <1>1 DEF Redeem, ChannelEntry
<1>3. /\ chain.status \in Status /\ chain.epoch \in 0 .. MaxEpoch
      /\ chain.balance - 1 \in 0 .. MaxStake
      /\ chain.ticket_index + 1 \in 0 .. MaxTicketIndex
    BY <1>1, LimitAssumption DEF Redeem, ChannelEntry
<1>4. chain' \in ChannelEntry /\ chain'.status = chain.status
    BY <1>2, <1>3 DEF ChannelEntry
<1> QED
    BY <1>4, ContractKeepsIInv DEF Redeem, IInv, WithinNotice

LEMMA InitiateKeepsIInv == IInv /\ InitiateClosure => IInv'
<1> SUFFICES ASSUME IInv, InitiateClosure PROVE IInv'
    OBVIOUS
<1>1. chain \in ChannelEntry /\ now \in 0 .. MaxTime
    BY DEF IInv, TypeOK
<1>2. now + Grace \in Time /\ now + Grace <= MaxTime + Grace
    BY <1>1, TimeAssumption DEF Time
<1>3. chain'.status = PendingToClose(now + Grace) /\ chain' \in ChannelEntry
    BY <1>1, <1>2 DEF InitiateClosure, ChannelEntry, Status
<1>4. WithinNotice'
    BY <1>2, <1>3 DEF WithinNotice, PendingToClose
<1> QED
    BY <1>3, <1>4, ContractKeepsIInv DEF InitiateClosure

LEMMA FinalizeKeepsIInv == IInv /\ FinalizeClosure => IInv'
<1> SUFFICES ASSUME IInv, FinalizeClosure PROVE IInv'
    OBVIOUS
<1>1. chain \in ChannelEntry
    BY DEF IInv, TypeOK
<1>2. chain' = [status |-> Closed, balance |-> 0,
                ticket_index |-> chain.ticket_index, epoch |-> chain.epoch]
    BY <1>1 DEF FinalizeClosure, ChannelEntry
<1>3. /\ Closed \in Status /\ 0 \in 0 .. MaxStake
      /\ chain.ticket_index \in 0 .. MaxTicketIndex /\ chain.epoch \in 0 .. MaxEpoch
    BY <1>1, LimitAssumption DEF ChannelEntry, Status
<1>4. chain'.status = Closed /\ chain' \in ChannelEntry
    BY <1>2, <1>3 DEF ChannelEntry
<1>5. WithinNotice'
    BY <1>4 DEF WithinNotice, Closed
<1> QED
    BY <1>4, <1>5, ContractKeepsIInv DEF FinalizeClosure

LEMMA ObserveKeepsIInv == IInv /\ Observe => IInv'
<1> SUFFICES ASSUME IInv, Observe PROVE IInv'
    OBVIOUS
<1>1. chain \in ChannelEntry /\ local \in ChannelEntry /\ WithinNotice
    BY DEF IInv, TypeOK
<1>2. report' \in Reports(chain) /\ report' \in ChannelEntry
    BY <1>1, ReportsAreEntries DEF Observe, WithinNotice
<1>3. local' \in ChannelEntry /\ EntryEq(local', report')
    BY <1>1, <1>2, DiffsApply DEF Observe
<1>4. report' \in Reports(source')
    BY <1>2 DEF Observe
<1>5. TypeOK' /\ WithinNotice'
    BY <1>1, <1>2, <1>3 DEF IInv, Observe, TypeOK, WithinNotice
<1>6. CopyIsReport'
    BY <1>3 DEF CopyIsReport
<1>7. (report \in Reports(source))'
    BY <1>4 DEF Reports
<1> QED
    BY <1>5, <1>6, <1>7 DEF IInv

LEMMA NextIInv == IInv /\ [Next]_vars => IInv'
<1> SUFFICES ASSUME IInv, [Next]_vars PROVE IInv'
    OBVIOUS
<1>1. CASE Tick
    BY <1>1, TimeAssumption DEF Tick, IInv, TypeOK, WithinNotice, CopyIsReport, Reports
<1>2. CASE UNCHANGED vars
    BY <1>2 DEF vars, IInv, TypeOK, WithinNotice, CopyIsReport, Reports
<1> QED
    BY <1>1, <1>2, FundKeepsIInv, RedeemKeepsIInv, InitiateKeepsIInv, FinalizeKeepsIInv,
       ObserveKeepsIInv DEF Next

LEMMA Invariance == Spec => []IInv
BY InitIInv, NextIInv, PTL DEF Spec

-----------------------------------------------------------------------------
\* The comparison of statuses and the lateness of a report together stay below a second.
LEMMA LatenessIsBounded ==
    ASSUME IInv
    PROVE  EarlyByLessThanASecond
<1>1. local.status \in Status /\ source.status \in Status /\ report.status \in Status
    BY DEF IInv, TypeOK, ChannelEntry
<1>2. StatusEq(local.status, report.status)
    BY DEF IInv, CopyIsReport, EntryEq
<1>3. \/ report = source
      \/ /\ source.status.kind = "PendingToClose"
         /\ report.status.kind = "PendingToClose"
         /\ \E j \in 0 .. Second - 1 : report.status.at = source.status.at + j
    <2>1. source \in ChannelEntry /\ report \in Reports(source)
        BY DEF IInv, TypeOK
    <2>2. CASE source.status.kind # "PendingToClose"
        BY <2>1, <2>2 DEF Reports
    <2>3. CASE source.status.kind = "PendingToClose"
        <3>1. PICK j \in 0 .. Second - 1 :
                 report = [source EXCEPT !.status = PendingToClose(source.status.at + j)]
            BY <2>1, <2>3 DEF Reports
        <3>2. report.status = PendingToClose(source.status.at + j)
            BY <2>1, <3>1 DEF ChannelEntry
        <3> QED
            BY <2>3, <3>2 DEF PendingToClose
    <2> QED
        BY <2>2, <2>3
<1> SUFFICES ASSUME NEW t \in Time, ClosureTimeElapsed(local.status, t)
             PROVE  ClosureTimeElapsed(source.status, t + Second - 1)
    BY DEF EarlyByLessThanASecond
<1>4. CASE local.status.kind = "Closed"
    <2>1. report.status.kind = "Closed"
        BY <1>2, <1>4 DEF StatusEq
    <2> QED
        BY <1>3, <2>1 DEF ClosureTimeElapsed
<1>5. CASE local.status.kind = "PendingToClose"
    <2>1. local.status.at \in Int /\ t \in Int /\ Second \in Nat \ {0}
        BY <1>1, <1>5, StatusKinds, TimeAssumption DEF Time, Closed, Open
    <2>2. local.status.at <= t
        BY <1>5 DEF ClosureTimeElapsed
    <2>3. report.status.kind = "PendingToClose" /\ Abs(local.status.at - report.status.at) < Second
        BY <1>2, <1>5 DEF StatusEq
    <2>4. report.status.at \in Int
        BY <1>1, <2>3, StatusKinds, TimeAssumption DEF Time, Closed, Open
    <2>5. source.status.kind = "PendingToClose"
        BY <1>3, <2>3
    <2>6. source.status.at \in Int
        BY <1>1, <2>5, StatusKinds, TimeAssumption DEF Time, Closed, Open
    <2>7. \E j \in 0 .. Second - 1 : report.status.at = source.status.at + j
        <3>1. CASE report = source
            BY <2>1, <2>6, <3>1
        <3> QED
            BY <1>3, <3>1
    <2>8. source.status.at <= t + Second - 1
        <3>1. PICK j \in 0 .. Second - 1 : report.status.at = source.status.at + j
            BY <2>7
        <3>2. CASE local.status.at <= report.status.at
            BY <2>1, <2>2, <2>3, <2>4, <2>6, <3>1, <3>2 DEF Abs
        <3>3. CASE local.status.at > report.status.at
            BY <2>1, <2>2, <2>4, <2>6, <3>1, <3>3
        <3> QED
            BY <2>1, <2>4, <3>2, <3>3
    <2> QED
        BY <2>5, <2>8 DEF ClosureTimeElapsed
<1> QED
    BY <1>4, <1>5 DEF ClosureTimeElapsed

\* The two ways of asking whether the closure is over agree for any status.
LEMMA ClosureQuestionsAgree ==
    ASSUME NEW s \in Status, NEW t \in Time
    PROVE  ClosureTimeElapsed(s, t) <=> RemainingClosureTime(s, t) = 0
<1>1. t \in Int /\ None # 0
    BY TimeAssumption DEF Time
<1>2. CASE s.kind = "Closed"
    BY <1>2 DEF ClosureTimeElapsed, RemainingClosureTime
<1>3. CASE s.kind = "Open"
    BY <1>1, <1>3 DEF ClosureTimeElapsed, RemainingClosureTime
<1>4. CASE s.kind = "PendingToClose"
    <2>1. s.at \in Int
        BY <1>4, StatusKinds, TimeAssumption DEF Time, Closed, Open
    <2> QED
        BY <1>1, <1>4, <2>1 DEF ClosureTimeElapsed, RemainingClosureTime
<1> QED
    BY <1>2, <1>3, <1>4, StatusKinds

-----------------------------------------------------------------------------
\* The types of channels, copies and reports (ChannelBuilder and its limits): no report is
\* outside the limits, for any of them.
THEOREM TypeCorrect == Spec => []TypeOK
<1>1. IInv => TypeOK
    BY DEF IInv
<1> QED
    BY <1>1, Invariance, PTL

\* diff_channels: a copy kept by diffs equals the last report, whatever was skipped.
THEOREM CopiesFollow == Spec => []CopyIsReport
<1>1. IInv => CopyIsReport
    BY DEF IInv
<1> QED
    BY <1>1, Invariance, PTL

\* closure_time_elapsed of the copy is ahead of the channel by less than a second, after any
\* number of reports.
THEOREM CopiesAreAlmostOnTime == Spec => []EarlyByLessThanASecond
BY Invariance, LatenessIsBounded, PTL

\* closure_time_elapsed and remaining_closure_time agree on the copy at all times.
THEOREM ClosureIsOneQuestion == Spec => []ClosureTimesAgree
<1>1. IInv => ClosureTimesAgree
    <2> SUFFICES ASSUME IInv, NEW t \in Time
                 PROVE  ClosureTimeElapsed(local.status, t)
                            <=> RemainingClosureTime(local.status, t) = 0
        BY DEF ClosureTimesAgree
    <2>1. local.status \in Status
        BY DEF IInv, TypeOK, ChannelEntry
    <2> QED
        BY <2>1, ClosureQuestionsAgree
<1> QED
    BY <1>1, Invariance, PTL
=============================================================================
