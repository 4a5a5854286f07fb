-------------------------- MODULE Sequential_proofs --------------------------
(***************************************************************************)
(* What is computed without interaction: batches of acknowledgements, the  *)
(* Lioness cipher, the verifiable random function, the identities and      *)
(* routes that are written and read again, sums and texts of amounts,      *)
(* winning probabilities, and the keys and secrets of BN254.               *)
(***************************************************************************)
EXTENDS MCSequential, SequenceTheorems, FiniteSetTheorems, WellFoundedInduction, TLAPS

-----------------------------------------------------------------------------
(* Batches, for any keys, batches, memo and threshold.  The argument        *)
(* follows the two sides that the iterator couples: what the caller has     *)
(* stored is the part of the batch that was pulled (Stored), a check that   *)
(* still says yes has verified every stored entry (Checked), and the        *)
(* individual results that are no longer to do are right (Individual).      *)

Result == Acknowledgement \cup {Invalid}

Answers(i, r) == r = Verify(batch[i].key, batch[i].ack)

AllPoints == \A i \in DOMAIN batch : batch[i].key \in Curve

\* What pulling an entry stores on the caller's side.
Stored ==
    /\ pc = "start" => pulled = 0
    /\ Len(keys) = pulled /\ Len(optimistic_result) = pulled
    /\ \A i \in 1 .. pulled : keys[i] = batch[i].key /\ optimistic_result[i] = batch[i].ack

Checked == pc = "pull" /\ ~unsound => \A i \in 1 .. pulled : Answers(i, batch[i].ack)

Individual ==
    pc = "individual" =>
        /\ todo \subseteq 1 .. pulled
        /\ Len(result) = pulled
        /\ \A i \in (1 .. pulled) \ todo : Answers(i, result[i])
        /\ AllPoints => pulled = Len(batch)

IInv == TypeOK /\ Stored /\ Checked /\ Individual /\ ResultsAgree /\ PointsAnswered

-----------------------------------------------------------------------------
\* Functions on an initial interval of the numbers are sequences.
LEMMA FunctionIsSeq ==
    ASSUME NEW n \in Nat, NEW S, NEW f \in [1 .. n -> S]
    PROVE  f \in Seq(S) /\ Len(f) = n /\ DOMAIN f = 1 .. n
<1>1. f \in Seq(S)
    BY SeqDef
<1> QED
    BY <1>1, LenProperties

\* Acknowledgement::verify of an entry is a result.
LEMMA VerifyType ==
    ASSUME NEW key, NEW ack \in Acknowledgement
    PROVE  Verify(key, ack) \in Result
BY DEF Verify, Result

\* The entries of the batch, by what was pulled.
LEMMA EntryType ==
    ASSUME TypeOK, NEW i \in 1 .. Len(batch)
    PROVE  batch[i].key \in OffchainPublicKey /\ batch[i].ack \in Acknowledgement
<1>1. batch[i] \in Entry
    BY ElementOfSeq DEF TypeOK
<1> QED
    BY <1>1 DEF Entry

\* Everything of which TypeOK speaks has its type in the module's terms.
LEMMA Types ==
    ASSUME TypeOK
    PROVE  /\ Len(batch) \in Nat /\ DOMAIN batch = 1 .. Len(batch)
           /\ pulled \in Nat /\ pulled <= Len(batch)
           /\ Len(keys) \in Nat /\ DOMAIN keys = 1 .. Len(keys)
           /\ Len(result) \in Nat /\ DOMAIN result = 1 .. Len(result)
BY LenProperties DEF TypeOK

-----------------------------------------------------------------------------
LEMMA InitIInv == Init => IInv
<1> SUFFICES ASSUME Init PROVE IInv
    OBVIOUS
<1>1. PICK n \in 0 .. MaxBatch : batch \in [1 .. n -> Entry]
    BY SizeAssumption DEF Init, BoundedSeq, SeqOf
<1>2. batch \in Seq(Entry) /\ Len(batch) <= MaxBatch
    BY <1>1, SizeAssumption, FunctionIsSeq
<1>3. TypeOK
    <2>1. <<>> \in Seq(OffchainPublicKey) /\ <<>> \in Seq(Acknowledgement)
              /\ <<>> \in Seq(Curve) /\ <<>> \in Seq(Acknowledgement \cup {Invalid})
              /\ Len(<<>>) = 0
        OBVIOUS
    <2>2. Len(batch) \in Nat
        BY <1>2, LenProperties
    <2>3. keys = <<>> /\ optimistic_result = <<>> /\ seen = <<>> /\ result = <<>>
        BY DEF Init
    <2>4. /\ lower \in 0 .. Len(batch) /\ pc = "start" /\ pulled = 0
          /\ unsound = FALSE /\ todo = {}
        BY DEF Init
    <2>5. pulled \in 0 .. Len(batch) /\ Len(seen) <= MemoCapacity
        BY <2>1, <2>2, <2>3, <2>4, SizeAssumption
    <2> QED
        BY <1>2, <2>1, <2>3, <2>4, <2>5 DEF TypeOK
<1>4. Stored /\ Checked /\ Individual
    BY DEF Init, Stored, Checked, Individual
<1> QED
    BY <1>3, <1>4 DEF Init, IInv, ResultsAgree, PointsAnswered

LEMMA VerifyEachKeepsIInv == IInv /\ VerifyEach => IInv'
<1> SUFFICES ASSUME IInv, VerifyEach PROVE IInv'
    OBVIOUS
<1> USE DEF VerifyEach
<1>1. TypeOK /\ Stored
    BY DEF IInv
<1>2. result' \in [1 .. Len(batch) -> Result]
    BY <1>1, EntryType, VerifyType, Types
<1>3. result' \in Seq(Result) /\ Len(result') = Len(batch) /\ DOMAIN result' = 1 .. Len(batch)
    BY <1>1, <1>2, FunctionIsSeq, Types
<1>4. TypeOK'
    BY <1>1, <1>3 DEF TypeOK, Result
<1>5. Stored' /\ Checked' /\ Individual'
    BY <1>1 DEF Stored, Checked, Individual
<1>6. ResultsAgree'
    BY <1>1, <1>3, Types DEF ResultsAgree, Verify, Verifies
<1>7. PointsAnswered'
    BY <1>3 DEF PointsAnswered
<1> QED
    BY <1>4, <1>5, <1>6, <1>7 DEF IInv

LEMMA StartKeepsIInv == IInv /\ StartBatch => IInv'
<1> SUFFICES ASSUME IInv, StartBatch PROVE IInv'
    OBVIOUS
<1> USE DEF StartBatch
<1>1. TypeOK'
    BY DEF IInv, TypeOK
<1>2. Stored' /\ Checked' /\ Individual'
    BY DEF IInv, TypeOK, Stored, Checked, Individual
<1> QED
    BY <1>1, <1>2 DEF IInv, ResultsAgree, PointsAnswered

\* Pulling an entry extends what is stored, whether its key is a point or not.
LEMMA PullStores ==
    ASSUME IInv, Pull
    PROVE  /\ keys' \in Seq(OffchainPublicKey) /\ optimistic_result' \in Seq(Acknowledgement)
           /\ pulled' \in 1 .. Len(batch) /\ pulled' = pulled + 1
           /\ Stored'
<1> USE DEF Pull
<1> DEFINE e == batch[pulled + 1]
<1>1. TypeOK /\ Stored
    BY DEF IInv
<1>2. pulled + 1 \in 1 .. Len(batch)
    BY <1>1, Types
<1>3. e.key \in OffchainPublicKey /\ e.ack \in Acknowledgement
    BY <1>1, <1>2, EntryType
<1>4. keys' = Append(keys, e.key) /\ optimistic_result' = Append(optimistic_result, e.ack)
    OBVIOUS
<1>5. keys \in Seq(OffchainPublicKey) /\ optimistic_result \in Seq(Acknowledgement)
    BY <1>1 DEF TypeOK
<1>6. /\ keys' \in Seq(OffchainPublicKey) /\ Len(keys') = pulled + 1
      /\ \A i \in 1 .. pulled + 1 : keys'[i] = IF i = pulled + 1 THEN e.key ELSE keys[i]
    <2> HIDE DEF e
    <2> QED
        BY <1>1, <1>3, <1>4, <1>5, Types DEF Stored
<1>7. /\ optimistic_result' \in Seq(Acknowledgement) /\ Len(optimistic_result') = pulled + 1
      /\ \A i \in 1 .. pulled + 1 :
            optimistic_result'[i] = IF i = pulled + 1 THEN e.ack ELSE optimistic_result[i]
    <2> HIDE DEF e
    <2> QED
        BY <1>1, <1>3, <1>4, <1>5, Types DEF Stored
<1>8. pulled' = pulled + 1 /\ batch' = batch /\ pc' # "start"
    OBVIOUS
<1>9. \A i \in 1 .. pulled + 1 : i # pulled + 1 => i \in 1 .. pulled
    BY <1>1, Types
<1> QED
    BY <1>1, <1>2, <1>6, <1>7, <1>8, <1>9 DEF Stored

LEMMA PullKeepsIInv == IInv /\ Pull => IInv'
<1> SUFFICES ASSUME IInv, Pull PROVE IInv'
    OBVIOUS
<1> DEFINE e == batch[pulled + 1]
<1>1. TypeOK /\ Checked /\ pc = "pull" /\ batch' = batch /\ lower' = lower
    BY DEF IInv, Pull
<1>2. /\ keys' \in Seq(OffchainPublicKey) /\ optimistic_result' \in Seq(Acknowledgement)
      /\ pulled' \in 1 .. Len(batch) /\ pulled' = pulled + 1
      /\ Stored'
    BY PullStores
<1>3. e.key \in OffchainPublicKey /\ e.ack \in Acknowledgement
    BY <1>1, <1>2, EntryType
<1>4. CASE IsPoint(e.key)
    <2>1. /\ seen' = Memo(e.key) /\ unsound' = (unsound \/ ~Verifies(e.key, e.ack))
          /\ pc' = "pull" /\ todo' = todo /\ result' = result
        BY <1>1, <1>4 DEF Pull
    <2>2. seen' \in Seq(Curve) /\ Len(seen') <= MemoCapacity
        BY <1>1, <1>4, <2>1, SizeAssumption DEF TypeOK, Memo, IsPoint
    <2>3. unsound' \in BOOLEAN
        BY <1>1, <2>1 DEF TypeOK, Verifies
    <2>4. TypeOK'
        BY <1>1, <1>2, <2>1, <2>2, <2>3 DEF TypeOK
    <2>5. Checked'
        <3> SUFFICES ASSUME ~unsound', NEW i \in 1 .. pulled'
                     PROVE  Answers(i, batch[i].ack)
            BY <1>1 DEF Checked, Answers, Verify, Verifies
        <3>1. CASE i = pulled + 1
            BY <2>1, <3>1 DEF Answers, Verify
        <3>2. CASE i # pulled + 1
            <4>1. i \in 1 .. pulled
                BY <1>1, <1>2, <3>2, Types
            <4> QED
                BY <1>1, <2>1, <4>1 DEF Checked
        <3> QED
            BY <3>1, <3>2
    <2> QED
        BY <1>2, <2>1, <2>4, <2>5 DEF IInv, Individual, ResultsAgree, PointsAnswered
<1>5. CASE ~IsPoint(e.key)
    <2>1. /\ pc' = "individual" /\ todo' = 1 .. pulled + 1
          /\ result' = [i \in 1 .. pulled + 1 |-> Invalid] /\ seen' = seen /\ unsound' = unsound
        BY <1>1, <1>5 DEF Pull
    <2>2. result' \in [1 .. pulled + 1 -> Result]
        BY <2>1 DEF Result
    <2>3. result' \in Seq(Result) /\ Len(result') = pulled + 1
        BY <1>1, <2>2, FunctionIsSeq, Types
    <2>4. todo' \subseteq 1 .. Len(batch)
        BY <1>1, <1>2, <2>1, Types
    <2>5. TypeOK'
        BY <1>1, <1>2, <2>1, <2>3, <2>4 DEF TypeOK, Result
    <2>6. ~AllPoints
        BY <1>1, <1>2, <1>5, Types DEF AllPoints, IsPoint
    <2>7. Individual'
        BY <1>1, <1>2, <2>1, <2>3, <2>6 DEF Individual, AllPoints
    <2> QED
        BY <1>2, <2>1, <2>5, <2>7 DEF IInv, Checked, ResultsAgree, PointsAnswered
<1> QED
    BY <1>4, <1>5

LEMMA CheckKeepsIInv == IInv /\ Check => IInv'
<1> SUFFICES ASSUME IInv, Check PROVE IInv'
    OBVIOUS
<1>1. /\ TypeOK /\ Stored /\ Checked /\ pc = "pull" /\ pulled = Len(batch)
      /\ UNCHANGED <<batch, lower, pulled, keys, optimistic_result, seen, unsound>>
    BY DEF IInv, Check
<1>2. Stored'
    BY <1>1 DEF Check, Stored
<1>3. CASE BatchSound
    <2>1. result' = optimistic_result /\ pc' = "done" /\ todo' = todo
        BY <1>1, <1>3 DEF Check
    <2>2. result' \in Seq(Result) /\ Len(result') = Len(batch)
        BY <1>1, <2>1, SeqMonotonic DEF TypeOK, Stored, Result
    <2>3. TypeOK'
        BY <1>1, <2>1, <2>2 DEF TypeOK, Result
    <2>4. ResultsAgree'
        <3> SUFFICES ASSUME NEW i \in DOMAIN result'
                     PROVE  result'[i] = Verify(batch[i].key, batch[i].ack)
            BY <1>1 DEF ResultsAgree, Verify, Verifies
        <3>1. i \in 1 .. pulled
            BY <1>1, <2>2, LenProperties
        <3> QED
            BY <1>1, <1>3, <2>1, <3>1 DEF Stored, Checked, Answers, BatchSound
    <2> QED
        BY <1>2, <2>1, <2>2, <2>3, <2>4, <1>1 DEF IInv, Checked, Individual, PointsAnswered
<1>4. CASE ~BatchSound
    <2>1. /\ result' = [i \in DOMAIN keys |-> Invalid] /\ todo' = DOMAIN keys
          /\ pc' = "individual"
        BY <1>1, <1>4 DEF Check
    <2>2. DOMAIN keys = 1 .. pulled
        BY <1>1, Types DEF Stored
    <2>3. result' \in [1 .. pulled -> Result]
        BY <2>1, <2>2 DEF Result
    <2>4. result' \in Seq(Result) /\ Len(result') = pulled
        BY <1>1, <2>3, FunctionIsSeq, Types
    <2>5. TypeOK'
        BY <1>1, <2>1, <2>2, <2>4 DEF TypeOK, Result
    <2>6. Individual'
        BY <1>1, <2>1, <2>2, <2>4 DEF Individual
    <2> QED
        BY <1>2, <2>1, <2>5, <2>6 DEF IInv, Checked, ResultsAgree, PointsAnswered
<1> QED
    BY <1>3, <1>4

LEMMA VerifyOneKeepsIInv == IInv /\ VerifyOne => IInv'
<1> SUFFICES ASSUME IInv, VerifyOne PROVE IInv'
    OBVIOUS
<1>1. /\ TypeOK /\ Stored /\ Individual /\ pc = "individual"
      /\ UNCHANGED <<batch, lower, pc, pulled, keys, optimistic_result, seen, unsound>>
    BY DEF IInv, VerifyOne
<1>2. PICK i \in todo : /\ result' = [result EXCEPT ![i] = Verify(keys[i], optimistic_result[i])]
                        /\ todo' = todo \ {i}
    BY DEF VerifyOne
<1>3. i \in 1 .. pulled /\ Len(result) = pulled
    BY <1>1 DEF Individual
<1>4. keys[i] = batch[i].key /\ optimistic_result[i] = batch[i].ack
    BY <1>1, <1>3 DEF Stored
<1>5. Verify(keys[i], optimistic_result[i]) \in Result
    <2>1. i \in 1 .. Len(batch)
        BY <1>1, <1>3, Types
    <2> QED
        BY <1>1, <1>4, <2>1, EntryType, VerifyType
<1>6. result \in Seq(Result)
    BY <1>1 DEF TypeOK, Result
<1>7. /\ result' \in Seq(Result) /\ Len(result') = pulled
      /\ \A j \in 1 .. pulled :
            result'[j] = IF j = i THEN Verify(keys[i], optimistic_result[i]) ELSE result[j]
    BY <1>2, <1>3, <1>5, <1>6, ExceptSeq
<1>8. TypeOK'
    BY <1>1, <1>2, <1>7 DEF TypeOK, Result
<1>9. Individual'
    <2>1. \A j \in (1 .. pulled) \ todo' : Answers(j, result'[j])
        BY <1>1, <1>2, <1>4, <1>7 DEF Individual, Answers
    <2>2. \A j \in (1 .. pulled) \ todo' : Answers(j, result[j])'
        BY <1>1, <2>1 DEF Answers, Verify, Verifies
    <2> QED
        BY <1>1, <1>2, <1>7, <2>2 DEF Individual, AllPoints
<1> QED
    BY <1>1, <1>8, <1>9 DEF IInv, Stored, Checked, ResultsAgree, PointsAnswered

LEMMA CollectKeepsIInv == IInv /\ Collect => IInv'
<1> SUFFICES ASSUME IInv, Collect PROVE IInv'
    OBVIOUS
<1>1. /\ TypeOK /\ Stored /\ Individual /\ pc = "individual" /\ todo = {} /\ pc' = "done"
      /\ UNCHANGED <<batch, lower, pulled, keys, optimistic_result, seen, unsound, todo, result>>
    BY DEF IInv, Collect
<1>2. TypeOK' /\ Stored'
    BY <1>1 DEF TypeOK, Stored
<1>3. ResultsAgree'
    <2>1. \A i \in DOMAIN result : result[i] = Verify(batch[i].key, batch[i].ack)
        BY <1>1, Types DEF Individual, Answers
    <2> QED
        BY <1>1, <2>1 DEF ResultsAgree, Verify, Verifies
<1>4. PointsAnswered'
    BY <1>1 DEF PointsAnswered, Individual, AllPoints
<1> QED
    BY <1>1, <1>2, <1>3, <1>4 DEF IInv, Checked, Individual

LEMMA NextIInv == IInv /\ [Next]_vars => IInv'
<1> SUFFICES ASSUME IInv, [Next]_vars PROVE IInv'
    OBVIOUS
<1>1. CASE UNCHANGED vars
    BY <1>1 DEF vars, IInv, TypeOK, Stored, Checked, Individual, AllPoints, Answers,
        ResultsAgree, PointsAnswered, Verify, Verifies
<1> QED
    BY <1>1, VerifyEachKeepsIInv, StartKeepsIInv, PullKeepsIInv, CheckKeepsIInv,
       VerifyOneKeepsIInv, CollectKeepsIInv DEF Next

LEMMA Invariance == Spec => []IInv
BY InitIInv, NextIInv, PTL DEF Spec

-----------------------------------------------------------------------------
\* The variables of verify_batch keep their types, for batches and memos of any size.
THEOREM TypeCorrect == Spec => []TypeOK
<1>1. IInv => TypeOK
    BY DEF IInv
<1> QED
    BY <1>1, Invariance, PTL

\* verify_batch answers each entry as verify does, whatever the company.
THEOREM BatchesAgree == Spec => []ResultsAgree
<1>1. IInv => ResultsAgree
    BY DEF IInv
<1> QED
    BY <1>1, Invariance, PTL

\* verify_batch answers every entry of a batch of keys that are points.
THEOREM BatchesOfPointsAreAnswered == Spec => []PointsAnswered
<1>1. IInv => PointsAnswered
    BY DEF IInv
<1> QED
    BY <1>1, Invariance, PTL

-----------------------------------------------------------------------------
(* Lioness is a permutation of the blocks, for parts of any size, any       *)
(* stream cipher and any keyed digest, in place or not.  Both directions    *)
(* are reduced to one pure form (Rounds, RoundsBack): the four halves they  *)
(* compute in turn.  Where a round reads the input, its buffer still holds  *)
(* what the round before would have written, or the buffers are one; after  *)
(* that the inversion is four times the same fact, that adding a mask       *)
(* twice changes nothing.                                                   *)

\* The rounds on the parts of a block.
Rounds(key, l, r) ==
    LET r1 == Xor(r, Keystream(Xor(l, key.k1), key.iv1))
        l1 == Xor(l, Digest(key.k2, r1))
        r2 == Xor(r1, Keystream(Xor(l1, key.k3), key.iv2))
    IN  [left |-> Xor(l1, Digest(key.k4, r2)), right |-> r2]

RoundsBack(key, l, r) ==
    LET l1 == Xor(l, Digest(key.k4, r))
        r1 == Xor(r, Keystream(Xor(l1, key.k3), key.iv2))
        l2 == Xor(l1, Digest(key.k2, r1))
    IN  [left |-> l2, right |-> Xor(r1, Keystream(Xor(l2, key.k1), key.iv1))]

-----------------------------------------------------------------------------
\* XOR with the same mask twice.
LEMMA XorTwice ==
    ASSUME NEW S, NEW a \in SUBSET S, NEW b \in SUBSET S
    PROVE  Xor(a, b) \in SUBSET S /\ Xor(Xor(a, b), b) = a
BY DEF Xor

\* What the rounds compute stays within the two parts.
LEMMA KeystreamType ==
    ASSUME NEW a \in Left, NEW k \in Left, NEW iv \in Iv
    PROVE  Keystream(Xor(a, k), iv) \in Right
<1>1. Xor(a, k) \in SUBSET LeftBits
    BY XorTwice DEF Left
<1> QED
    BY <1>1, KeystreamAssumption DEF Right

LEMMA DigestType ==
    ASSUME NEW k \in Left, NEW r \in Right
    PROVE  Digest(k, r) \in Left
BY DigestAssumption DEF Left, Right

LEMMA XorLeft ==
    ASSUME NEW a \in Left, NEW b \in Left
    PROVE  Xor(a, b) \in Left /\ Xor(Xor(a, b), b) = a
BY XorTwice DEF Left

LEMMA XorRight ==
    ASSUME NEW a \in Right, NEW b \in Right
    PROVE  Xor(a, b) \in Right /\ Xor(Xor(a, b), b) = a
BY XorTwice DEF Right

-----------------------------------------------------------------------------
\* The two buffers by their parts, and what a write leaves in them.
Parts(a, b, c, d) == [in |-> [left |-> a, right |-> b], out |-> [left |-> c, right |-> d]]

LEMMA BuffersParts ==
    ASSUME NEW block \in Block, NEW out \in Block, NEW p
    PROVE  \E c, d : Buffers(p, block, out) = Parts(block.left, block.right, c, d)
<1>1. CASE p
    BY <1>1 DEF Buffers, Parts, Block
<1>2. CASE ~p
    BY <1>2 DEF Buffers, Parts, Block
<1> QED
    BY <1>1, <1>2

LEMMA WriteLeftParts ==
    ASSUME NEW p, NEW a, NEW b, NEW c, NEW d, NEW x
    PROVE  WriteLeft(p, Parts(a, b, c, d), x) = Parts(IF p THEN x ELSE a, b, x, d)
<1>1. CASE p
    BY <1>1 DEF WriteLeft, Parts
<1>2. CASE ~p
    BY <1>2 DEF WriteLeft, Parts
<1> QED
    BY <1>1, <1>2

LEMMA WriteRightParts ==
    ASSUME NEW p, NEW a, NEW b, NEW c, NEW d, NEW x
    PROVE  WriteRight(p, Parts(a, b, c, d), x) = Parts(a, IF p THEN x ELSE b, c, x)
<1>1. CASE p
    BY <1>1 DEF WriteRight, Parts
<1>2. CASE ~p
    BY <1>2 DEF WriteRight, Parts
<1> QED
    BY <1>1, <1>2

\* encrypt_block computes the rounds, whatever buffer it writes to.
LEMMA EncryptIsRounds ==
    ASSUME NEW key, NEW block \in Block, NEW out \in Block, NEW p \in BOOLEAN
    PROVE  Encrypted(p, key, block, out) = Rounds(key, block.left, block.right)
<1>1. PICK a, b : a = block.left /\ b = block.right
    OBVIOUS
<1>2. PICK c, d : Buffers(p, block, out) = Parts(a, b, c, d)
    BY <1>1, BuffersParts
<1>3. PICK r1 : r1 = Xor(b, Keystream(Xor(a, key.k1), key.iv1))
    OBVIOUS
<1>4. PICK l1 : l1 = Xor(a, Digest(key.k2, r1))
    OBVIOUS
<1>5. PICK r2 : r2 = Xor(r1, Keystream(Xor(l1, key.k3), key.iv2))
    OBVIOUS
<1>6. PICK b1 : b1 = IF p THEN r1 ELSE b
    OBVIOUS
<1>7. PICK a2 : a2 = IF p THEN l1 ELSE a
    OBVIOUS
<1>8. PICK b3 : b3 = IF p THEN r2 ELSE b1
    OBVIOUS
<1>9. PICK a4 : a4 = IF p THEN Xor(l1, Digest(key.k4, r2)) ELSE a2
    OBVIOUS
<1>10. WriteRight(p, Parts(a, b, c, d), r1) = Parts(a, b1, c, r1)
    BY <1>6, WriteRightParts
<1>11. WriteLeft(p, Parts(a, b1, c, r1), l1) = Parts(a2, b1, l1, r1)
    BY <1>7, WriteLeftParts
<1>12. WriteRight(p, Parts(a2, b1, l1, r1), r2) = Parts(a2, b3, l1, r2)
    BY <1>8, WriteRightParts
<1>13. WriteLeft(p, Parts(a2, b3, l1, r2), Xor(l1, Digest(key.k4, r2)))
           = Parts(a4, b3, Xor(l1, Digest(key.k4, r2)), r2)
    BY <1>9, WriteLeftParts
<1>14. EncryptBlock(p, key, Parts(a, b, c, d)) = Parts(a4, b3, Xor(l1, Digest(key.k4, r2)), r2)
    <2> DEFINE m0 == Parts(a, b, c, d)
               m1 == WriteRight(p, m0, Xor(m0.in.right, Keystream(Xor(m0.in.left, key.k1), key.iv1)))
               m2 == WriteLeft(p, m1, Xor(m1.in.left, Digest(key.k2, m1.out.right)))
               m3 == WriteRight(p, m2, Xor(m2.out.right, Keystream(Xor(m2.out.left, key.k3), key.iv2)))
    <2>1. EncryptBlock(p, key, m0) = WriteLeft(p, m3, Xor(m3.out.left, Digest(key.k4, m3.out.right)))
        BY DEF EncryptBlock
    <2>2. m1 = Parts(a, b1, c, r1)
        <3>1. m0.in.left = a /\ m0.in.right = b
            BY DEF Parts
        <3> QED
            BY <3>1, <1>3, <1>10
    <2> HIDE DEF m1
    <2>3. m2 = Parts(a2, b1, l1, r1)
        <3>1. m1.in.left = a /\ m1.out.right = r1
            BY <2>2 DEF Parts
        <3> QED
            BY <2>2, <3>1, <1>4, <1>11
    <2> HIDE DEF m2
    <2>4. m3 = Parts(a2, b3, l1, r2)
        <3>1. m2.out.left = l1 /\ m2.out.right = r1
            BY <2>3 DEF Parts
        <3> QED
            BY <2>3, <3>1, <1>5, <1>12
    <2> HIDE DEF m3
    <2> QED
        <3>1. m3.out.left = l1 /\ m3.out.right = r2
            BY <2>4 DEF Parts
        <3> QED
            BY <2>4, <3>1, <1>13, <2>1
<1>15. Encrypted(p, key, block, out) = [left |-> Xor(l1, Digest(key.k4, r2)), right |-> r2]
    BY <1>2, <1>14 DEF Encrypted, Parts
<1> QED
    BY <1>1, <1>3, <1>4, <1>5, <1>15 DEF Rounds

\* decrypt_block computes the rounds in the opposite order.
LEMMA DecryptIsRoundsBack ==
    ASSUME NEW key, NEW block \in Block, NEW out \in Block, NEW p \in BOOLEAN
    PROVE  Decrypted(p, key, block, out) = RoundsBack(key, block.left, block.right)
<1>1. PICK a, b : a = block.left /\ b = block.right
    OBVIOUS
<1>2. PICK c, d : Buffers(p, block, out) = Parts(a, b, c, d)
    BY <1>1, BuffersParts
<1>3. PICK l1 : l1 = Xor(a, Digest(key.k4, b))
    OBVIOUS
<1>4. PICK r1 : r1 = Xor(b, Keystream(Xor(l1, key.k3), key.iv2))
    OBVIOUS
<1>5. PICK l2 : l2 = Xor(l1, Digest(key.k2, r1))
    OBVIOUS
<1>6. PICK a1 : a1 = IF p THEN l1 ELSE a
    OBVIOUS
<1>7. PICK b2 : b2 = IF p THEN r1 ELSE b
    OBVIOUS
<1>8. PICK a3 : a3 = IF p THEN l2 ELSE a1
    OBVIOUS
<1>9. PICK b4 : b4 = IF p THEN Xor(r1, Keystream(Xor(l2, key.k1), key.iv1)) ELSE b2
    OBVIOUS
<1>10. WriteLeft(p, Parts(a, b, c, d), l1) = Parts(a1, b, l1, d)
    BY <1>6, WriteLeftParts
<1>11. WriteRight(p, Parts(a1, b, l1, d), r1) = Parts(a1, b2, l1, r1)
    BY <1>7, WriteRightParts
<1>12. WriteLeft(p, Parts(a1, b2, l1, r1), l2) = Parts(a3, b2, l2, r1)
    BY <1>8, WriteLeftParts
<1>13. WriteRight(p, Parts(a3, b2, l2, r1), Xor(r1, Keystream(Xor(l2, key.k1), key.iv1)))
           = Parts(a3, b4, l2, Xor(r1, Keystream(Xor(l2, key.k1), key.iv1)))
    BY <1>9, WriteRightParts
<1>14. DecryptBlock(p, key, Parts(a, b, c, d))
           = Parts(a3, b4, l2, Xor(r1, Keystream(Xor(l2, key.k1), key.iv1)))
    <2> DEFINE m0 == Parts(a, b, c, d)
               m1 == WriteLeft(p, m0, Xor(m0.in.left, Digest(key.k4, m0.in.right)))
               m2 == WriteRight(p, m1, Xor(m1.in.right, Keystream(Xor(m1.out.left, key.k3), key.iv2)))
               m3 == WriteLeft(p, m2, Xor(m2.out.left, Digest(key.k2, m2.out.right)))
    <2>1. DecryptBlock(p, key, m0)
              = WriteRight(p, m3, Xor(m3.out.right, Keystream(Xor(m3.out.left, key.k1), key.iv1)))
        BY DEF DecryptBlock
    <2>2. m1 = Parts(a1, b, l1, d)
        <3>1. m0.in.left = a /\ m0.in.right = b
            BY DEF Parts
        <3> QED
            BY <3>1, <1>3, <1>10
    <2> HIDE DEF m1
    <2>3. m2 = Parts(a1, b2, l1, r1)
        <3>1. m1.out.left = l1 /\ m1.in.right = b
            BY <2>2 DEF Parts
        <3> QED
            BY <2>2, <3>1, <1>4, <1>11
    <2> HIDE DEF m2
    <2>4. m3 = Parts(a3, b2, l2, r1)
        <3>1. m2.out.left = l1 /\ m2.out.right = r1
            BY <2>3 DEF Parts
        <3> QED
            BY <2>3, <3>1, <1>5, <1>12
    <2> HIDE DEF m3
    <2> QED
        <3>1. m3.out.left = l2 /\ m3.out.right = r1
            BY <2>4 DEF Parts
        <3> QED
            BY <2>4, <3>1, <1>13, <2>1
<1>15. Decrypted(p, key, block, out)
           = [left |-> l2, right |-> Xor(r1, Keystream(Xor(l2, key.k1), key.iv1))]
    BY <1>2, <1>14 DEF Decrypted, Parts
<1> QED
    BY <1>1, <1>3, <1>4, <1>5, <1>15 DEF RoundsBack

\* Rounds gives a block, and RoundsBack of it the block it came from.
LEMMA RoundsInvert ==
    ASSUME NEW key \in CipherKey, NEW l \in Left, NEW r \in Right
    PROVE  LET c == Rounds(key, l, r)
           IN  c \in Block /\ RoundsBack(key, c.left, c.right) = [left |-> l, right |-> r]
<1> DEFINE s1 == Keystream(Xor(l, key.k1), key.iv1)    r1 == Xor(r, s1)
           d1 == Digest(key.k2, r1)                    l1 == Xor(l, d1)
           s2 == Keystream(Xor(l1, key.k3), key.iv2)   r2 == Xor(r1, s2)
           d2 == Digest(key.k4, r2)                    l2 == Xor(l1, d2)
<1>1. /\ key.k1 \in Left /\ key.k2 \in Left /\ key.k3 \in Left /\ key.k4 \in Left
      /\ key.iv1 \in Iv /\ key.iv2 \in Iv
    BY DEF CipherKey
<1>2. s1 \in Right /\ r1 \in Right /\ Xor(r1, s1) = r
    <2>1. s1 \in Right
        BY <1>1, KeystreamType
    <2> QED
        BY <2>1, XorRight
<1>3. d1 \in Left /\ l1 \in Left /\ Xor(l1, d1) = l
    <2>1. d1 \in Left
        BY <1>1, <1>2, DigestType
    <2> QED
        BY <2>1, XorLeft
<1>4. s2 \in Right /\ r2 \in Right /\ Xor(r2, s2) = r1
    <2>1. s2 \in Right
        BY <1>1, <1>3, KeystreamType
    <2> QED
        BY <1>2, <2>1, XorRight
<1>5. d2 \in Left /\ l2 \in Left /\ Xor(l2, d2) = l1
    <2>1. d2 \in Left
        BY <1>1, <1>4, DigestType
    <2> QED
        BY <1>3, <2>1, XorLeft
<1>6. Rounds(key, l, r) = [left |-> l2, right |-> r2]
    BY DEF Rounds
<1>7. RoundsBack(key, l2, r2) = [left |-> l, right |-> r]
    <2>1. RoundsBack(key, l2, r2) =
            LET b1 == Xor(l2, d2)
                c1 == Xor(r2, Keystream(Xor(b1, key.k3), key.iv2))
                b2 == Xor(b1, Digest(key.k2, c1))
            IN  [left |-> b2, right |-> Xor(c1, Keystream(Xor(b2, key.k1), key.iv1))]
        BY DEF RoundsBack
    <2>2. Xor(r2, Keystream(Xor(l1, key.k3), key.iv2)) = r1
        BY <1>4
    <2>3. Xor(l1, Digest(key.k2, r1)) = l
        BY <1>3
    <2>4. Xor(r1, Keystream(Xor(l, key.k1), key.iv1)) = r
        BY <1>2
    <2> HIDE DEF l2, d2, r2, s2, l1, d1, r1, s1
    <2> QED
        BY <1>5, <2>1, <2>2, <2>3, <2>4
<1> HIDE DEF l2, r2
<1> QED
    BY <1>4, <1>5, <1>6, <1>7 DEF Block

\* RoundsBack gives a block, and Rounds of it the block it came from.
LEMMA RoundsBackInvert ==
    ASSUME NEW key \in CipherKey, NEW l \in Left, NEW r \in Right
    PROVE  LET c == RoundsBack(key, l, r)
           IN  c \in Block /\ Rounds(key, c.left, c.right) = [left |-> l, right |-> r]
<1> DEFINE d1 == Digest(key.k4, r)                     l1 == Xor(l, d1)
           s1 == Keystream(Xor(l1, key.k3), key.iv2)   r1 == Xor(r, s1)
           d2 == Digest(key.k2, r1)                    l2 == Xor(l1, d2)
           s2 == Keystream(Xor(l2, key.k1), key.iv1)   r2 == Xor(r1, s2)
<1>1. /\ key.k1 \in Left /\ key.k2 \in Left /\ key.k3 \in Left /\ key.k4 \in Left
      /\ key.iv1 \in Iv /\ key.iv2 \in Iv
    BY DEF CipherKey
<1>2. d1 \in Left /\ l1 \in Left /\ Xor(l1, d1) = l
    <2>1. d1 \in Left
        BY <1>1, DigestType
    <2> QED
        BY <2>1, XorLeft
<1>3. s1 \in Right /\ r1 \in Right /\ Xor(r1, s1) = r
    <2>1. s1 \in Right
        BY <1>1, <1>2, KeystreamType
    <2> QED
        BY <2>1, XorRight
<1>4. d2 \in Left /\ l2 \in Left /\ Xor(l2, d2) = l1
    <2>1. d2 \in Left
        BY <1>1, <1>3, DigestType
    <2> QED
        BY <1>2, <2>1, XorLeft
<1>5. s2 \in Right /\ r2 \in Right /\ Xor(r2, s2) = r1
    <2>1. s2 \in Right
        BY <1>1, <1>4, KeystreamType
    <2> QED
        BY <1>3, <2>1, XorRight
<1>6. RoundsBack(key, l, r) = [left |-> l2, right |-> r2]
    BY DEF RoundsBack
<1>7. Rounds(key, l2, r2) = [left |-> l, right |-> r]
    <2>1. Rounds(key, l2, r2) =
            LET c1 == Xor(r2, s2)
                b1 == Xor(l2, Digest(key.k2, c1))
                c2 == Xor(c1, Keystream(Xor(b1, key.k3), key.iv2))
            IN  [left |-> Xor(b1, Digest(key.k4, c2)), right |-> c2]
        BY DEF Rounds
    <2>2. Xor(l2, Digest(key.k2, r1)) = l1
        BY <1>4
    <2>3. Xor(r1, Keystream(Xor(l1, key.k3), key.iv2)) = r
        BY <1>3
    <2>4. Xor(l1, Digest(key.k4, r)) = l
        BY <1>2
    <2> HIDE DEF l2, d2, r2, s2, l1, d1, r1, s1
    <2> QED
        BY <1>5, <2>1, <2>2, <2>3, <2>4
<1> HIDE DEF l2, r2
<1> QED
    BY <1>4, <1>5, <1>6, <1>7 DEF Block

-----------------------------------------------------------------------------
\* encrypt_block and decrypt_block undo each other for every key and block, whichever comes
\* first, each in place or into a buffer with any content.
THEOREM CipherIsPermutation ==
    ASSUME NEW key \in CipherKey, NEW block \in Block, NEW out \in Block
    PROVE  BlocksComeBack(key, block, out)
<1>1. /\ block.left \in Left /\ block.right \in Right
      /\ block = [left |-> block.left, right |-> block.right]
    BY DEF Block
<1> SUFFICES ASSUME NEW p \in BOOLEAN, NEW q \in BOOLEAN
             PROVE  /\ Decrypted(q, key, Encrypted(p, key, block, out), out) = block
                    /\ Encrypted(q, key, Decrypted(p, key, block, out), out) = block
    BY DEF BlocksComeBack
<1>2. Decrypted(q, key, Encrypted(p, key, block, out), out) = block
    <2>1. Encrypted(p, key, block, out) = Rounds(key, block.left, block.right)
        BY EncryptIsRounds
    <2>2. Rounds(key, block.left, block.right) \in Block
        BY <1>1, RoundsInvert
    <2> QED
        BY <1>1, <2>1, <2>2, DecryptIsRoundsBack, RoundsInvert
<1>3. Encrypted(q, key, Decrypted(p, key, block, out), out) = block
    <2>1. Decrypted(p, key, block, out) = RoundsBack(key, block.left, block.right)
        BY DecryptIsRoundsBack
    <2>2. RoundsBack(key, block.left, block.right) \in Block
        BY <1>1, RoundsBackInvert
    <2> QED
        BY <1>1, <2>1, <2>2, EncryptIsRounds, RoundsBackInvert
<1> QED
    BY <1>2, <1>3

-----------------------------------------------------------------------------
(* A derived VRF verifies, for every group with the laws of                 *)
(* GroupAssumption and any hash functions: on each of the two bases the     *)
(* verifier subtracts from the response what the challenge added to the     *)
(* commitment (Opens), so that it hashes what the prover hashed.            *)

\* s * P - h * (a * P) is r * P, for the response s to the challenge h.
LEMMA Opens ==
    ASSUME NEW a \in Scalar, NEW h \in Scalar, NEW r \in Scalar, NEW P \in Secp256k1
    PROVE  Minus(Times(ResponseTo(r, h, a), P), Times(h, Times(a, P))) = Times(r, P)
<1>1. ScalarMul(h, a) \in Scalar
    BY ScalarAssumption
<1>2. Times(ResponseTo(r, h, a), P) = Plus(Times(r, P), Times(ScalarMul(h, a), P))
    BY <1>1, GroupAssumption DEF ResponseTo
<1>3. Times(ScalarMul(h, a), P) = Times(h, Times(a, P))
    BY GroupAssumption
<1>4. Times(r, P) \in Secp256k1 /\ Times(h, Times(a, P)) \in Secp256k1
    BY GroupAssumption
<1> QED
    BY <1>2, <1>3, <1>4, GroupAssumption

\* The public key and the payload of a key are points other than the identity.
LEMMA Bases ==
    ASSUME NEW a \in ChainSecret, NEW m \in Message, NEW d \in Tag
    PROVE  /\ PublicKeyOf(a) \in Secp256k1 \ {Identity}
           /\ PayloadOf(a, m, d) \in Secp256k1 \ {Identity}
           /\ Times(a, PayloadOf(a, m, d)) \in Secp256k1 \ {Identity}
<1>1. PublicKeyOf(a) \in Secp256k1 \ {Identity}
    BY GroupAssumption DEF ChainSecret, PublicKeyOf
<1>2. PayloadOf(a, m, d) \in Secp256k1 \ {Identity}
    BY <1>1, HashAssumption DEF PayloadOf, CreatorOf
<1>3. Times(a, PayloadOf(a, m, d)) \in Secp256k1 \ {Identity}
    BY <1>2, GroupAssumption DEF ChainSecret
<1> QED
    BY <1>1, <1>2, <1>3

\* derive_vrf_parameters and verify agree for every key, message, tag and draw, and V does not
\* depend on the draw.
THEOREM DerivedVrfVerifies ==
    ASSUME NEW a \in ChainSecret, NEW m \in Message, NEW d \in Tag,
           NEW r \in Scalar, NEW other \in Scalar
    PROVE  VrfAgrees(a, m, d, r, other)
<1> DEFINE params == DeriveVrfParameters(a, m, d, r)
           PK == PublicKeyOf(a)
           B == PayloadOf(a, m, d)
           V == Times(a, B)
           bound == Transcript(CreatorOf(a), PK, V, Times(r, Generator), Times(r, B))
           h == HashToScalar(bound, m, d)
<1>1. /\ PK \in Secp256k1 /\ PK # Identity
      /\ B \in Secp256k1 /\ V \in Secp256k1 /\ V # Identity
    BY Bases
<1>2. h \in Scalar
    <2>1. Times(r, Generator) \in Secp256k1 /\ Times(r, B) \in Secp256k1
        BY <1>1, GroupAssumption
    <2> QED
        BY <1>1, <2>1, HashAssumption DEF Transcript, CreatorOf
<1>3. params = [V |-> V, h |-> h, s |-> ResponseTo(r, h, a), A |-> PK]
    BY DEF DeriveVrfParameters
<1>4. params.V = V /\ params.h = h /\ params.s = ResponseTo(r, h, a) /\ params.A = PK
    BY <1>3
<1> HIDE DEF params, h, V, PK, B
<1>5. Commitment(params) = Times(r, Generator)
    <2>1. PK = Times(a, Generator) /\ a \in Scalar
        BY DEF PK, PublicKeyOf, ChainSecret
    <2>2. Generator \in Secp256k1
        BY GroupAssumption
    <2> QED
        BY <1>2, <1>4, <2>1, <2>2, Opens DEF Commitment, SGWitness, HAWitness
<1>6. Minus(SBWitness(params, CreatorOf(a), m, d), HVWitness(params)) = Times(r, B)
    <2>1. V = Times(a, B) /\ a \in Scalar /\ HashToCurve(CreatorOf(a), m, d) = B
        BY DEF V, B, PayloadOf, ChainSecret
    <2> QED
        BY <1>1, <1>2, <1>4, <2>1, Opens DEF SBWitness, HVWitness
<1>7. VrfVerifies(params, CreatorOf(a), m, d)
    BY <1>4, <1>5, <1>6 DEF VrfVerifies, h
<1>8. DeriveVrfParametersC(a, m, d, r) \subseteq {params}
    BY DEF DeriveVrfParametersC, params
<1>9. DeriveVrfParameters(a, m, d, other).V = params.V
      /\ DeriveVrfParameters(a, m, d, other).A = params.A
    BY <1>4 DEF DeriveVrfParameters, V, PK, B
<1>10. ~Panics(params)
    BY <1>1, <1>4 DEF Panics
<1>11. FromBytes(ToBytes(params)) = params
    <2>1. ToBytes(params) = <<V, h, ResponseTo(r, h, a), PK>>
        BY <1>4 DEF ToBytes
    <2> QED
        BY <1>3, <2>1 DEF FromBytes
<1> QED
    BY <1>5, <1>6, <1>7, <1>8, <1>9, <1>10, <1>11 DEF VrfAgrees, params, B

-----------------------------------------------------------------------------
(* Peer ids, announcements, service names and routes, for keys, prefixes    *)
(* and bounds of any size.                                                  *)

\* A set of natural numbers with a member has a least one.
LEMMA LeastOf ==
    ASSUME NEW T \in SUBSET Nat, NEW n \in T
    PROVE  \E x \in T : \A y \in T : ~(y < x)
<1>1. IsWellFoundedOn(OpToRel(<, Nat), Nat)
    BY NatLessThanWellFounded
<1>2. \E x \in T : \A y \in T : ~(<<y, x>> \in OpToRel(<, Nat))
    BY <1>1, WFMin, Zenon
<1>3. \A x, y \in Nat : y < x => <<y, x>> \in OpToRel(<, Nat)
    BY DEF OpToRel
<1> QED
    BY <1>2, <1>3

\* A key after its tags, and what is left when they are cut off.
LEMMA TaggedKey ==
    ASSUME NEW k \in PacketKey
    PROVE  /\ k \in Seq(Nat) /\ Len(k) = KeySize
           /\ KeyPrefix \o k \in Seq(Nat) /\ Len(KeyPrefix \o k) = Len(KeyPrefix) + KeySize
           /\ I!IsPrefix(KeyPrefix, KeyPrefix \o k)
           /\ SubSeq(KeyPrefix \o k, Len(KeyPrefix) + 1, Len(KeyPrefix \o k)) = k
<1>1. k \in [1 .. KeySize -> Nat] /\ KeySize \in Nat /\ KeyPrefix \in Seq(Nat)
    BY IdentityAssumption
<1>2. k \in Seq(Nat) /\ Len(k) = KeySize /\ DOMAIN k = 1 .. KeySize
    BY <1>1, FunctionIsSeq
<1>3. PICK d : d = KeyPrefix \o k
    OBVIOUS
<1>4. PICK n : n = Len(KeyPrefix)
    OBVIOUS
<1>5. n \in Nat
    BY <1>1, <1>4, LenProperties
<1>6. /\ d \in Seq(Nat) /\ Len(d) = n + KeySize
      /\ \A i \in 1 .. n + KeySize : d[i] = IF i <= n THEN KeyPrefix[i] ELSE k[i - n]
    BY <1>1, <1>2, <1>3, <1>4, ConcatProperties
<1>7. PICK r : r = SubSeq(d, n + 1, Len(d))
    OBVIOUS
<1>8. SubSeq(KeyPrefix, 1, n) = SubSeq(d, 1, n)
    <2>1. \A i \in 1 .. n : KeyPrefix[i] \in Nat /\ d[i] = KeyPrefix[i]
        BY <1>1, <1>4, <1>5, <1>6, ElementOfSeq
    <2>2. \A x \in {KeyPrefix, d} :
              /\ SubSeq(x, 1, n) \in Seq(Nat) /\ Len(SubSeq(x, 1, n)) = n
              /\ \A i \in 1 .. n : SubSeq(x, 1, n)[i] = x[i]
        <3>1. \A x \in {KeyPrefix, d} : \A i \in 1 .. n : x[i] \in Nat
            BY <2>1
        <3> QED
            BY <1>5, <3>1, SubSeqProperties
    <2> QED
        BY <2>1, <2>2, SeqEqual
<1>9. r = k
    <2>1. \A i \in n + 1 .. n + KeySize : d[i] \in Nat
        BY <1>5, <1>1, <1>6, ElementOfSeq
    <2>2. /\ r \in Seq(Nat) /\ Len(r) = KeySize
          /\ \A i \in 1 .. KeySize : r[i] = d[n + i]
        <3>1. PICK first \in Int, last \in Int : first = n + 1 /\ last = n + KeySize
            BY <1>1, <1>5
        <3>2. \A i \in first .. last : d[i] \in Nat
            BY <2>1, <3>1
        <3>3. /\ SubSeq(d, first, last) \in Seq(Nat)
              /\ Len(SubSeq(d, first, last)) = IF first <= last THEN last - first + 1 ELSE 0
              /\ \A i \in 1 .. last - first + 1 : SubSeq(d, first, last)[i] = d[first + i - 1]
            BY <3>2, SubSeqProperties
        <3>4. r = SubSeq(d, first, last)
            BY <1>6, <1>7, <3>1
        <3>5. last - first + 1 = KeySize /\ \A i \in 1 .. KeySize : first + i - 1 = n + i
            BY <1>1, <1>5, <3>1
        <3>6. first <= last \/ KeySize = 0
            BY <1>1, <1>5, <3>1
        <3> QED
            BY <1>1, <3>3, <3>4, <3>5, <3>6
    <2>3. \A i \in 1 .. KeySize : d[n + i] = k[i]
        BY <1>1, <1>5, <1>6
    <2> QED
        BY <1>2, <2>2, <2>3, SeqEqual
<1>10. Len(d) = n + KeySize /\ n <= Len(d)
    BY <1>1, <1>5, <1>6
<1>11. I!IsPrefix(KeyPrefix, d)
    BY <1>4, <1>8, <1>10 DEF I!IsPrefix
<1>12. SubSeq(d, n + 1, Len(d)) = k
    BY <1>7, <1>9
<1> QED
    BY <1>2, <1>3, <1>4, <1>6, <1>10, <1>11, <1>12

\* What is read of a peer id as a key gives the peer id again, and only this one.
LEMMA PeerIdsRead ==
    ASSUME NEW id \in Ids, NEW k \in PacketKey
    PROVE  I!PeerIdsIdentifyKeys(id, k) /\ (I!FromPeerId(id) = k <=> id = I!PeerId(k))
<1>1. k \in Seq(Nat) /\ k # Refused
    BY TaggedKey, IdentityAssumption
<1>2. I!PeerId(k).code = "identity" /\ I!PeerId(k).digest = KeyPrefix \o k
    BY DEF I!PeerId
<1>3. I!FromPeerId(I!PeerId(k)) = k
    BY <1>2, TaggedKey DEF I!FromPeerId
<1>4. I!FromPeerId(id) # Refused => I!PeerId(I!FromPeerId(id)) = id
    <2> SUFFICES ASSUME I!FromPeerId(id) # Refused PROVE I!PeerId(I!FromPeerId(id)) = id
        OBVIOUS
    <2>1. PICK d \in Seq(Nat) : d = id.digest
        BY DEF Ids
    <2>2. PICK n \in Nat : n = Len(KeyPrefix)
        BY LenProperties, IdentityAssumption
    <2>3. id = [code |-> "identity", digest |-> d]
        BY <2>1 DEF I!FromPeerId, Ids
    <2>4. /\ Len(d) = n + KeySize /\ SubSeq(KeyPrefix, 1, n) = SubSeq(d, 1, n)
          /\ I!FromPeerId(id) = SubSeq(d, n + 1, Len(d))
        BY <2>1, <2>2 DEF I!FromPeerId, I!IsPrefix
    <2>5. /\ SubSeq(KeyPrefix, 1, n) = KeyPrefix /\ SubSeq(d, 1, Len(d)) = d
        BY <2>2, SubSeqFull, IdentityAssumption
    <2>6. SubSeq(d, 1, n) \o SubSeq(d, n + 1, Len(d)) = SubSeq(d, 1, Len(d))
        <3>1. Len(d) \in Nat /\ 1 \in 1 .. Len(d) + 1 /\ n \in 1 - 1 .. Len(d)
              /\ Len(d) \in n .. Len(d)
            <4>1. KeySize \in Nat
                BY IdentityAssumption
            <4> QED
                BY <2>4, <4>1
        <3> QED
            BY <2>1, <3>1, ConcatAdjacentSubSeq
    <2> QED
        BY <2>3, <2>4, <2>5, <2>6 DEF I!PeerId
<1> QED
    BY <1>1, <1>3, <1>4 DEF I!PeerIdsIdentifyKeys

-----------------------------------------------------------------------------
\* The protocols of an address but for the peer id behind them.
LEMMA WithoutPeer ==
    ASSUME NEW address \in Seq(Protocols), NEW p \in Protocols
    PROVE  /\ Append(address, p) \in Seq(Protocols) /\ Append(address, p) # Refused
           /\ I!Front(Append(address, p)) = address
           /\ I!Last(Append(address, p)) = p
<1>1. PICK n \in Nat : n = Len(address)
    BY LenProperties
<1>2. PICK b : b = Append(address, p)
    OBVIOUS
<1>3. b \in Seq(Protocols) /\ Len(b) = n + 1 /\ b[n + 1] = p /\ \A i \in 1 .. n : b[i] = address[i]
    BY <1>1, <1>2, AppendProperties
<1>4. b # Refused
    BY <1>3, IdentityAssumption DEF Protocols, Ids
<1>5. SubSeq(b, 1, n) = address
    <2>1. \A i \in 1 .. n : b[i] \in Protocols
        BY <1>3, ElementOfSeq
    <2>2. /\ SubSeq(b, 1, n) \in Seq(Protocols) /\ Len(SubSeq(b, 1, n)) = n
          /\ \A i \in 1 .. n : SubSeq(b, 1, n)[i] = b[i]
        BY <2>1, SubSeqProperties
    <2> QED
        BY <1>1, <1>3, <2>2, SeqEqual
<1> QED
    BY <1>2, <1>3, <1>4, <1>5 DEF I!Front, I!Last

\* The peer id of a key, as the last protocol of an address.
LEMMA OwnProtocol ==
    ASSUME NEW k \in PacketKey
    PROVE  I!PeerId(k) \in Ids /\ I!P2p(I!PeerId(k)) \in Protocols
<1>1. I!PeerId(k) \in Ids
    <2>1. PICK d \in Seq(Nat) : d = KeyPrefix \o k
        BY TaggedKey
    <2>2. I!PeerId(k) = [code |-> "identity", digest |-> d]
        BY <2>1 DEF I!PeerId
    <2> QED
        BY <2>2 DEF Ids
<1> QED
    BY <1>1 DEF I!P2p, Protocols

\* What is announced of an address that ends in no peer id.
LEMMA PlainAnnounced ==
    ASSUME NEW binding \in Bindings, NEW address \in Seq(Protocols), address # <<>>,
           I!Last(address).name # "p2p"
    PROVE  I!Announcement(binding, address) = [multiaddress |-> address, key_binding |-> binding]
<1>1. PICK p \in Protocols : p = I!P2p(I!PeerId(binding.packet_key))
    BY OwnProtocol DEF Bindings
<1>2. I!WithP2p(address, I!PeerId(binding.packet_key)) = Append(address, p)
    BY <1>1 DEF I!WithP2p
<1> QED
    BY <1>2, WithoutPeer DEF I!Announcement

\* Where the first peer id of an address is, if there is but one, at its end.
LEMMA PeerAtEnd ==
    ASSUME NEW address \in Seq(Protocols), NEW n \in Nat, n = Len(address), n # 0,
           \A i \in 1 .. n : address[i].name = "p2p" => i = n
    PROVE  I!Decapsulated(address) = IF address[n].name = "p2p" THEN SubSeq(address, 1, n - 1)
                                     ELSE address
<1> DEFINE At == {i \in 1 .. Len(address) : address[i].name = "p2p"}
           first == IF At # {} THEN I!Min(At) ELSE 0
<1>1. I!Decapsulated(address) = IF first = 0 THEN address ELSE SubSeq(address, 1, first - 1)
    BY DEF I!Decapsulated, I!SelectInSeq
<1>2. CASE address[n].name = "p2p"
    <2>1. At = {n}
        BY <1>2
    <2> HIDE DEF At
    <2>2. I!Min(At) = n
        BY <2>1 DEF I!Min
    <2> QED
        BY <1>1, <1>2, <2>1, <2>2
<1>3. CASE address[n].name # "p2p"
    <2>1. At = {}
        BY <1>3
    <2> HIDE DEF At
    <2> QED
        BY <1>1, <1>3, <2>1
<1> QED
    BY <1>2, <1>3

\* A binding is accepted exactly if its own signature comes with it.
LEMMA BindingAccepted ==
    ASSUME NEW c \in ChainKey, NEW k \in PacketKey, NEW signature \in Signature
    PROVE  /\ I!BindingFromParts(c, k, signature) # Refused <=>
                  k \in OnCurve25519 /\ signature = I!NewBinding(c, k).signature
           /\ I!BindingFromParts(c, k, signature) # Refused =>
                  /\ I!BindingFromParts(c, k, signature) \in Bindings
                  /\ I!BindingFromParts(c, k, signature).packet_key = k
<1>1. [compact |-> k] # Refused
    BY IdentityAssumption
<1>2. [chain_key |-> c, packet_key |-> k, signature |-> signature] \in Bindings \ {Refused}
    BY IdentityAssumption DEF Bindings
<1>3. I!NewBinding(c, k).signature = [signer |-> k, message |-> I!Prepared(c, k)]
    BY DEF I!NewBinding, I!SignMessage
<1> QED
    BY <1>1, <1>2, <1>3 DEF I!BindingFromParts, I!VerifyMessage, I!Expanded

\* What an address says of its own routing does not depend on a peer id behind it.
LEMMA RoutingInfoKept ==
    ASSUME NEW address \in Seq(Protocols), NEW n \in Nat, n = Len(address), n # 0,
           address[n].name = "p2p"
    PROVE  I!HasAnnouncedWithRoutingInfo(<<SubSeq(address, 1, n - 1)>>)
               = I!HasAnnouncedWithRoutingInfo(<<address>>)
<1>1. PICK front : front = SubSeq(address, 1, n - 1)
    OBVIOUS
<1>2. /\ Len(front) = n - 1 /\ DOMAIN front = 1 .. n - 1 /\ DOMAIN address = 1 .. n
      /\ \A i \in 1 .. n - 1 : front[i] = address[i]
    <2>1. \A i \in 1 .. n - 1 : address[i] \in Protocols
        BY ElementOfSeq
    <2>2. /\ front \in Seq(Protocols) /\ Len(front) = n - 1
          /\ \A i \in 1 .. n - 1 : front[i] = address[i]
        BY <1>1, <2>1, SubSeqProperties
    <2> QED
        BY <2>2, LenProperties
<1> DEFINE Stack(a) == {p.name : p \in I!ToSet(a)}
           Routable(a) == /\ Stack(a) \cap {"ip4", "dns4", "ip6", "dns6"} # {}
                          /\ Stack(a) \cap {"tcp", "udp"} # {}
<1>3. \A a : I!HasAnnouncedWithRoutingInfo(<<a>>) <=> Routable(a)
    <2> TAKE a
    <2>1. <<a>> # <<>> /\ DOMAIN <<a>> = {1} /\ <<a>>[1] = a
        OBVIOUS
    <2> QED
        BY <2>1 DEF I!HasAnnouncedWithRoutingInfo
<1>4. \A x : x # "p2p" => (x \in Stack(front) <=> x \in Stack(address))
    <2> SUFFICES ASSUME NEW x, x # "p2p" PROVE x \in Stack(front) <=> x \in Stack(address)
        OBVIOUS
    <2>1. x \in Stack(front) <=> \E i \in 1 .. n - 1 : x = front[i].name
        BY <1>2 DEF I!ToSet
    <2>2. x \in Stack(address) <=> \E i \in 1 .. n : x = address[i].name
        BY <1>2 DEF I!ToSet
    <2>3. \A i \in 1 .. n : i \in 1 .. n - 1 \/ i = n
        OBVIOUS
    <2> QED
        BY <1>2, <2>1, <2>2, <2>3
<1> HIDE DEF Stack
<1>5. Routable(front) <=> Routable(address)
    BY <1>4
<1> HIDE DEF Routable
<1>6. I!HasAnnouncedWithRoutingInfo(<<front>>) \in BOOLEAN
      /\ I!HasAnnouncedWithRoutingInfo(<<address>>) \in BOOLEAN
    BY DEF I!HasAnnouncedWithRoutingInfo
<1> QED
    BY <1>1, <1>3, <1>5, <1>6

\* What is announced of an address that ends in a peer id: nothing if it is another's.
LEMMA EndedAnnounced ==
    ASSUME NEW binding \in Bindings, NEW address \in Seq(Protocols), address # <<>>,
           I!Last(address).name = "p2p"
    PROVE  I!Announcement(binding, address) =
               IF I!Last(address).peer = I!PeerId(binding.packet_key)
                 THEN [multiaddress |-> I!Front(address), key_binding |-> binding] ELSE Refused
<1>1. address # Refused
    BY IdentityAssumption
<1>2. I!WithP2p(address, I!PeerId(binding.packet_key)) =
          IF I!Last(address).peer = I!PeerId(binding.packet_key) THEN address ELSE Refused
    BY DEF I!WithP2p
<1> QED
    BY <1>1, <1>2 DEF I!Announcement

LEMMA AnnouncementsHold ==
    ASSUME NEW c \in ChainKey, NEW k \in PacketKey, NEW signature \in Signature,
           NEW address \in Seq(Protocols)
    PROVE  I!AnnouncementsBind(c, k, signature, address)
<1>1. PICK binding : binding = I!BindingFromParts(c, k, signature)
    OBVIOUS
<1>2. PICK made : made = I!Announcement(binding, address)
    OBVIOUS
<1>3. PICK peers : peers = {i \in DOMAIN address : address[i].name = "p2p"}
    OBVIOUS
<1>4. PICK n \in Nat : n = Len(address) /\ DOMAIN address = 1 .. n
    BY LenProperties
<1>5. binding # Refused <=> k \in OnCurve25519 /\ signature = I!NewBinding(c, k).signature
    BY <1>1, BindingAccepted
<1>6. ASSUME binding # Refused, address # <<>>, peers \subseteq {Len(address)}
      PROVE  /\ made = Refused <=> \E i \in peers : I!FromPeerId(address[i].peer) # k
             /\ made # Refused =>
                   /\ made.multiaddress = I!Decapsulated(address)
                   /\ made.multiaddress # <<>> =>
                          I!Announcement(binding, made.multiaddress) = made
                   /\ I!HasAnnouncedWithRoutingInfo(<<made.multiaddress>>)
                          = I!HasAnnouncedWithRoutingInfo(<<address>>)
    <2>1. binding \in Bindings /\ binding.packet_key = k
        BY <1>1, <1>6, BindingAccepted
    <2>2. n # 0 /\ n \in 1 .. n /\ I!Last(address) = address[n]
        BY <1>4, <1>6, EmptySeq DEF I!Last
    <2>3. \A i \in 1 .. n : address[i].name = "p2p" => i = n
        BY <1>3, <1>4, <1>6
    <2>4. PICK front : front = SubSeq(address, 1, n - 1)
        OBVIOUS
    <2>5. I!Decapsulated(address) = IF address[n].name = "p2p" THEN front ELSE address
        BY <1>4, <2>2, <2>3, <2>4, PeerAtEnd
    <2>6. CASE address[n].name # "p2p"
        <3>1. made = [multiaddress |-> address, key_binding |-> binding] /\ made.multiaddress = address
            BY <1>2, <1>6, <2>1, <2>2, <2>6, PlainAnnounced
        <3>2. made # Refused
            BY <2>1, <3>1, IdentityAssumption
        <3>3. peers = {}
            BY <1>3, <1>4, <2>3, <2>6
        <3> QED
            BY <1>2, <2>5, <2>6, <3>1, <3>2, <3>3
    <2>7. CASE address[n].name = "p2p"
        <3>1. made = IF address[n].peer = I!PeerId(k)
                       THEN [multiaddress |-> front, key_binding |-> binding] ELSE Refused
            BY <1>2, <1>4, <1>6, <2>1, <2>2, <2>4, <2>7, EndedAnnounced DEF I!Front
        <3>2. address[n].peer \in Ids
            <4>1. address[n] \in Protocols
                BY <1>4, <2>2, ElementOfSeq
            <4> QED
                BY <4>1 DEF Protocols
        <3>3. I!FromPeerId(address[n].peer) = k <=> address[n].peer = I!PeerId(k)
            BY <3>2, PeerIdsRead
        <3>4. peers = {n}
            BY <1>3, <1>4, <2>2, <2>3, <2>7
        <3>5. /\ front \in Seq(Protocols) /\ Len(front) = n - 1
              /\ \A i \in 1 .. n - 1 : front[i] = address[i]
            <4>1. \A i \in 1 .. n - 1 : address[i] \in Protocols
                BY <1>4, ElementOfSeq
            <4>2. n - 1 \in Nat /\ n - 1 - 1 + 1 = n - 1
                BY <2>2
            <4>3. \A i \in 1 .. n - 1 : 1 + i - 1 = i
                BY <2>2
            <4> QED
                BY <2>4, <4>1, <4>2, <4>3, SubSeqProperties
        <3>6. CASE address[n].peer # I!PeerId(k)
            BY <3>1, <3>3, <3>4, <3>6
        <3>7. CASE address[n].peer = I!PeerId(k)
            <4>1. made = [multiaddress |-> front, key_binding |-> binding] /\ made.multiaddress = front
                BY <3>1, <3>7
            <4>2. made # Refused
                BY <2>1, <3>5, <4>1, IdentityAssumption
            <4>3. ASSUME front # <<>> PROVE I!Announcement(binding, front) = made
                <5>1. n - 1 \in 1 .. n - 1 /\ I!Last(front) = address[n - 1]
                    BY <3>5, <4>3, EmptySeq DEF I!Last
                <5>2. I!Last(front).name # "p2p"
                    BY <2>3, <5>1
                <5> QED
                    BY <2>1, <3>5, <4>1, <4>3, <5>2, PlainAnnounced
            <4>4. I!HasAnnouncedWithRoutingInfo(<<front>>)
                      = I!HasAnnouncedWithRoutingInfo(<<address>>)
                BY <1>4, <2>2, <2>4, <2>7, RoutingInfoKept
            <4> QED
                BY <2>5, <2>7, <3>3, <3>4, <3>7, <4>1, <4>2, <4>3, <4>4
        <3> QED
            BY <3>6, <3>7
    <2> QED
        BY <2>6, <2>7
<1> QED
    BY <1>1, <1>2, <1>3, <1>5, <1>6 DEF I!AnnouncementsBind

-----------------------------------------------------------------------------
(* Names of service types                                                   *)

\* The bytes of a name, and of an identifier that has one.
LEMMA NameRead ==
    ASSUME NEW B, NEW id \in [1 .. NameSize -> B], NEW m \in 0 .. NameSize,
           \A i \in 1 .. NameSize : i > m => id[i] = Zero, m # 0 => id[m] # Zero
    PROVE  I!AsAscii(id) = IF I!ToSet(SubSeq(id, 1, m)) \subseteq Graphic
                             THEN SubSeq(id, 1, m) ELSE Refused
<1> DEFINE At == {i \in 1 .. Len(id) : id[i] # Zero}
           last == IF At # {} THEN I!Max(At) ELSE 0
<1>1. NameSize \in Nat /\ Len(id) = NameSize
    BY IdentityAssumption, FunctionIsSeq
<1>2. I!AsAscii(id) = IF I!ToSet(SubSeq(id, 1, last)) \subseteq Graphic
                        THEN SubSeq(id, 1, last) ELSE Refused
    BY DEF I!AsAscii, I!SelectLastInSeq
<1>3. last = m
    <2>1. \A i \in At : i <= m /\ i \in Nat /\ i >= 1
        BY <1>1
    <2>2. m # 0 => m \in At
        BY <1>1
    <2>3. m \in Nat
        BY <1>1
    <2> HIDE DEF At
    <2>4. CASE m = 0
        <3>1. At = {}
            BY <2>1, <2>4
        <3> QED
            BY <2>4, <3>1
    <2>5. CASE m # 0
        <3>1. I!Max(At) = m
            <4>1. PICK x : x = I!Max(At)
                OBVIOUS
            <4>2. x \in At /\ \A y \in At : x >= y
                BY <2>1, <2>2, <2>5, <4>1 DEF I!Max
            <4>3. x >= m /\ x <= m /\ x \in Nat
                BY <2>1, <2>2, <2>5, <4>2
            <4> QED
                BY <2>3, <4>1, <4>3
        <3> QED
            BY <2>2, <2>5, <3>1
    <2> QED
        BY <2>4, <2>5
<1> HIDE DEF last
<1> QED
    BY <1>2, <1>3

\* A name that was padded ends where it ended.
LEMMA PaddedName ==
    ASSUME NEW B, NEW s \in Seq(B), s # <<>>, Len(s) <= NameSize, I!ToSet(s) \subseteq Graphic
    PROVE  /\ I!ToSet(I!RightPad(s)) # {Zero}
           /\ I!AsAscii(I!RightPad(s)) = s
<1>1. PICK m \in Nat : m = Len(s) /\ DOMAIN s = 1 .. m
    BY LenProperties
<1>2. m # 0 /\ m \in 0 .. NameSize /\ m \in 1 .. m /\ NameSize \in Nat
    BY <1>1, EmptySeq, IdentityAssumption
<1>3. PICK id : id = I!RightPad(s)
    OBVIOUS
<1>4. \A i \in 1 .. m : s[i] \in Graphic /\ s[i] # Zero
    BY <1>1, IdentityAssumption DEF I!ToSet
<1>5. /\ id \in [1 .. NameSize -> B \cup {Zero}]
      /\ \A i \in 1 .. NameSize : id[i] = IF i <= m THEN s[i] ELSE Zero
    <2>1. \A i \in 1 .. NameSize : i <= m => s[i] \in B
        BY <1>1, ElementOfSeq
    <2> QED
        BY <1>1, <1>3, <2>1 DEF I!RightPad
<1>6. SubSeq(id, 1, m) = s
    <2>1. \A i \in 1 .. m : i \in 1 .. NameSize
        BY <1>2
    <2>2. \A i \in 1 .. m : id[i] = s[i] /\ s[i] \in B
        BY <1>1, <1>5, <2>1, ElementOfSeq
    <2>3. /\ SubSeq(id, 1, m) \in Seq(B) /\ Len(SubSeq(id, 1, m)) = m
          /\ \A i \in 1 .. m : SubSeq(id, 1, m)[i] = id[i]
        BY <1>2, <2>2, SubSeqProperties
    <2> QED
        BY <1>1, <2>2, <2>3, SeqEqual
<1>7. I!AsAscii(id) = s
    <2>1. \A i \in 1 .. NameSize : i > m => id[i] = Zero
        BY <1>2, <1>5
    <2>2. id[m] # Zero
        BY <1>2, <1>4, <1>5
    <2>3. I!AsAscii(id) = IF I!ToSet(SubSeq(id, 1, m)) \subseteq Graphic
                            THEN SubSeq(id, 1, m) ELSE Refused
        BY <1>2, <1>5, <2>1, <2>2, NameRead
    <2> QED
        BY <1>6, <2>3
<1>8. id[m] \in I!ToSet(id) /\ id[m] # Zero
    <2>1. DOMAIN id = 1 .. NameSize /\ m \in 1 .. NameSize
        BY <1>2, <1>5
    <2> QED
        BY <1>4, <1>5, <1>2, <2>1 DEF I!ToSet
<1> QED
    BY <1>3, <1>7, <1>8

\* Every sequence of bytes of this length ends with zeros, how many there may be.
LEMMA LastNonZero ==
    ASSUME NEW B, NEW id \in [1 .. NameSize -> B]
    PROVE  \E m \in 0 .. NameSize : /\ \A i \in 1 .. NameSize : i > m => id[i] = Zero
                                    /\ m # 0 => id[m] # Zero
<1>1. NameSize \in Nat
    BY IdentityAssumption
<1> DEFINE P == {m \in 0 .. NameSize : \A i \in 1 .. NameSize : i > m => id[i] = Zero}
<1>2. NameSize \in P /\ P \subseteq Nat
    BY <1>1
<1>3. PICK m \in P : \A i \in P : ~(i < m)
    <2> HIDE DEF P
    <2> QED
        BY <1>2, LeastOf
<1>4. m # 0 => id[m] # Zero
    <2> SUFFICES ASSUME m # 0, id[m] = Zero PROVE FALSE
        OBVIOUS
    <2>1. m - 1 \in P
        BY <1>1, <1>3
    <2> QED
        BY <1>2, <1>3, <2>1
<1> QED
    BY <1>3, <1>4

LEMMA NamesHold ==
    ASSUME NEW B, NEW s \in Seq(B), NEW id \in [1 .. NameSize -> B]
    PROVE  I!NamesIdentifyTypes(s, id)
<1>1. NameSize \in Nat \ {0}
    BY IdentityAssumption
<1>2. ASSUME I!ServiceTypeOf(s) # Refused
      PROVE  /\ I!ServiceTypeFrom(I!ServiceTypeOf(s)) # Refused
             /\ I!AsAscii(I!ServiceTypeOf(s)) = s
    <2>1. s # <<>> /\ ~(Len(s) > NameSize) /\ I!ToSet(s) \subseteq Graphic
          /\ I!ServiceTypeOf(s) = I!RightPad(s)
        BY <1>2 DEF I!ServiceTypeOf
    <2>2. Len(s) <= NameSize
        BY <1>1, <2>1, LenProperties
    <2> QED
        BY <1>2, <2>1, <2>2, PaddedName DEF I!ServiceTypeFrom
<1>3. ASSUME I!ServiceTypeFrom(id) # Refused, I!AsAscii(id) # Refused
      PROVE  I!ServiceTypeOf(I!AsAscii(id)) = id
    <2>1. PICK m \in 0 .. NameSize : /\ \A i \in 1 .. NameSize : i > m => id[i] = Zero
                                     /\ m # 0 => id[m] # Zero
        BY LastNonZero
    <2>2. PICK name : name = SubSeq(id, 1, m)
        OBVIOUS
    <2>3. I!AsAscii(id) = name /\ I!ToSet(name) \subseteq Graphic
        BY <1>3, <2>1, <2>2, NameRead
    <2>4. name \in Seq(B) /\ Len(name) = m /\ \A i \in 1 .. m : name[i] = id[i]
        <3>1. \A i \in 1 .. m : i \in 1 .. NameSize
            BY <1>1
        <3>2. \A i \in 1 .. m : id[i] \in B
            BY <3>1
        <3>3. m \in Nat
            BY <1>1
        <3> QED
            BY <2>2, <3>2, <3>3, SubSeqProperties
    <2>5. m # 0
        <3> SUFFICES ASSUME m = 0 PROVE FALSE
            OBVIOUS
        <3>1. \A i \in 1 .. NameSize : id[i] = Zero
            BY <1>1, <2>1
        <3>2. I!ToSet(id) \subseteq {Zero}
            BY <3>1 DEF I!ToSet
        <3> QED
            BY <1>1, <1>3, <3>1, <3>2 DEF I!ServiceTypeFrom, I!ToSet
    <2>6. name # <<>> /\ ~(Len(name) > NameSize)
        BY <1>1, <2>4, <2>5, EmptySeq
    <2>7. I!RightPad(name) = id
        <3>1. \A i \in 1 .. NameSize : (IF i <= Len(name) THEN name[i] ELSE Zero) = id[i]
            BY <1>1, <2>1, <2>4
        <3>2. id = [i \in 1 .. NameSize |-> id[i]]
            OBVIOUS
        <3> QED
            BY <3>1, <3>2 DEF I!RightPad
    <2> QED
        BY <2>3, <2>6, <2>7 DEF I!ServiceTypeOf
<1> QED
    BY <1>2, <1>3 DEF I!NamesIdentifyTypes

-----------------------------------------------------------------------------
(* Routes and the ids of senders                                            *)

\* A route within the bound loses nothing when it is turned around.
LEMMA ReverseKept ==
    ASSUME NEW S, NEW s \in Seq(S), Len(s) <= Bound
    PROVE  /\ R!Reverse(s) \in Seq(S) /\ Len(R!Reverse(s)) = Len(s)
           /\ \A i \in 1 .. Len(s) : R!Reverse(s)[Len(s) + 1 - i] = s[i]
           /\ R!Reverse(R!Reverse(s)) = s
           /\ R!Collected(s) = s
<1>1. PICK n \in Nat : n = Len(s) /\ DOMAIN s = 1 .. n
    BY LenProperties
<1>2. PICK r : r = R!Reverse(s)
    OBVIOUS
<1>3. r = [i \in 1 .. n |-> s[(n - i) + 1]]
    BY <1>1, <1>2 DEF R!Reverse
<1>4. r \in Seq(S) /\ Len(r) = n
    <2>1. \A i \in 1 .. n : (n - i) + 1 \in 1 .. n
        OBVIOUS
    <2>2. \A i \in 1 .. n : s[(n - i) + 1] \in S
        BY <1>1, <2>1, ElementOfSeq
    <2>3. r \in [1 .. n -> S]
        BY <1>3, <2>2
    <2> QED
        BY <2>3, FunctionIsSeq
<1>5. \A i \in 1 .. n : n + 1 - i \in 1 .. n /\ r[n + 1 - i] = s[i] /\ r[(n - i) + 1] = s[i]
    <2> SUFFICES ASSUME NEW i \in 1 .. n
                 PROVE  n + 1 - i \in 1 .. n /\ r[n + 1 - i] = s[i] /\ r[(n - i) + 1] = s[i]
        OBVIOUS
    <2>1. n + 1 - i \in 1 .. n /\ (n - i) + 1 \in 1 .. n
          /\ (n - (n + 1 - i)) + 1 = i /\ (n - ((n - i) + 1)) + 1 = i
        OBVIOUS
    <2> QED
        BY <1>3, <2>1
<1>6. R!Reverse(r) = s
    <2>1. R!Reverse(r) = [i \in 1 .. n |-> r[(n - i) + 1]]
        BY <1>4 DEF R!Reverse
    <2>2. s = [i \in 1 .. n |-> s[i]]
        BY <1>1
    <2> QED
        BY <1>5, <2>1, <2>2
<1>7. R!Collected(s) = s
    <2>1. R!Collected(s) = SubSeq(s, 1, n)
        BY <1>1, RouteAssumption DEF R!Collected
    <2> QED
        BY <1>1, <2>1, SubSeqFull
<1> QED
    BY <1>1, <1>2, <1>4, <1>5, <1>6, <1>7

LEMMA RoutesHold ==
    ASSUME NEW s \in Seq(Curve)
    PROVE  R!RoutesInvert(s)
<1> SUFFICES ASSUME R!BoundedVec(s) # OutOfBounds PROVE R!RoutesInvert(s)
    BY DEF R!RoutesInvert
<1>1. PICK n \in Nat : n = Len(s) /\ DOMAIN s = 1 .. n
    BY LenProperties
<1>2. n <= Bound /\ R!BoundedVec(s) = s /\ Bound \in Nat
    BY <1>1, RouteAssumption DEF R!BoundedVec
<1>3. PICK r : r = R!Reverse(s)
    OBVIOUS
<1>4. /\ r \in Seq(Curve) /\ Len(r) = n /\ \A i \in 1 .. n : r[n + 1 - i] = s[i]
      /\ R!Reverse(r) = s /\ R!Collected(s) = s
    BY <1>1, <1>2, <1>3, ReverseKept
<1>5. R!Collected(r) = r
    BY <1>2, <1>4, ReverseKept
<1>6. PICK options : options = [path |-> s]
    OBVIOUS
<1>7. PICK back : back = [path |-> r]
    OBVIOUS
<1>8. R!Inverted(options) = back
    BY <1>3, <1>5, <1>6, <1>7 DEF R!Inverted, R!IntermediatePath
<1>9. R!Inverted(back) = options
    BY <1>4, <1>6, <1>7 DEF R!Inverted, R!IntermediatePath
<1>10. R!CountHops(options) = n /\ R!CountHops(back) = n /\ back.path = r
    BY <1>1, <1>4, <1>6, <1>7 DEF R!CountHops
<1>11. R!IntermediatePath(R!BoundedVec(s)) = options
    BY <1>2, <1>6 DEF R!IntermediatePath
<1> QED
    BY <1>1, <1>2, <1>4, <1>8, <1>9, <1>10, <1>11 DEF R!RoutesInvert

\* into_sequence: each id is made of the one before it.
LEMMA SequenceOfIds ==
    ASSUME NEW id, NEW n \in Nat
    PROVE  /\ DOMAIN R!IntoSequence(id, n) = 1 .. n
           /\ \A i \in 1 .. n : R!IntoSequence(id, n)[i] =
                  IF i = 1 THEN id ELSE R!NextId(i - 1, R!IntoSequence(id, n)[i - 1])
<1> DEFINE Continues(f, m) == f = [i \in 1 .. m |-> IF i = 1 THEN id ELSE R!NextId(i - 1, f[i - 1])]
           B == {m \in Nat : ~\E f : Continues(f, m)}
<1>1. B = {}
    <2> SUFFICES ASSUME B # {} PROVE FALSE
        OBVIOUS
    <2>1. PICK m \in B : \A k \in B : ~(k < m)
        <3>1. B \subseteq Nat
            OBVIOUS
        <3> HIDE DEF B
        <3> QED
            BY <3>1, LeastOf
    <2>2. m # 0
        <3> SUFFICES Continues([i \in 1 .. 0 |-> id], 0)
            BY <2>1
        <3> QED
            OBVIOUS
    <2>3. PICK f : Continues(f, m - 1)
        <3>1. m - 1 \in Nat /\ m - 1 < m
            BY <2>1, <2>2
        <3>2. m - 1 \notin B
            <4> HIDE DEF B
            <4> QED
                BY <2>1, <3>1
        <3> QED
            BY <3>1, <3>2
    <2>4. PICK g : g = [i \in 1 .. m |-> IF i = m THEN IF m = 1 THEN id ELSE R!NextId(m - 1, f[m - 1])
                                         ELSE f[i]]
        OBVIOUS
    <2>5. \A i \in 1 .. m : g[i] = IF i = 1 THEN id ELSE R!NextId(i - 1, g[i - 1])
        <3> SUFFICES ASSUME NEW i \in 1 .. m
                     PROVE  g[i] = IF i = 1 THEN id ELSE R!NextId(i - 1, g[i - 1])
            OBVIOUS
        <3>1. m \in Nat
            BY <2>1
        <3>2. i # 1 => i - 1 \in 1 .. m /\ i - 1 # m
            BY <3>1
        <3>3. i # 1 => g[i - 1] = f[i - 1]
            BY <2>4, <3>2
        <3>4. CASE i = m
            BY <2>4, <3>3, <3>4
        <3>5. CASE i # m
            <4>1. i \in 1 .. m - 1 /\ g[i] = f[i]
                BY <2>4, <3>1, <3>5
            <4>2. f[i] = IF i = 1 THEN id ELSE R!NextId(i - 1, f[i - 1])
                BY <2>3, <4>1
            <4> QED
                BY <3>3, <4>1, <4>2
        <3> QED
            BY <3>4, <3>5
    <2>6. Continues(g, m)
        BY <2>4, <2>5
    <2> QED
        BY <2>1, <2>6
<1> DEFINE ids == CHOOSE f : Continues(f, n)
<1>2. Continues(ids, n)
    BY <1>1
<1>3. R!IntoSequence(id, n) = ids
    BY DEF R!IntoSequence
<1> QED
    BY <1>2, <1>3

\* The ids of a sender, if the first SURB id is not a hash of the sequence itself.
LEMMA SenderIdsHold ==
    ASSUME NEW p, NEW surb, \A i, prev : surb # <<i, prev>>, NEW n \in Nat
    PROVE  R!SenderIdsAgree(R!SenderId(p, surb), n)
<1>1. PICK id : id = R!SenderId(p, surb)
    OBVIOUS
<1>2. id.pseudonym = p /\ id.surb_id = surb
    BY <1>1 DEF R!SenderId
<1>3. PICK ids : ids = R!IntoSequence(id, n)
    OBVIOUS
<1>4. \A i \in 1 .. n : ids[i] = IF i = 1 THEN id ELSE R!NextId(i - 1, ids[i - 1])
    BY <1>3, SequenceOfIds
<1>5. \A i, prev : /\ R!NextId(i, prev).pseudonym = prev.pseudonym
                   /\ R!NextId(i, prev).surb_id = <<i, prev>>
    BY DEF R!NextId, R!SenderId
<1>6. \A i \in 1 .. n : i # 1 => /\ ids[i].surb_id = <<i - 1, ids[i - 1]>>
                                  /\ ids[i].pseudonym = ids[i - 1].pseudonym
    BY <1>4, <1>5
<1>7. \A i \in 1 .. n : ids[i].pseudonym = p
    <2> DEFINE B == {i \in 1 .. n : ids[i].pseudonym # p}
    <2> SUFFICES ASSUME NEW j \in B PROVE FALSE
        OBVIOUS
    <2>1. PICK i \in B : \A k \in B : ~(k < i)
        <3>1. B \in SUBSET Nat
            OBVIOUS
        <3> HIDE DEF B
        <3> QED
            BY <3>1, LeastOf
    <2>2. i \in 1 .. n /\ i # 1
        BY <1>2, <1>4, <2>1
    <2>3. i - 1 \in 1 .. n /\ i - 1 < i
        BY <2>2
    <2>4. ids[i - 1].pseudonym = p
        BY <2>1, <2>3
    <2> QED
        BY <1>6, <2>1, <2>2, <2>4
<1>8. \A i, j \in 1 .. n : ids[i].surb_id = ids[j].surb_id => i = j
    <2> SUFFICES ASSUME NEW i \in 1 .. n, NEW j \in 1 .. n, ids[i].surb_id = ids[j].surb_id
                 PROVE  i = j
        OBVIOUS
    <2>1. CASE i = 1
        <3>1. ids[j].surb_id = surb
            BY <1>2, <1>4, <2>1
        <3> QED
            BY <1>6, <2>1, <3>1
    <2>2. CASE j = 1
        <3>1. ids[i].surb_id = surb
            BY <1>2, <1>4, <2>2
        <3> QED
            BY <1>6, <2>2, <3>1
    <2>3. CASE i # 1 /\ j # 1
        <3>1. <<i - 1, ids[i - 1]>> = <<j - 1, ids[j - 1]>>
            BY <1>6, <2>3
        <3>2. i - 1 = j - 1
            BY <3>1
        <3> QED
            BY <3>2
    <2> QED
        BY <2>1, <2>2, <2>3
<1>9. \A i \in 1 .. n : R!PseudonymOf(R!ExactMatcher(ids[i])) = R!PseudonymOf(R!PseudonymMatcher(id.pseudonym))
    BY <1>2, <1>7 DEF R!PseudonymOf, R!ExactMatcher, R!PseudonymMatcher
<1> QED
    BY <1>1, <1>3, <1>8, <1>9 DEF R!SenderIdsAgree

-----------------------------------------------------------------------------
(* Division, and folds: the recursion by which the fold operators are       *)
(* defined has a solution on the subsets of any finite set, so that a fold  *)
(* is told by its steps, position by position.                              *)

\* Quotient and rest of a division by a unit.
LEMMA Division ==
    ASSUME NEW x \in Nat, NEW u \in Nat \ {0}
    PROVE  /\ x \div u \in Nat /\ x % u \in Nat /\ x % u < u
           /\ x = (x \div u) * u + (x % u)
OBVIOUS

\* A number between two multiples is of the quotient of the lower one.
LEMMA Quotient ==
    ASSUME NEW u \in Nat \ {0}, NEW q \in Int, NEW r \in Nat, r < u
    PROVE  (q * u + r) \div u = q /\ (q * u + r) % u = r
OBVIOUS

\* A recursion over the subsets of a finite set, from each to the one without a chosen
\* member, has a solution.
IsFold(f, S, base, pick, step) ==
    f = [T \in SUBSET S |-> IF T = {} THEN base ELSE step[T][f[T \ {pick[T]}]]]

\* The solution is built up by the sizes of the subsets.
LEMMA FoldExists ==
    ASSUME NEW S, IsFiniteSet(S), NEW V, NEW base \in V,
           NEW pick, \A T \in SUBSET S : T # {} => pick[T] \in T,
           NEW step, \A T \in SUBSET S, v \in V : T # {} => step[T][v] \in V
    PROVE  \E f \in [SUBSET S -> V] : IsFold(f, S, base, pick, step)
<1> DEFINE Rest(T) == T \ {pick[T]}
           Solves(f, m) == /\ f \in [SUBSET S -> V] /\ f[{}] = base
                           /\ \A T \in SUBSET S : T # {} /\ Cardinality(T) <= m => f[T] = step[T][f[Rest(T)]]
           B == {m \in Nat : ~\E f : Solves(f, m)}
<1>1. ASSUME NEW T \in SUBSET S
      PROVE  /\ Cardinality(T) \in Nat /\ (Cardinality(T) = 0 <=> T = {})
             /\ T # {} => Rest(T) \in SUBSET S /\ Cardinality(Rest(T)) = Cardinality(T) - 1
    <2>1. IsFiniteSet(T)
        BY FS_Subset
    <2>2. T # {} => Cardinality(Rest(T)) = Cardinality(T) - 1
        BY <2>1, FS_RemoveElement
    <2> QED
        BY <2>1, <2>2, FS_EmptySet, FS_CardinalityType
<1> HIDE DEF Rest
<1>2. B = {}
    <2> SUFFICES ASSUME B # {} PROVE FALSE
        OBVIOUS
    <2>1. PICK m \in B : \A k \in B : ~(k < m)
        <3>1. B \in SUBSET Nat
            OBVIOUS
        <3> HIDE DEF B
        <3> QED
            BY <3>1, LeastOf
    <2>2. m \in Nat
        OBVIOUS
    <2>3. CASE m = 0
        <3>1. PICK f : f = [T \in SUBSET S |-> base]
            OBVIOUS
        <3>2. Solves(f, 0)
            BY <1>1, <3>1
        <3> QED
            BY <2>1, <2>3, <3>2
    <2>4. CASE m # 0
        <3>1. PICK f : Solves(f, m - 1)
            <4>1. m - 1 \in Nat /\ m - 1 < m
                BY <2>2, <2>4
            <4>2. m - 1 \notin B
                <5> HIDE DEF B
                <5> QED
                    BY <2>1, <4>1
            <4> HIDE DEF Solves
            <4> QED
                BY <4>1, <4>2
        <3>2. PICK g : g = [T \in SUBSET S |-> IF T = {} THEN base
                                               ELSE IF Cardinality(T) <= m - 1 THEN f[T]
                                               ELSE step[T][f[Rest(T)]]]
            OBVIOUS
        <3>3. \A T \in SUBSET S : T # {} => step[T][f[Rest(T)]] \in V
            BY <1>1, <3>1
        <3>4. g \in [SUBSET S -> V] /\ g[{}] = base
            BY <3>1, <3>2, <3>3
        <3>5. ASSUME NEW T \in SUBSET S, T # {}, Cardinality(T) <= m
              PROVE  g[T] = step[T][g[Rest(T)]]
            <4>1. Rest(T) \in SUBSET S /\ Cardinality(Rest(T)) <= m - 1
                BY <1>1, <2>2, <3>5
            <4>2. g[Rest(T)] = f[Rest(T)]
                BY <3>1, <3>2, <4>1
            <4> QED
                BY <3>1, <3>2, <3>5, <4>2
        <3>6. Solves(g, m)
            BY <3>4, <3>5
        <3> QED
            BY <2>1, <3>6
    <2> QED
        BY <2>3, <2>4
<1>3. PICK f : Solves(f, Cardinality(S))
    <2>1. Cardinality(S) \in Nat
        BY <1>1
    <2> HIDE DEF Solves
    <2> QED
        BY <1>2, <2>1
<1>4. \A T \in SUBSET S : Cardinality(T) <= Cardinality(S)
    BY FS_Subset
<1>5. f = [T \in SUBSET S |-> IF T = {} THEN base ELSE step[T][f[Rest(T)]]]
    <2>1. f = [T \in SUBSET S |-> f[T]]
        BY <1>3
    <2>2. \A T \in SUBSET S : f[T] = IF T = {} THEN base ELSE step[T][f[Rest(T)]]
        BY <1>3, <1>4
    <2> QED
        BY <2>1, <2>2
<1> QED
    BY <1>3, <1>5 DEF Rest, IsFold

\* The ends of a set of positions.
LEMMA Ends ==
    ASSUME NEW n \in Nat, NEW T \in SUBSET (1 .. n), T # {}
    PROVE  /\ Min(T) \in T /\ \A y \in T : Min(T) <= y
           /\ Max(T) \in T /\ \A y \in T : y <= Max(T)
<1>1. \E x \in T : \A y \in T : x <= y
    <2>1. T \in SUBSET Nat
        OBVIOUS
    <2>2. PICK x \in T : \A y \in T : ~(y < x)
        BY <2>1, LeastOf
    <2> QED
        BY <2>1, <2>2
<1>2. \E x \in T : \A y \in T : x >= y
    <2> DEFINE U == {n - x : x \in T}
    <2>0. \A x \in T : x \in Int /\ n - x \in Nat /\ n - x \in U
        OBVIOUS
    <2>1. U \in SUBSET Nat /\ U # {}
        BY <2>0
    <2>2. PICK z \in U : \A y \in U : ~(y < z)
        <3> HIDE DEF U
        <3> QED
            BY <2>1, LeastOf
    <2>3. PICK x \in T : z = n - x
        OBVIOUS
    <2>4. ASSUME NEW y \in T PROVE x >= y
        <3>1. ~(n - y < n - x)
            BY <2>0, <2>2, <2>3
        <3> QED
            BY <2>0, <3>1
    <2> QED
        BY <2>4
<1>3. PICK a, b : a = Min(T) /\ b = Max(T)
    OBVIOUS
<1>4. a \in T /\ \A y \in T : a <= y
    BY <1>1, <1>3 DEF Min
<1>5. b \in T /\ \A y \in T : b >= y
    BY <1>2, <1>3 DEF Max
<1>6. \A y \in T : y <= b
    BY <1>5
<1> QED
    BY <1>3, <1>4, <1>5, <1>6

\* What is left when the ends of an interval are taken away one by one.
LEMMA Chain ==
    ASSUME NEW n \in Nat, NEW j \in 1 .. n
    PROVE  /\ j .. n \in SUBSET (1 .. n) /\ j .. n # {}
           /\ Min(j .. n) = j /\ (j .. n) \ {j} = j + 1 .. n
           /\ 1 .. j \in SUBSET (1 .. n) /\ 1 .. j # {}
           /\ Max(1 .. j) = j /\ (1 .. j) \ {j} = 1 .. j - 1
<1>1. PICK T : T = j .. n
    OBVIOUS
<1>2. PICK U : U = 1 .. j
    OBVIOUS
<1>3. j \in T /\ T \in SUBSET (1 .. n) /\ T # {} /\ \A y \in T : y \in Int /\ j <= y
    BY <1>1
<1>4. j \in U /\ U \in SUBSET (1 .. n) /\ U # {} /\ \A y \in U : y \in Int /\ y <= j
    BY <1>2
<1>5. PICK a, b : a = Min(T) /\ b = Max(U)
    OBVIOUS
<1>6. a \in T /\ a <= j /\ b \in U /\ j <= b
    BY <1>3, <1>4, <1>5, Ends
<1>7. a = j /\ b = j
    BY <1>3, <1>4, <1>6
<1>8. T \ {j} = j + 1 .. n /\ U \ {j} = 1 .. j - 1
    BY <1>1, <1>2
<1> QED
    BY <1>1, <1>2, <1>3, <1>4, <1>5, <1>7, <1>8

\* Induction: what holds of 0, and of a number with its predecessor, holds up to n.
LEMMA Upwards ==
    ASSUME NEW n \in Nat, NEW P, 0 \in P, \A j \in 1 .. n : j - 1 \in P => j \in P
    PROVE  \A j \in 0 .. n : j \in P
<1> DEFINE C == {j \in 0 .. n : j \notin P}
<1> SUFFICES ASSUME NEW k \in C PROVE FALSE
    OBVIOUS
<1>1. PICK i \in C : \A j \in C : ~(j < i)
    <2>1. C \in SUBSET Nat
        OBVIOUS
    <2> HIDE DEF C
    <2> QED
        BY <2>1, LeastOf
<1>2. i # 0 /\ i \in 0 .. n
    BY <1>1
<1>3. i \in 1 .. n /\ i - 1 \in 0 .. n /\ i - 1 < i
    BY <1>2
<1>4. i - 1 \in P
    BY <1>1, <1>3
<1> QED
    BY <1>1, <1>3, <1>4

\* A fold from the left has values.
IsLeftFold(f, n, base, step) ==
    \A T \in SUBSET (1 .. n) : f[T] = IF T = {} THEN base ELSE step[Max(T)][f[T \ {Max(T)}]]

\* A fold from the left over an interval has a solution.
LEMMA LeftFoldExists ==
    ASSUME NEW n \in Nat, NEW V, NEW base \in V, NEW step \in [1 .. n -> [V -> V]]
    PROVE  \E f \in [SUBSET (1 .. n) -> V] : IsLeftFold(f, n, base, step)
<1>1. PICK D : D = 1 .. n
    OBVIOUS
<1>2. IsFiniteSet(D)
    BY <1>1, FS_Interval
<1>3. \A T \in SUBSET D : T # {} => Max(T) \in T
    BY <1>1, Ends
<1>4. PICK pick, steps : /\ pick = [T \in SUBSET D |-> Max(T)]
                         /\ steps = [T \in SUBSET D |-> step[Max(T)]]
    OBVIOUS
<1>5. \A T \in SUBSET D : T # {} => pick[T] = Max(T) /\ pick[T] \in T
    BY <1>3, <1>4
<1>6. \A T \in SUBSET D, v \in V : T # {} => steps[T][v] \in V
    BY <1>1, <1>3, <1>4
<1>7. PICK f \in [SUBSET D -> V] : IsFold(f, D, base, pick, steps)
    BY <1>2, <1>5, <1>6, FoldExists
<1>8. \A T \in SUBSET D : f[T] = IF T = {} THEN base ELSE step[Max(T)][f[T \ {Max(T)}]]
    BY <1>4, <1>5, <1>7 DEF IsFold
<1> QED
    BY <1>1, <1>7, <1>8 DEF IsLeftFold

\* The maxima of the instance are those of this module.
LEMMA SameMax == \A S : A!Max(S) = Max(S)
BY DEF A!Max, Max

\* The values of a solution, position by position.
Along(N, n, g) ==
    /\ N[0] = g[{}] /\ N[n] = g[1 .. n]
    /\ \A j \in 1 .. n : /\ 1 .. j \in SUBSET (1 .. n) /\ 1 .. j # {} /\ Max(1 .. j) = j
                         /\ g[1 .. j] = N[j] /\ g[(1 .. j) \ {Max(1 .. j)}] = N[j - 1]

LEMMA Positions ==
    ASSUME NEW n \in Nat, NEW g
    PROVE  \E N : Along(N, n, g)
<1>1. PICK N : N = [j \in 0 .. n |-> g[1 .. j]]
    OBVIOUS
<1>2. N[0] = g[{}] /\ N[n] = g[1 .. n]
    <2>1. 1 .. 0 = {} /\ 0 \in 0 .. n /\ n \in 0 .. n
        OBVIOUS
    <2> QED
        BY <1>1, <2>1
<1>3. \A j \in 1 .. n : /\ 1 .. j \in SUBSET (1 .. n) /\ 1 .. j # {} /\ Max(1 .. j) = j
                        /\ g[1 .. j] = N[j] /\ g[(1 .. j) \ {Max(1 .. j)}] = N[j - 1]
    <2> SUFFICES ASSUME NEW j \in 1 .. n
                 PROVE  /\ 1 .. j \in SUBSET (1 .. n) /\ 1 .. j # {} /\ Max(1 .. j) = j
                        /\ g[1 .. j] = N[j] /\ g[(1 .. j) \ {Max(1 .. j)}] = N[j - 1]
        OBVIOUS
    <2>1. /\ 1 .. j \in SUBSET (1 .. n) /\ 1 .. j # {} /\ Max(1 .. j) = j
          /\ (1 .. j) \ {j} = 1 .. j - 1
        BY Chain
    <2>2. j \in 0 .. n /\ j - 1 \in 0 .. n
        OBVIOUS
    <2> QED
        BY <1>1, <2>1, <2>2
<1> QED
    BY <1>2, <1>3 DEF Along

-----------------------------------------------------------------------------
(* Sums of amounts: Balance's Sum saturates at every step.                  *)

\* saturating_add, on the numbers.
LEMMA Saturates ==
    /\ MaxAmount \in Nat
    /\ \A n \in Nat : A!Saturated(n) = IF n > MaxAmount THEN MaxAmount ELSE n
    /\ \A m, n \in Nat : A!Add(m, n) = A!Saturated(m + n) /\ A!Add(m, n) \in Nat
BY AmountAssumption DEF A!Saturated, A!Add

\* Balance's Sum, amount by amount.
LEMMA SaturatedSums ==
    ASSUME NEW s \in Seq(Nat), NEW n \in Nat, n = Len(s)
    PROVE  \E N : /\ N[0] = 0 /\ N[n] = A!SumOf(s)
                  /\ \A j \in 1 .. n : N[j] = A!Add(N[j - 1], s[j])
<1>1. DOMAIN s = 1 .. n /\ \A i \in 1 .. n : s[i] \in Nat
    BY ElementOfSeq, LenProperties
<1> DEFINE Folds(g) == g = [T \in SUBSET DOMAIN s |->
                               IF T = {} THEN 0 ELSE A!Add(g[T \ {A!Max(T)}], s[A!Max(T)])]
<1>2. PICK step \in [1 .. n -> [Nat -> Nat]] : step = [i \in 1 .. n |-> [v \in Nat |-> A!Add(v, s[i])]]
    <2>1. \A i \in 1 .. n, v \in Nat : A!Add(v, s[i]) \in Nat
        BY <1>1, Saturates
    <2>2. [i \in 1 .. n |-> [v \in Nat |-> A!Add(v, s[i])]] \in [1 .. n -> [Nat -> Nat]]
        BY <2>1
    <2> QED
        BY <2>2
<1>3. PICK f \in [SUBSET (1 .. n) -> Nat] : IsLeftFold(f, n, 0, step)
    BY LeftFoldExists
<1>4. Folds(f)
    <2>1. ASSUME NEW T \in SUBSET (1 .. n)
          PROVE  f[T] = IF T = {} THEN 0 ELSE A!Add(f[T \ {Max(T)}], s[Max(T)])
        <3>1. T # {} => Max(T) \in 1 .. n
            BY Ends
        <3>2. f[T \ {Max(T)}] \in Nat
            OBVIOUS
        <3> QED
            BY <1>2, <1>3, <3>1, <3>2 DEF IsLeftFold
    <2>2. f = [T \in SUBSET (1 .. n) |-> f[T]]
        OBVIOUS
    <2> QED
        BY <1>1, <2>1, <2>2, SameMax
<1>5. PICK g : Folds(g) /\ A!SumOf(s) = g[1 .. n]
    <2>1. Folds(CHOOSE g : Folds(g))
        BY <1>4
    <2>2. A!SumOf(s) = (CHOOSE g : Folds(g))[1 .. n]
        BY <1>1 DEF A!SumOf, A!FoldLeft, A!MapThenFoldSet
    <2> QED
        BY <2>1, <2>2
<1>6. /\ g[{}] = 0
      /\ \A T \in SUBSET (1 .. n) : T # {} => g[T] = A!Add(g[T \ {Max(T)}], s[Max(T)])
    BY <1>1, <1>5, SameMax
<1>7. PICK N : Along(N, n, g)
    BY Positions
<1>8. \A j \in 1 .. n : N[j] = A!Add(N[j - 1], s[j])
    <2> SUFFICES ASSUME NEW j \in 1 .. n PROVE N[j] = A!Add(N[j - 1], s[j])
        OBVIOUS
    <2>1. /\ 1 .. j \in SUBSET (1 .. n) /\ 1 .. j # {} /\ Max(1 .. j) = j
          /\ g[1 .. j] = N[j] /\ g[(1 .. j) \ {Max(1 .. j)}] = N[j - 1]
        BY <1>7 DEF Along
    <2>2. PICK T \in SUBSET (1 .. n) : T = 1 .. j
        BY <2>1
    <2>3. T # {} /\ Max(T) = j /\ g[T] = N[j] /\ g[T \ {Max(T)}] = N[j - 1]
        BY <2>1, <2>2
    <2> QED
        BY <1>6, <2>3
<1>9. N[0] = g[{}] /\ N[n] = g[1 .. n]
    BY <1>7 DEF Along
<1>10. /\ N[0] = 0 /\ N[n] = A!SumOf(s)
       /\ \A j \in 1 .. n : N[j] = A!Add(N[j - 1], s[j])
    BY <1>5, <1>6, <1>8, <1>9
<1> QED
    BY <1>10

\* The exact sum of amounts, and the number that digits continue.
ExactSum(s) == A!FoldLeft(LAMBDA n, a : n + a, 0, s)
Continued(first, s) == A!FoldLeft(LAMBDA n, d : 10 * n + d, first, s)

\* The exact sum, amount by amount.
LEMMA ExactSums ==
    ASSUME NEW s \in Seq(Nat), NEW n \in Nat, n = Len(s)
    PROVE  \E N : /\ N[0] = 0 /\ N[n] = ExactSum(s)
                  /\ \A j \in 1 .. n : N[j] = N[j - 1] + s[j]
<1>1. DOMAIN s = 1 .. n /\ \A i \in 1 .. n : s[i] \in Nat
    BY ElementOfSeq, LenProperties
<1> DEFINE Folds(g) == g = [T \in SUBSET DOMAIN s |->
                               IF T = {} THEN 0 ELSE g[T \ {A!Max(T)}] + s[A!Max(T)]]
<1>2. PICK step \in [1 .. n -> [Nat -> Nat]] : step = [i \in 1 .. n |-> [v \in Nat |-> v + s[i]]]
    <2>1. \A i \in 1 .. n, v \in Nat : v + s[i] \in Nat
        BY <1>1
    <2>2. [i \in 1 .. n |-> [v \in Nat |-> v + s[i]]] \in [1 .. n -> [Nat -> Nat]]
        BY <2>1
    <2> QED
        BY <2>2
<1>3. PICK f \in [SUBSET (1 .. n) -> Nat] : IsLeftFold(f, n, 0, step)
    BY LeftFoldExists
<1>4. Folds(f)
    <2>1. ASSUME NEW T \in SUBSET (1 .. n)
          PROVE  f[T] = IF T = {} THEN 0 ELSE f[T \ {Max(T)}] + s[Max(T)]
        <3>1. T # {} => Max(T) \in 1 .. n
            BY Ends
        <3>2. f[T \ {Max(T)}] \in Nat
            OBVIOUS
        <3> QED
            BY <1>2, <1>3, <3>1, <3>2 DEF IsLeftFold
    <2>2. f = [T \in SUBSET (1 .. n) |-> f[T]]
        OBVIOUS
    <2> QED
        BY <1>1, <2>1, <2>2, SameMax
<1>5. PICK g : Folds(g) /\ ExactSum(s) = g[1 .. n]
    <2>1. Folds(CHOOSE g : Folds(g))
        BY <1>4
    <2>2. ExactSum(s) = (CHOOSE g : Folds(g))[1 .. n]
        BY <1>1 DEF ExactSum, A!FoldLeft, A!MapThenFoldSet
    <2> QED
        BY <2>1, <2>2
<1>6. /\ g[{}] = 0
      /\ \A T \in SUBSET (1 .. n) : T # {} => g[T] = g[T \ {Max(T)}] + s[Max(T)]
    BY <1>1, <1>5, SameMax
<1>7. PICK N : Along(N, n, g)
    BY Positions
<1>8. \A j \in 1 .. n : N[j] = N[j - 1] + s[j]
    <2> SUFFICES ASSUME NEW j \in 1 .. n PROVE N[j] = N[j - 1] + s[j]
        OBVIOUS
    <2>1. /\ 1 .. j \in SUBSET (1 .. n) /\ 1 .. j # {} /\ Max(1 .. j) = j
          /\ g[1 .. j] = N[j] /\ g[(1 .. j) \ {Max(1 .. j)}] = N[j - 1]
        BY <1>7 DEF Along
    <2>2. PICK T \in SUBSET (1 .. n) : T = 1 .. j
        BY <2>1
    <2>3. T # {} /\ Max(T) = j /\ g[T] = N[j] /\ g[T \ {Max(T)}] = N[j - 1]
        BY <2>1, <2>2
    <2> QED
        BY <1>6, <2>3
<1>9. N[0] = g[{}] /\ N[n] = g[1 .. n]
    BY <1>7 DEF Along
<1>10. /\ N[0] = 0 /\ N[n] = ExactSum(s)
       /\ \A j \in 1 .. n : N[j] = N[j - 1] + s[j]
    BY <1>5, <1>6, <1>8, <1>9
<1> QED
    BY <1>10

\* The first parts of a number that digits continue.
Continues(M, first, s, n) ==
    M[0] = first /\ \A j \in 1 .. n : M[j] = 10 * M[j - 1] + s[j]

\* A number, digit by digit.
LEMMA DigitsContinue ==
    ASSUME NEW first \in Nat, NEW s \in Seq(Nat), NEW n \in Nat, n = Len(s)
    PROVE  \E N : Continues(N, first, s, n) /\ N[n] = Continued(first, s)
<1>1. DOMAIN s = 1 .. n /\ \A i \in 1 .. n : s[i] \in Nat
    BY ElementOfSeq, LenProperties
<1> DEFINE Folds(g) == g = [T \in SUBSET DOMAIN s |->
                               IF T = {} THEN first ELSE 10 * g[T \ {A!Max(T)}] + s[A!Max(T)]]
<1>2. PICK step \in [1 .. n -> [Nat -> Nat]] : step = [i \in 1 .. n |-> [v \in Nat |-> 10 * v + s[i]]]
    <2>1. \A i \in 1 .. n, v \in Nat : 10 * v + s[i] \in Nat
        BY <1>1
    <2>2. [i \in 1 .. n |-> [v \in Nat |-> 10 * v + s[i]]] \in [1 .. n -> [Nat -> Nat]]
        BY <2>1
    <2> QED
        BY <2>2
<1>3. PICK f \in [SUBSET (1 .. n) -> Nat] : IsLeftFold(f, n, first, step)
    BY LeftFoldExists
<1>4. Folds(f)
    <2>1. ASSUME NEW T \in SUBSET (1 .. n)
          PROVE  f[T] = IF T = {} THEN first ELSE 10 * f[T \ {Max(T)}] + s[Max(T)]
        <3>1. T # {} => Max(T) \in 1 .. n
            BY Ends
        <3>2. f[T \ {Max(T)}] \in Nat
            OBVIOUS
        <3> QED
            BY <1>2, <1>3, <3>1, <3>2 DEF IsLeftFold
    <2>2. f = [T \in SUBSET (1 .. n) |-> f[T]]
        OBVIOUS
    <2> QED
        BY <1>1, <2>1, <2>2, SameMax
<1>5. PICK g : Folds(g) /\ Continued(first, s) = g[1 .. n]
    <2>1. Folds(CHOOSE g : Folds(g))
        BY <1>4
    <2>2. Continued(first, s) = (CHOOSE g : Folds(g))[1 .. n]
        BY <1>1 DEF Continued, A!FoldLeft, A!MapThenFoldSet
    <2> QED
        BY <2>1, <2>2
<1>6. /\ g[{}] = first
      /\ \A T \in SUBSET (1 .. n) : T # {} => g[T] = 10 * g[T \ {Max(T)}] + s[Max(T)]
    BY <1>1, <1>5, SameMax
<1>7. PICK N : Along(N, n, g)
    BY Positions
<1>8. \A j \in 1 .. n : N[j] = 10 * N[j - 1] + s[j]
    <2> SUFFICES ASSUME NEW j \in 1 .. n PROVE N[j] = 10 * N[j - 1] + s[j]
        OBVIOUS
    <2>1. /\ 1 .. j \in SUBSET (1 .. n) /\ 1 .. j # {} /\ Max(1 .. j) = j
          /\ g[1 .. j] = N[j] /\ g[(1 .. j) \ {Max(1 .. j)}] = N[j - 1]
        BY <1>7 DEF Along
    <2>2. PICK T \in SUBSET (1 .. n) : T = 1 .. j
        BY <2>1
    <2>3. T # {} /\ Max(T) = j /\ g[T] = N[j] /\ g[T \ {Max(T)}] = N[j - 1]
        BY <2>1, <2>2
    <2> QED
        BY <1>6, <2>3
<1>9. N[0] = g[{}] /\ N[n] = g[1 .. n]
    BY <1>7 DEF Along
<1>10. /\ N[0] = first /\ N[n] = Continued(first, s)
       /\ \A j \in 1 .. n : N[j] = 10 * N[j - 1] + s[j]
    BY <1>5, <1>6, <1>8, <1>9
<1> QED
    BY <1>10 DEF Continues

\* The exact sums of the first parts of some amounts.
PartialSums(E, s) ==
    /\ E[0] = 0 /\ E[Len(s)] = ExactSum(s)
    /\ \A j \in 0 .. Len(s) : E[j] \in Nat
    /\ \A j \in 1 .. Len(s) : E[j] = E[j - 1] + s[j]

\* There are such sums for any amounts.
LEMMA PartialSumsExist ==
    ASSUME NEW s \in Seq(Nat)
    PROVE  \E E : PartialSums(E, s)
<1>1. PICK n \in Nat : n = Len(s) /\ \A j \in 1 .. n : s[j] \in Nat
    BY ElementOfSeq, LenProperties
<1>2. PICK E : /\ E[0] = 0 /\ E[n] = ExactSum(s)
               /\ \A j \in 1 .. n : E[j] = E[j - 1] + s[j]
    BY <1>1, ExactSums
<1> DEFINE P == {j \in 0 .. n : E[j] \in Nat}
<1>3. 0 \in P /\ \A j \in 1 .. n : j - 1 \in P => j \in P
    BY <1>1, <1>2
<1>4. \A j \in 0 .. n : j \in P
    <2> HIDE DEF P
    <2> QED
        BY <1>3, Upwards
<1> QED
    BY <1>1, <1>2, <1>4 DEF PartialSums

\* A sum that saturates at every step is the exact one, saturated once.
LEMMA SumIsExact ==
    ASSUME NEW s \in Seq(Nat)
    PROVE  /\ ExactSum(s) \in Nat
           /\ A!SumOf(s) = IF ExactSum(s) > MaxAmount THEN MaxAmount ELSE ExactSum(s)
<1>1. PICK n \in Nat : n = Len(s) /\ \A j \in 1 .. n : s[j] \in Nat
    BY ElementOfSeq, LenProperties
<1>2. PICK E : PartialSums(E, s)
    BY PartialSumsExist
<1>3. /\ E[0] = 0 /\ E[n] = ExactSum(s) /\ \A j \in 0 .. n : E[j] \in Nat
      /\ \A j \in 1 .. n : E[j] = E[j - 1] + s[j]
    BY <1>1, <1>2 DEF PartialSums
<1>4. PICK S : /\ S[0] = 0 /\ S[n] = A!SumOf(s)
               /\ \A j \in 1 .. n : S[j] = A!Add(S[j - 1], s[j])
    BY <1>1, SaturatedSums
<1> DEFINE Capped(j) == IF E[j] > MaxAmount THEN MaxAmount ELSE E[j]
           P == {j \in 0 .. n : S[j] = Capped(j)}
<1>5. 0 \in P
    <2>1. ~(0 > MaxAmount) /\ 0 \in 0 .. n
        BY AmountAssumption
    <2> QED
        BY <1>3, <1>4, <2>1
<1>6. ASSUME NEW j \in 1 .. n, j - 1 \in P PROVE j \in P
    <2>1. PICK e \in Nat, a \in Nat : e = E[j - 1] /\ a = s[j]
        BY <1>1, <1>3
    <2>2. E[j] = e + a /\ S[j - 1] = IF e > MaxAmount THEN MaxAmount ELSE e
        BY <1>3, <1>6, <2>1
    <2>3. PICK x \in Nat : x = S[j - 1]
        BY <2>2, AmountAssumption
    <2>4. S[j] = A!Add(x, a)
        BY <1>4, <2>1, <2>3
    <2>5. A!Add(x, a) = IF x + a > MaxAmount THEN MaxAmount ELSE x + a
        BY AmountAssumption DEF A!Add, A!Saturated
    <2>6. S[j] = IF e + a > MaxAmount THEN MaxAmount ELSE e + a
        BY <2>2, <2>3, <2>4, <2>5, AmountAssumption
    <2> QED
        BY <2>2, <2>6
<1>7. \A j \in 0 .. n : j \in P
    <2> HIDE DEF P
    <2> QED
        BY <1>5, <1>6, Upwards
<1>8. n \in 0 .. n
    OBVIOUS
<1> QED
    BY <1>3, <1>4, <1>7, <1>8

\* The sum does not depend on the direction.
LEMMA SumFromBehind ==
    ASSUME NEW s \in Seq(Nat)
    PROVE  A!Reverse(s) \in Seq(Nat) /\ ExactSum(A!Reverse(s)) = ExactSum(s)
<1>1. PICK n \in Nat : n = Len(s) /\ \A j \in 1 .. n : s[j] \in Nat
    BY ElementOfSeq, LenProperties
<1>2. PICK r : r = A!Reverse(s)
    OBVIOUS
<1>3. r = [i \in 1 .. n |-> s[(n - i) + 1]]
    BY <1>1, <1>2 DEF A!Reverse
<1>4. r \in Seq(Nat) /\ Len(r) = n
    <2>1. \A i \in 1 .. n : (n - i) + 1 \in 1 .. n
        OBVIOUS
    <2>2. r \in [1 .. n -> Nat]
        BY <1>1, <1>3, <2>1
    <2> QED
        BY <2>2, FunctionIsSeq
<1>5. PICK E : PartialSums(E, s)
    BY PartialSumsExist
<1>6. /\ E[0] = 0 /\ E[n] = ExactSum(s) /\ \A j \in 0 .. n : E[j] \in Nat
      /\ \A j \in 1 .. n : E[j] = E[j - 1] + s[j]
    BY <1>1, <1>5 DEF PartialSums
<1>7. PICK Q : PartialSums(Q, r)
    BY <1>4, PartialSumsExist
<1>8. /\ Q[0] = 0 /\ Q[n] = ExactSum(r) /\ \A j \in 0 .. n : Q[j] \in Nat
      /\ \A j \in 1 .. n : Q[j] = Q[j - 1] + r[j]
    BY <1>4, <1>7 DEF PartialSums
<1> DEFINE P == {j \in 0 .. n : Q[j] + E[n - j] = E[n]}
<1>9. 0 \in P
    <2>1. n - 0 = n /\ 0 \in 0 .. n /\ n \in 0 .. n
        OBVIOUS
    <2> QED
        BY <1>6, <1>8, <2>1
<1>10. ASSUME NEW j \in 1 .. n, j - 1 \in P PROVE j \in P
    <2>1. PICK k \in 1 .. n : k = (n - j) + 1
        OBVIOUS
    <2>2. j - 1 \in 0 .. n /\ j \in 0 .. n /\ n - (j - 1) = k /\ n - j = k - 1 /\ k - 1 \in 0 .. n /\ k \in 0 .. n
        BY <2>1
    <2>3. PICK d \in Nat, e \in Nat, a \in Nat : d = Q[j - 1] /\ e = E[k - 1] /\ a = s[k]
        BY <1>1, <1>6, <1>8, <2>2
    <2>4. Q[j] = d + a /\ E[k] = e + a
        BY <1>3, <1>6, <1>8, <2>1, <2>3
    <2>5. d + E[k] = E[n]
        BY <1>10, <2>2, <2>3
    <2>6. Q[j] + E[n - j] = E[n]
        <3>1. E[n - j] = e
            BY <2>2, <2>3
        <3>2. d + (e + a) = (d + a) + e
            OBVIOUS
        <3> QED
            BY <2>4, <2>5, <3>1, <3>2
    <2> QED
        BY <2>2, <2>6
<1>11. \A j \in 0 .. n : j \in P
    <2> HIDE DEF P
    <2> QED
        BY <1>9, <1>10, Upwards
<1>12. Q[n] = E[n]
    <2>1. n \in 0 .. n /\ n - n = 0
        OBVIOUS
    <2>2. Q[n] + E[0] = E[n] /\ Q[n] \in Nat
        BY <1>8, <1>11, <2>1
    <2> QED
        BY <1>6, <2>2
<1> QED
    BY <1>2, <1>4, <1>6, <1>8, <1>12

\* The sum of equal parts.
LEMMA SumOfEqual ==
    ASSUME NEW s \in Seq(Nat), NEW c \in Nat, \A i \in DOMAIN s : s[i] = c
    PROVE  ExactSum(s) = Len(s) * c
<1>1. PICK n \in Nat : n = Len(s) /\ DOMAIN s = 1 .. n
    BY LenProperties
<1>2. PICK E : PartialSums(E, s)
    BY PartialSumsExist
<1>3. /\ E[0] = 0 /\ E[n] = ExactSum(s)
      /\ \A j \in 1 .. n : E[j] = E[j - 1] + s[j]
    BY <1>1, <1>2 DEF PartialSums
<1> DEFINE P == {j \in 0 .. n : E[j] = j * c}
<1>4. 0 \in P
    BY <1>3
<1>5. ASSUME NEW j \in 1 .. n, j - 1 \in P PROVE j \in P
    <2>1. E[j] = (j - 1) * c + c
        BY <1>1, <1>3, <1>5
    <2>2. (j - 1) * c + c = j * c
        OBVIOUS
    <2> QED
        BY <2>1, <2>2
<1>6. \A j \in 0 .. n : j \in P
    <2> HIDE DEF P
    <2> QED
        BY <1>4, <1>5, Upwards
<1>7. n \in 0 .. n
    OBVIOUS
<1> QED
    BY <1>1, <1>3, <1>6, <1>7

\* The sum without one of the parts.
LEMMA SumWithout ==
    ASSUME NEW s \in Seq(Nat), NEW i \in DOMAIN s
    PROVE  /\ A!RemoveAt(s, i) \in Seq(Nat)
           /\ ExactSum(A!RemoveAt(s, i)) + s[i] = ExactSum(s)
<1>1. PICK n \in Nat : n = Len(s) /\ DOMAIN s = 1 .. n /\ \A j \in 1 .. n : s[j] \in Nat
    BY ElementOfSeq, LenProperties
<1>2. PICK k \in Nat, l \in Nat : i = k + 1 /\ n = (k + l) + 1
    <2>1. i \in 1 .. n
        BY <1>1
    <2>2. PICK k \in Nat, l \in Nat : k = i - 1 /\ l = n - i
        BY <2>1
    <2>3. i = k + 1 /\ n = (k + l) + 1
        BY <2>1, <2>2
    <2> QED
        BY <2>3
<1>3. PICK a, b, t : a = SubSeq(s, 1, k) /\ b = SubSeq(s, k + 2, n) /\ t = a \o b
    OBVIOUS
<1>4. t = A!RemoveAt(s, i)
    <2>1. i - 1 = k /\ i + 1 = k + 2
        BY <1>2
    <2> QED
        BY <1>1, <1>3, <2>1 DEF A!RemoveAt
<1>5. a \in Seq(Nat) /\ Len(a) = k /\ \A j \in 1 .. k : a[j] = s[j]
    <2>1. \A j \in 1 .. k : s[j] \in Nat
        BY <1>1, <1>2
    <2> QED
        BY <1>3, <2>1, SubSeqProperties
<1>6. b \in Seq(Nat) /\ Len(b) = l /\ \A j \in 1 .. l : b[j] = s[(k + 1) + j]
    <2>1. \A j \in k + 2 .. n : s[j] \in Nat
        BY <1>1, <1>2
    <2>2. /\ b \in Seq(Nat) /\ Len(b) = IF k + 2 <= n THEN (n - (k + 2)) + 1 ELSE 0
          /\ \A j \in 1 .. (n - (k + 2)) + 1 : b[j] = s[((k + 2) + j) - 1]
        BY <1>2, <1>3, <2>1, SubSeqProperties
    <2>3. (n - (k + 2)) + 1 = l /\ (k + 2 <= n <=> l >= 1)
        BY <1>2
    <2>4. \A j \in 1 .. l : ((k + 2) + j) - 1 = (k + 1) + j
        OBVIOUS
    <2>5. Len(b) = l
        BY <1>2, <2>2, <2>3
    <2>6. \A j \in 1 .. l : b[j] = s[((k + 2) + j) - 1]
        BY <2>2, <2>3
    <2> QED
        BY <2>2, <2>4, <2>5, <2>6
<1>7. /\ t \in Seq(Nat) /\ Len(t) = n - 1
      /\ \A j \in 1 .. n - 1 : t[j] = IF j < i THEN s[j] ELSE s[j + 1]
    <2>1. /\ t \in Seq(Nat) /\ Len(t) = k + l
          /\ \A j \in 1 .. k + l : t[j] = IF j <= k THEN a[j] ELSE b[j - k]
        <3>1. /\ a \o b \in Seq(Nat) /\ Len(a \o b) = Len(a) + Len(b)
              /\ \A j \in 1 .. Len(a) + Len(b) :
                    (a \o b)[j] = IF j <= Len(a) THEN a[j] ELSE b[j - Len(a)]
            BY <1>5, <1>6, ConcatProperties
        <3> QED
            BY <1>3, <1>5, <1>6, <3>1
    <2>2. k + l = n - 1
        BY <1>2
    <2>3. ASSUME NEW j \in 1 .. k + l PROVE t[j] = IF j < i THEN s[j] ELSE s[j + 1]
        <3>1. CASE j <= k
            <4>1. j \in 1 .. k /\ j < i
                BY <1>2, <3>1
            <4> QED
                BY <1>5, <2>1, <3>1, <4>1
        <3>2. CASE ~(j <= k)
            <4>1. j - k \in 1 .. l /\ ~(j < i) /\ (k + 1) + (j - k) = j + 1
                BY <1>2, <3>2
            <4>2. t[j] = b[j - k] /\ b[j - k] = s[(k + 1) + (j - k)]
                BY <1>6, <2>1, <3>2, <4>1
            <4> QED
                BY <4>1, <4>2
        <3> QED
            BY <3>1, <3>2
    <2> QED
        BY <2>1, <2>2, <2>3
<1>8. PICK E : PartialSums(E, s)
    BY PartialSumsExist
<1>9. /\ E[0] = 0 /\ E[n] = ExactSum(s) /\ \A j \in 0 .. n : E[j] \in Nat
      /\ \A j \in 1 .. n : E[j] = E[j - 1] + s[j]
    BY <1>1, <1>8 DEF PartialSums
<1>10. PICK T : PartialSums(T, t)
    BY <1>7, PartialSumsExist
<1>11. /\ T[0] = 0 /\ T[n - 1] = ExactSum(t) /\ \A j \in 0 .. n - 1 : T[j] \in Nat
       /\ \A j \in 1 .. n - 1 : T[j] = T[j - 1] + t[j]
    BY <1>7, <1>10 DEF PartialSums
<1> DEFINE P == {j \in 0 .. n - 1 : IF j < i THEN T[j] = E[j] ELSE T[j] + s[i] = E[j + 1]}
<1>12. 0 \in P
    BY <1>2, <1>9, <1>11
<1>13. ASSUME NEW j \in 1 .. n - 1, j - 1 \in P PROVE j \in P
    <2>1. j \in 1 .. n /\ j + 1 \in 1 .. n /\ j - 1 \in 0 .. n - 1 /\ (j + 1) - 1 = j /\ (j - 1) + 1 = j
          /\ j - 1 \in 0 .. n /\ j \in 0 .. n - 1 /\ j \in 0 .. n
        BY <1>2
    <2>2. PICK c \in Nat, d \in Nat, e \in Nat, x \in Nat, y \in Nat, z \in Nat :
              c = s[i] /\ d = s[j] /\ e = s[j + 1] /\ x = T[j - 1] /\ y = E[j - 1] /\ z = E[j]
        BY <1>1, <1>2, <1>9, <1>11, <2>1
    <2>3. z = y + d /\ E[j + 1] = z + e
        BY <1>9, <2>1, <2>2
    <2>4. CASE j < i
        <3>1. x = y
            BY <1>13, <2>1, <2>2, <2>4
        <3>2. T[j] = x + d
            BY <1>7, <1>11, <2>1, <2>2, <2>4
        <3> QED
            BY <2>1, <2>2, <2>3, <2>4, <3>1, <3>2
    <2>5. CASE ~(j < i)
        <3>1. T[j] = x + e
            BY <1>7, <1>11, <2>1, <2>2, <2>5
        <3>2. x + c = z
            <4>1. CASE j = i
                BY <1>2, <1>13, <2>1, <2>2, <2>3, <4>1
            <4>2. CASE j # i
                <5>1. ~(j - 1 < i)
                    BY <1>2, <2>5, <4>2
                <5> QED
                    BY <1>13, <2>1, <2>2, <5>1
            <4> QED
                BY <4>1, <4>2
        <3>3. T[j] + c = E[j + 1]
            <4>1. (x + e) + c = (x + c) + e
                OBVIOUS
            <4> QED
                BY <2>3, <3>1, <3>2, <4>1
        <3> QED
            BY <2>1, <2>2, <2>5, <3>3
    <2> QED
        BY <2>4, <2>5
<1>14. \A j \in 0 .. n - 1 : j \in P
    <2>1. n - 1 \in Nat
        BY <1>2
    <2> HIDE DEF P
    <2> QED
        BY <1>12, <1>13, <2>1, Upwards
<1>15. T[n - 1] + s[i] = E[n]
    <2>1. n - 1 \in 0 .. n - 1 /\ (n - 1) + 1 = n /\ n \in 1 .. n /\ n - 1 \in 0 .. n
        BY <1>2
    <2>2. CASE n - 1 < i
        <3>1. i = n
            BY <1>2, <2>2
        <3> QED
            BY <1>9, <1>14, <2>1, <2>2, <3>1
    <2>3. CASE ~(n - 1 < i)
        BY <1>14, <2>1, <2>3
    <2> QED
        BY <2>2, <2>3
<1> QED
    BY <1>4, <1>7, <1>9, <1>11, <1>15

\* SumsSaturate, for amounts of any number and size: Balance's Sum is the exact sum or the
\* largest amount, in whatever order.
LEMMA SumsHold ==
    ASSUME NEW s \in Seq(Nat)
    PROVE  A!SumsSaturate(s)
<1>1. PICK n \in Nat : n = Len(s) /\ DOMAIN s = 1 .. n /\ \A j \in 1 .. n : s[j] \in Nat
    BY ElementOfSeq, LenProperties
<1>2. PICK e \in Nat : e = ExactSum(s) /\ A!SumOf(s) = IF e > MaxAmount THEN MaxAmount ELSE e
    BY SumIsExact
<1>3. A!SumOf(A!Reverse(s)) = A!SumOf(s)
    BY <1>2, SumFromBehind, SumIsExact
<1>4. ASSUME \A i \in DOMAIN s : s[i] = s[1], s # <<>>
      PROVE  A!SumOf(s) = A!Mul(s[1], Len(s))
    <2>1. n # 0 /\ 1 \in 1 .. n
        BY <1>1, <1>4, EmptySeq
    <2>2. PICK c \in Nat : c = s[1]
        BY <1>1, <2>1
    <2>3. e = n * c
        BY <1>1, <1>2, <1>4, <2>2, SumOfEqual
    <2>4. n * c = c * n /\ c * n \in Nat
        OBVIOUS
    <2>5. A!Mul(c, n) = IF c * n > MaxAmount THEN MaxAmount ELSE c * n
        BY <2>4, Saturates DEF A!Mul
    <2> QED
        BY <1>1, <1>2, <2>2, <2>3, <2>4, <2>5
<1>5. ASSUME NEW i \in DOMAIN s
      PROVE  A!Sub(A!SumOf(s), s[i]) <= A!SumOf(A!RemoveAt(s, i))
    <2>1. PICK d \in Nat : /\ d = ExactSum(A!RemoveAt(s, i)) /\ d + s[i] = e
                           /\ A!SumOf(A!RemoveAt(s, i)) = IF d > MaxAmount THEN MaxAmount ELSE d
        BY <1>2, SumWithout, SumIsExact
    <2>2. PICK c \in Nat : c = s[i]
        BY <1>1
    <2>3. PICK S \in Nat : S = A!SumOf(s)
        BY <1>2, Saturates
    <2>4. A!Sub(S, c) = IF S - c > MaxAmount THEN MaxAmount ELSE IF S - c < 0 THEN 0 ELSE S - c
        BY DEF A!Sub, A!Saturated
    <2>5. PICK m \in Nat : m = MaxAmount
        BY AmountAssumption
    <2>6. PICK D \in Nat : D = A!SumOf(A!RemoveAt(s, i)) /\ D = IF d > m THEN m ELSE d
        BY <2>1, <2>5
    <2>7. S = IF d + c > m THEN m ELSE d + c
        BY <1>2, <2>1, <2>2, <2>3, <2>5
    <2>8. A!Sub(S, c) <= D
        BY <2>4, <2>5, <2>6, <2>7
    <2> QED
        BY <2>2, <2>3, <2>6, <2>8
<1>6. A!FoldLeft(LAMBDA m, a : m + a, 0, s) = e
    BY <1>2 DEF ExactSum
<1> QED
    BY <1>2, <1>3, <1>4, <1>5, <1>6 DEF A!SumsSaturate

-----------------------------------------------------------------------------
(* Winning probabilities, for any number of bits.                           *)

\* Products with a unit keep the order.
LEMMA TimesMonotone ==
    ASSUME NEW a \in Nat, NEW b \in Nat, a <= b, NEW u \in Nat
    PROVE  a * u <= b * u
OBVIOUS

\* What is known of the widths, by names without exponents.
LEMMA Widths ==
    /\ Pow \in Nat \ {0} /\ Ulp \in Nat \ {0} /\ Epsilon \in Nat
    /\ Unit = Pow * Ulp /\ Unit \in Nat
    /\ 2 * Ulp <= Epsilon /\ 4 * Epsilon < Unit
    /\ Cut = 16 /\ MaxLuck = Pow * 16 - 1 /\ MaxLuck \in Nat
    /\ NEVER = 0 /\ ALWAYS = MaxLuck /\ Luck = 0 .. MaxLuck
<1>1. Pow \in Nat \ {0} /\ Ulp \in Nat \ {0} /\ Unit = Pow * Ulp /\ Cut = 16 /\ MaxLuck = Pow * 16 - 1
    BY PowersAssumption DEF Unit, Cut, MaxLuck
<1>2. Pow * Ulp \in Nat
    BY <1>1
<1> QED
    BY <1>1, <1>2, FloatAssumption DEF NEVER, ALWAYS, Luck

\* x + 1.0 is rounded to one of the two mantissas next to x.
LEMMA Neighbours ==
    ASSUME NEW x \in 0 .. Unit
    PROVE  \E q \in 0 .. Pow, r \in 0 .. Ulp - 1 :
               /\ q = x \div Ulp /\ r = x % Ulp /\ x = q * Ulp + r
               /\ PlusOne(x) = IF 2 * r > Ulp \/ (2 * r = Ulp /\ q % 2 = 1) THEN q + 1 ELSE q
               /\ PlusOne(x) \in 0 .. Pow
<1>1. PICK q, r : q = x \div Ulp /\ r = x % Ulp
    OBVIOUS
<1>2. x \in Nat /\ x <= Pow * Ulp
    BY Widths
<1>3. q \in Nat /\ r \in 0 .. Ulp - 1 /\ x = q * Ulp + r
    BY <1>1, <1>2, Division, Widths
<1>4. q <= Pow /\ (q = Pow => r = 0)
    <2>1. ASSUME q >= Pow + 1 PROVE FALSE
        <3>1. (Pow + 1) * Ulp <= q * Ulp
            BY <1>3, <2>1, TimesMonotone, Widths
        <3> QED
            BY <1>2, <1>3, <3>1, Widths
    <2>2. q = Pow => r = 0
        BY <1>2, <1>3, Widths
    <2> QED
        BY <1>3, <2>1, <2>2, Widths
<1>5. PlusOne(x) = IF 2 * r > Ulp \/ (2 * r = Ulp /\ q % 2 = 1) THEN q + 1 ELSE q
    BY <1>1 DEF PlusOne
<1>6. PlusOne(x) \in 0 .. Pow
    BY <1>3, <1>4, <1>5, Widths
<1> QED
    BY <1>1, <1>3, <1>4, <1>5, <1>6

\* Rounding moves a float by at most one unit of precision.
LEMMA RoundedNear ==
    ASSUME NEW x \in 0 .. Unit
    PROVE  /\ PlusOne(x) \in 0 .. Pow
           /\ PlusOne(x) * Ulp - x <= Ulp /\ x - PlusOne(x) * Ulp <= Ulp
<1>1. PICK q \in 0 .. Pow, r \in 0 .. Ulp - 1 :
          /\ x = q * Ulp + r /\ PlusOne(x) \in {q, q + 1} /\ PlusOne(x) \in 0 .. Pow
    BY Neighbours
<1>2. (q + 1) * Ulp = q * Ulp + Ulp
    BY Widths
<1> QED
    BY <1>1, <1>2, Widths

\* Rounding keeps the order of the floats.
LEMMA RoundedMonotone ==
    ASSUME NEW x \in 0 .. Unit, NEW y \in 0 .. Unit, x <= y
    PROVE  PlusOne(x) <= PlusOne(y)
<1>1. PICK q \in 0 .. Pow, r \in 0 .. Ulp - 1 :
          /\ x = q * Ulp + r
          /\ PlusOne(x) = IF 2 * r > Ulp \/ (2 * r = Ulp /\ q % 2 = 1) THEN q + 1 ELSE q
    BY Neighbours
<1>2. PICK p \in 0 .. Pow, s \in 0 .. Ulp - 1 :
          /\ y = p * Ulp + s
          /\ PlusOne(y) = IF 2 * s > Ulp \/ (2 * s = Ulp /\ p % 2 = 1) THEN p + 1 ELSE p
    BY Neighbours
<1>3. q <= p
    <2>1. ASSUME p + 1 <= q PROVE FALSE
        <3>1. (p + 1) * Ulp <= q * Ulp
            BY <2>1, TimesMonotone, Widths
        <3> QED
            BY <1>1, <1>2, <3>1, Widths
    <2> QED
        BY <2>1, Widths
<1>4. CASE q = p
    <2>1. r <= s
        BY <1>1, <1>2, <1>4, Widths
    <2> QED
        BY <1>1, <1>2, <1>4, <2>1, Widths
<1>5. CASE q # p
    <2>1. q + 1 <= p
        BY <1>3, <1>5, Widths
    <2> QED
        BY <1>1, <1>2, <2>1, Widths
<1> QED
    BY <1>4, <1>5

\* A float that is snapped to neither bound.
LEMMA Unsnapped ==
    ASSUME NEW x \in 0 .. Unit, ~ApproxEq(0, x), ~ApproxEq(Unit, x)
    PROVE  /\ PlusOne(x) \in 1 .. Pow - 1
           /\ TryFromF64(x) = 16 * PlusOne(x) - 1
           /\ AsF64(TryFromF64(x)) = PlusOne(x) * Ulp
<1>1. Epsilon < x /\ Epsilon < Unit - x
    BY Widths DEF ApproxEq, Distance
<1>2. PICK q \in 0 .. Pow : q = PlusOne(x) /\ q * Ulp - x <= Ulp /\ x - q * Ulp <= Ulp
    BY RoundedNear
<1>3. q \in 1 .. Pow - 1
    <2>1. x \in Nat /\ x <= Pow * Ulp /\ Ulp <= Epsilon /\ Epsilon < Pow * Ulp - x
        BY <1>1, Widths
    <2>2. q # 0
        <3>1. q = 0 => q * Ulp = 0
            BY Widths
        <3> QED
            BY <1>1, <1>2, <2>1, <3>1, Widths
    <2>3. q # Pow
        BY <1>2, <2>1, Widths
    <2> QED
        BY <2>2, <2>3, Widths
<1>4. MantissaBits(q) = q
    BY <1>3, Widths DEF MantissaBits
<1>5. TryFromF64(x) = 16 * q - 1
    BY <1>2, <1>3, <1>4, Widths DEF TryFromF64
<1>6. 16 * q - 1 # NEVER /\ 16 * q - 1 # ALWAYS /\ (16 * q - 1 + 1) \div 16 = q
    BY <1>3, Widths
<1>7. AsF64(16 * q - 1) = q * Ulp
    BY <1>6, Widths DEF AsF64
<1> QED
    BY <1>2, <1>3, <1>5, <1>7

\* ProbabilityKept, for any two floats: a probability made of a float is near it, and of the
\* greater float the greater one.
LEMMA ProbabilitiesKept ==
    ASSUME NEW x \in 0 .. Unit, NEW y \in 0 .. Unit
    PROVE  ProbabilityKept(x, y)
<1>1. ASSUME NEW z \in 0 .. Unit
      PROVE  TryFromF64(z) \in Luck /\ Distance(AsF64(TryFromF64(z)), z) <= Epsilon
    <2>1. CASE ApproxEq(0, z)
        <3>1. TryFromF64(z) = NEVER /\ AsF64(NEVER) = 0
            BY <2>1 DEF TryFromF64, AsF64
        <3> QED
            BY <2>1, <3>1, Widths DEF ApproxEq
    <2>2. CASE ~ApproxEq(0, z) /\ ApproxEq(Unit, z)
        <3>1. TryFromF64(z) = ALWAYS /\ AsF64(ALWAYS) = Unit
            BY <2>2, Widths DEF TryFromF64, AsF64
        <3> QED
            BY <2>2, <3>1, Widths DEF ApproxEq
    <2>3. CASE ~ApproxEq(0, z) /\ ~ApproxEq(Unit, z)
        <3>1. PICK q \in 1 .. Pow - 1 : /\ q = PlusOne(z) /\ TryFromF64(z) = 16 * q - 1
                                        /\ AsF64(TryFromF64(z)) = q * Ulp
            BY <2>3, Unsnapped
        <3>2. q * Ulp - z <= Ulp /\ z - q * Ulp <= Ulp /\ q * Ulp \in Nat
            <4>1. PlusOne(z) * Ulp - z <= Ulp /\ z - PlusOne(z) * Ulp <= Ulp
                BY RoundedNear
            <4> QED
                BY <3>1, <4>1, Widths
        <3>3. Distance(q * Ulp, z) <= Ulp
            BY <3>2, Widths DEF Distance
        <3>4. Distance(q * Ulp, z) <= Epsilon
            <4>1. Distance(q * Ulp, z) \in Int
                BY <3>2, Widths DEF Distance
            <4> QED
                BY <3>3, <4>1, Widths
        <3>5. 16 * q - 1 \in Luck
            BY Widths
        <3> QED
            BY <3>1, <3>4, <3>5
    <2> QED
        BY <2>1, <2>2, <2>3
<1>2. ASSUME x <= y PROVE TryFromF64(x) <= TryFromF64(y)
    <2>1. TryFromF64(x) \in 0 .. MaxLuck /\ TryFromF64(y) \in 0 .. MaxLuck
        BY <1>1, Widths
    <2>2. CASE ApproxEq(0, x)
        BY <2>1, <2>2, Widths DEF TryFromF64
    <2>3. CASE ~ApproxEq(0, y) /\ ApproxEq(Unit, y)
        BY <2>1, <2>3, Widths DEF TryFromF64
    <2>4. CASE ~ApproxEq(0, x) /\ ApproxEq(0, y)
        BY <1>2, <2>4, Widths DEF ApproxEq, Distance
    <2>5. CASE ApproxEq(Unit, x) /\ ~ApproxEq(Unit, y)
        BY <1>2, <2>5, Widths DEF ApproxEq, Distance
    <2>6. CASE /\ ~ApproxEq(0, x) /\ ~ApproxEq(Unit, x)
               /\ ~ApproxEq(0, y) /\ ~ApproxEq(Unit, y)
        <3>1. /\ PlusOne(x) \in 1 .. Pow - 1 /\ TryFromF64(x) = 16 * PlusOne(x) - 1
              /\ PlusOne(y) \in 1 .. Pow - 1 /\ TryFromF64(y) = 16 * PlusOne(y) - 1
            BY <2>6, Unsnapped
        <3>2. PlusOne(x) <= PlusOne(y)
            BY <1>2, RoundedMonotone
        <3> QED
            BY <3>1, <3>2, Widths
    <2> QED
        BY <2>2, <2>3, <2>4, <2>5, <2>6
<1> QED
    BY <1>1, <1>2 DEF ProbabilityKept

\* as_f64 in one form: the special cases are the general one.
LEMMA Told ==
    ASSUME NEW p \in Luck
    PROVE  \E k \in 0 .. Pow :
               /\ AsF64(p) = k * Ulp
               /\ 16 * k <= p + 1 /\ p + 1 < 16 * k + 16
               /\ (AsF64(p) = Unit <=> k = Pow) /\ (AsF64(p) = 0 <=> k = 0)
<1>1. PICK k : k = (p + 1) \div 16
    OBVIOUS
<1>2. k \in 0 .. Pow /\ 16 * k <= p + 1 /\ p + 1 < 16 * k + 16
    BY <1>1, Widths
<1>3. AsF64(p) = k * Ulp
    <2>1. CASE p = NEVER
        BY <1>1, <2>1, Widths DEF AsF64
    <2>2. CASE p # NEVER /\ p = ALWAYS
        <3>1. k = Pow
            BY <1>1, <2>2, Widths
        <3> QED
            BY <2>2, <3>1, Widths DEF AsF64
    <2>3. CASE p # NEVER /\ p # ALWAYS
        BY <1>1, <2>3, Widths DEF AsF64
    <2> QED
        BY <2>1, <2>2, <2>3
<1>4. k * Ulp = Unit <=> k = Pow
    <2>1. k < Pow => k * Ulp < Pow * Ulp
        <3>1. k < Pow => (k + 1) * Ulp <= Pow * Ulp
            BY <1>2, TimesMonotone, Widths
        <3> QED
            BY <1>2, <3>1, Widths
    <2> QED
        BY <1>2, <2>1, Widths
<1>5. k * Ulp = 0 <=> k = 0
    <2>1. k >= 1 => Ulp <= k * Ulp
        <3>1. k >= 1 => 1 * Ulp <= k * Ulp
            BY <1>2, TimesMonotone, Widths
        <3> QED
            BY <3>1, Widths
    <2> QED
        BY <1>2, <2>1, Widths
<1> QED
    BY <1>2, <1>3, <1>4, <1>5

\* WinsAsOften, for any probability: it wins as often as the float it is shown as says.
LEMMA WinsHold ==
    ASSUME NEW p \in Luck
    PROVE  WinsAsOften(p)
<1>1. PICK k \in 0 .. Pow : /\ AsF64(p) = k * Ulp
                            /\ 16 * k <= p + 1 /\ p + 1 < 16 * k + 16
    BY Told
<1>2. p \in Nat
    BY Widths
<1>3. Cardinality({luck \in Luck : Wins(luck, p)}) = p + 1
    <2>1. {luck \in Luck : Wins(luck, p)} = 0 .. p
        BY <1>2, Widths DEF Wins
    <2>2. Cardinality(0 .. p) = p + 1
        BY <1>2, FS_Interval
    <2> QED
        BY <2>1, <2>2, Zenon
<1>4. /\ (16 * k) * Ulp <= (p + 1) * Ulp
      /\ (p + 2) * Ulp <= (16 * k + 16) * Ulp
    BY <1>1, <1>2, TimesMonotone, Widths
<1>5. /\ 16 * (k * Ulp) <= Ulp * (p + 1)
      /\ Ulp * (p + 1) < 16 * (k * Ulp) + Ulp * 16
    BY <1>2, <1>4, Widths
<1> QED
    BY <1>1, <1>3, <1>5, Widths DEF WinsAsOften

\* ComparisonsAgree, for any two probabilities: the exact and the approximate order do not
\* contradict each other.
LEMMA ComparisonsHold ==
    ASSUME NEW p \in Luck, NEW q \in Luck
    PROVE  ComparisonsAgree(p, q)
<1>1. ASSUME NEW a \in Luck, NEW b \in Luck, a <= b PROVE AsF64(a) <= AsF64(b)
    <2>1. PICK k \in 0 .. Pow : AsF64(a) = k * Ulp /\ 16 * k <= a + 1 /\ a + 1 < 16 * k + 16
        BY Told
    <2>2. PICK l \in 0 .. Pow : AsF64(b) = l * Ulp /\ 16 * l <= b + 1 /\ b + 1 < 16 * l + 16
        BY Told
    <2>3. k <= l
        BY <1>1, <2>1, <2>2, Widths
    <2> QED
        BY <2>1, <2>2, <2>3, TimesMonotone, Widths
<1>2. \A a \in Luck : AsF64(a) \in Nat
    <2> SUFFICES ASSUME NEW a \in Luck PROVE AsF64(a) \in Nat
        OBVIOUS
    <2>1. PICK k \in 0 .. Pow : AsF64(a) = k * Ulp
        BY Told
    <2> QED
        BY <2>1, Widths
<1>3. PICK x \in Nat, y \in Nat : x = AsF64(p) /\ y = AsF64(q)
    BY <1>2
<1>4. /\ p < q => x <= y
      /\ q <= p => y <= x
    BY <1>1, <1>3, Widths
<1>5. /\ ApproxLess(p, q) <=> Epsilon < y - x
      /\ ApproxLess(q, p) <=> Epsilon < x - y
      /\ ApproxEqual(p, p)
    BY <1>3, Widths DEF ApproxLess, ApproxEqual, ApproxEq, Distance
<1>6. ApproxLess(p, q) => p < q
    BY <1>3, <1>4, <1>5, Widths
<1>7. \A r \in {MinProb(p, q), MinProb(q, p)} :
          r \in {p, q} /\ AsF64(r) <= AsF64(p) + Epsilon /\ AsF64(r) <= AsF64(q) + Epsilon
    BY <1>3, <1>5, Widths DEF MinProb
<1>8. \A r \in {MaxProb(p, q), MaxProb(q, p)} :
          r \in {p, q} /\ AsF64(p) <= AsF64(r) + Epsilon /\ AsF64(q) <= AsF64(r) + Epsilon
    BY <1>3, <1>5, Widths DEF MaxProb
<1> QED
    BY <1>5, <1>6, <1>7, <1>8 DEF ComparisonsAgree

\* QuotientsDefined, for any amount and probability: div_f64 does not panic, and what it gives
\* is the amount again when it is multiplied, but for the rounding.
LEMMA QuotientsHold ==
    ASSUME NEW a \in 0 .. MaxU256, NEW p \in Luck
    PROVE  QuotientsDefined(a, p)
<1>1. PICK k \in 0 .. Pow : /\ AsF64(p) = k * Ulp
                            /\ (AsF64(p) = Unit <=> k = Pow) /\ (AsF64(p) = 0 <=> k = 0)
    BY Told
<1>2. a \in Nat /\ MaxU256 \in Nat /\ k \in Nat
    BY FloatAssumption, Widths
<1>3. PICK x : x = k * Ulp
    OBVIOUS
<1>4. PICK q : q = DivF64(a, x)
    OBVIOUS
<1>5. CASE k = 0
    <2>1. q = InvalidInput /\ InvalidInput = -2 /\ Panic = -1
        BY <1>1, <1>3, <1>4, <1>5 DEF DivF64, InvalidInput, Panic
    <2> QED
        BY <1>1, <1>3, <1>4, <1>5, <2>1 DEF QuotientsDefined
<1>6. CASE k = Pow
    <2>1. x # 0 /\ x = Unit
        BY <1>1, <1>3, <1>6, Widths
    <2>2. q = a
        BY <1>4, <2>1 DEF DivF64
    <2>3. q * x <= a * Unit /\ a * Unit < (q + 1) * x
        BY <1>2, <2>1, <2>2, Widths
    <2> QED
        BY <1>1, <1>2, <1>3, <1>4, <2>1, <2>2, <2>3 DEF QuotientsDefined, InvalidInput, Panic
<1>7. CASE k # 0 /\ k # Pow
    <2>1. x # 0 /\ x # Unit
        BY <1>1, <1>3, <1>7
    <2>2. MantissaBits(PlusOne(x)) = k
        <3>1. (k * Ulp + 0) \div Ulp = k /\ (k * Ulp + 0) % Ulp = 0
            BY <1>2, Quotient, Widths
        <3>2. k * Ulp + 0 = k * Ulp
            BY <1>2, Widths
        <3>3. PlusOne(x) = k
            BY <1>2, <1>3, <3>1, <3>2, Widths DEF PlusOne
        <3>4. k % Pow = k
            BY <1>7, Widths
        <3> QED
            BY <3>3, <3>4 DEF MantissaBits
    <2>3. PICK nom \in Nat : nom = (a * Pow) % (MaxU256 + 1)
        <3>1. a * Pow \in Nat /\ MaxU256 + 1 \in Nat \ {0}
            BY <1>2, Widths
        <3> QED
            BY <3>1, Division
    <2>4. q = nom \div k
        BY <1>4, <1>7, <2>1, <2>2, <2>3 DEF DivF64
    <2>5. k \in Nat \ {0}
        BY <1>2, <1>7
    <2>6. q \in Nat /\ q * k <= nom /\ nom < (q + 1) * k
        <3>1. /\ nom \div k \in Nat /\ nom % k \in Nat /\ nom % k < k
              /\ nom = (nom \div k) * k + (nom % k)
            BY <2>5, Division
        <3> QED
            BY <2>4, <2>5, <3>1
    <2>7. ASSUME a * Pow <= MaxU256 PROVE q * x <= a * Unit /\ a * Unit < (q + 1) * x
        <3>1. PICK n \in Nat : n = a * Pow
            BY <1>2, Widths
        <3>2. nom = n
            BY <1>2, <2>3, <2>7, <3>1
        <3>3. PICK l \in Nat, m \in Nat : l = q * k /\ m = (q + 1) * k
            BY <2>5, <2>6
        <3>4. l * Ulp <= n * Ulp /\ (n + 1) * Ulp <= m * Ulp
            BY <2>6, <3>2, <3>3, TimesMonotone, Widths
        <3>5. l * Ulp = q * x /\ n * Ulp = a * Unit /\ m * Ulp = (q + 1) * x
            BY <1>2, <1>3, <2>6, <3>1, <3>3, Widths
        <3>6. n * Ulp < (n + 1) * Ulp /\ n * Ulp \in Nat /\ (n + 1) * Ulp \in Nat /\ m * Ulp \in Nat
            BY Widths
        <3>7. l * Ulp \in Nat /\ l * Ulp <= n * Ulp /\ n * Ulp < m * Ulp
            BY <3>4, <3>6, Widths
        <3> QED
            BY <3>5, <3>7
    <2>8. q # Panic /\ q # InvalidInput
        BY <2>6 DEF Panic, InvalidInput
    <2> QED
        BY <1>1, <1>3, <1>4, <2>1, <2>7, <2>8 DEF QuotientsDefined
<1> QED
    BY <1>5, <1>6, <1>7

-----------------------------------------------------------------------------
(* Public keys of BN254, for any field and curve without a point of y = 0.  *)

\* What is known of the field, by its assumptions.
LEMMA Field ==
    /\ Modulus \in Nat \ {0} /\ SignBit \in Nat \ {0} /\ Modulus <= SignBit /\ Modulus % 2 = 1
    /\ Fq = 0 .. Modulus - 1 /\ Coefficient \in Nat
BY FieldAssumption, CurveAssumption DEF Fq

\* Two roots of one square are equal or each other's negation.
LEMMA Roots ==
    ASSUME NEW a \in 1 .. Modulus - 1, NEW b \in 1 .. Modulus - 1,
           (a * a) % Modulus = (b * b) % Modulus
    PROVE  a = b \/ a + b = Modulus
<1>1. ASSUME NEW c \in 1 .. Modulus - 1, NEW d \in 1 .. Modulus - 1, d < c,
             (c * c) % Modulus = (d * d) % Modulus
      PROVE  c + d = Modulus
    <2>1. PICK q1 \in Nat, q2 \in Nat, t \in Nat :
              c * c = q1 * Modulus + t /\ d * d = q2 * Modulus + t
        <3>1. c * c \in Nat /\ d * d \in Nat
            BY Field
        <3>2. \A n \in {c * c, d * d} : n \div Modulus \in Nat /\ n % Modulus \in Nat
                                         /\ n = (n \div Modulus) * Modulus + (n % Modulus)
            BY <3>1, Division, Field
        <3>3. PICK m, n : m = c * c /\ n = d * d
            OBVIOUS
        <3>4. /\ m \div Modulus \in Nat /\ n \div Modulus \in Nat /\ m % Modulus \in Nat
              /\ m % Modulus = n % Modulus
              /\ m = (m \div Modulus) * Modulus + (m % Modulus)
              /\ n = (n \div Modulus) * Modulus + (n % Modulus)
            BY <1>1, <3>2, <3>3
        <3> QED
            BY <3>3, <3>4
    <2>2. PICK w \in Nat, e \in Nat : /\ c + d = w * Modulus + e /\ e < Modulus
        <3>1. c + d \in Nat
            BY Field
        <3> QED
            BY <3>1, Division, Field
    <2>3. PICK f \in Fq : f = c - d /\ f # 0
        BY <1>1, Field
    <2>4. f * e = (q1 - q2 - f * w) * Modulus + 0
        <3>1. f * (c + d) = c * c - d * d
            BY <2>3, Field
        <3>2. f * (c + d) = f * (w * Modulus) + f * e
            BY <2>2, <2>3, Field
        <3>3. f * (w * Modulus) = (f * w) * Modulus
            BY <2>2, <2>3, Field
        <3>4. (q1 - q2 - f * w) * Modulus = q1 * Modulus - q2 * Modulus - (f * w) * Modulus
            BY <2>1, <2>2, <2>3, Field
        <3> QED
            BY <2>1, <2>2, <2>3, <3>1, <3>2, <3>3, <3>4, Field
    <2>5. (f * e) % Modulus = 0
        <3>1. q1 - q2 - f * w \in Int
            BY <2>1, <2>2, <2>3, Field
        <3> QED
            BY <2>4, <3>1, Quotient, Field
    <2>6. e = 0
        <3>1. e \in Fq
            BY <2>2, Field
        <3> QED
            BY <2>3, <2>5, <3>1, FieldAssumption
    <2>7. w = 1
        <3>1. w = 0 => w * Modulus = 0
            BY Field
        <3>2. w >= 2 => w * Modulus >= 2 * Modulus
            BY <2>2, Field
        <3> QED
            BY <1>1, <2>2, <2>6, <3>1, <3>2, Field
    <2> QED
        BY <2>2, <2>6, <2>7, Field
<1> QED
    BY <1>1, Field

\* A root's negation is one of the other parity.
LEMMA Negation ==
    ASSUME NEW r \in 1 .. Modulus - 1
    PROVE  /\ (Modulus - r) % Modulus = Modulus - r
           /\ Modulus - r \in 1 .. Modulus - 1
           /\ ((Modulus - r) * (Modulus - r)) % Modulus = (r * r) % Modulus
           /\ r % 2 \in {0, 1} /\ (Modulus - r) % 2 = 1 - (r % 2)
<1>1. Modulus - r \in 1 .. Modulus - 1 /\ (Modulus - r) % Modulus = Modulus - r
    BY Field
<1>2. r % 2 \in {0, 1} /\ (Modulus - r) % 2 = 1 - (r % 2)
    BY Field
<1>3. PICK q \in Nat, t \in Nat : r * r = q * Modulus + t /\ t < Modulus
    <2>1. r * r \in Nat
        BY Field
    <2> QED
        BY <2>1, Division, Field
<1>4. (Modulus - r) * (Modulus - r) = (Modulus - r - r + q) * Modulus + t
    BY <1>3, Field
<1>5. ((Modulus - r) * (Modulus - r)) % Modulus = t
    <2>1. Modulus - r - r + q \in Int
        BY <1>3, Field
    <2> QED
        BY <1>3, <1>4, <2>1, Quotient, Field
<1>6. (r * r) % Modulus = t
    BY <1>3, Quotient, Field
<1> QED
    BY <1>1, <1>2, <1>5, <1>6

\* The coordinates of a point, of which y is not zero.
LEMMA PointParts ==
    ASSUME NEW p \in Point
    PROVE  /\ p = [x |-> p.x, y |-> p.y] /\ p.x \in Fq /\ p.y \in 1 .. Modulus - 1
           /\ p.x \in Nat /\ OnCurve(p.x, p.y)
           /\ p # Error /\ p # Infinity
<1>1. p \in [x : Fq, y : Fq] /\ OnCurve(p.x, p.y)
    BY DEF Point
<1> QED
    BY <1>1, FieldAssumption, CurveAssumption, Field

\* Coordinates on the curve are a point.
LEMMA PointOf ==
    ASSUME NEW x \in Fq, NEW y \in Fq, OnCurve(x, y)
    PROVE  [x |-> x, y |-> y] \in Point
BY DEF Point

\* bn254_canonical_fq accepts the elements of the field.
LEMMA Canonical ==
    ASSUME NEW n \in Nat
    PROVE  /\ CanonicalFq(n) # Error <=> n \in Fq
           /\ n \in Fq => CanonicalFq(n) = n
<1>1. n % Modulus = n <=> n \in Fq
    <2>1. n % Modulus \in Nat /\ n % Modulus < Modulus
        BY Division, Field
    <2>2. n < Modulus => n % Modulus = n
        BY Field
    <2> QED
        BY <2>1, <2>2, Field
<1> QED
    BY <1>1, FieldAssumption DEF CanonicalFq

\* The root of the given parity is chosen.
LEMMA RootOfParity ==
    ASSUME NEW x \in Fq, NEW odd \in {0, 1}, NEW y \in Fq, OnCurve(x, y)
    PROVE  LET roots == {r \in Fq : OnCurve(x, r)}
               root == CHOOSE r \in roots : TRUE
               z == IF root % 2 = odd THEN root ELSE (Modulus - root) % Modulus
           IN  z \in Fq /\ OnCurve(x, z) /\ z % 2 = odd /\ (y % 2 = odd => y = z)
<1> DEFINE roots == {r \in Fq : OnCurve(x, r)}
<1>1. PICK root : root = CHOOSE r \in roots : TRUE
    OBVIOUS
<1>2. root \in Fq /\ OnCurve(x, root)
    BY <1>1
<1>3. \A r \in Fq : OnCurve(x, r) => r \in 1 .. Modulus - 1
    BY PointOf, PointParts
<1>4. root \in 1 .. Modulus - 1 /\ y \in 1 .. Modulus - 1
    BY <1>2, <1>3
<1>5. PICK n : /\ n = Modulus - root /\ n % Modulus = n /\ n \in 1 .. Modulus - 1
               /\ (n * n) % Modulus = (root * root) % Modulus
               /\ root % 2 \in {0, 1} /\ n % 2 = 1 - (root % 2)
    BY <1>4, Negation
<1>6. PICK z : z = IF root % 2 = odd THEN root ELSE (Modulus - root) % Modulus
    OBVIOUS
<1>7. z = IF root % 2 = odd THEN root ELSE n
    BY <1>5, <1>6
<1>8. z \in Fq /\ z % 2 = odd
    BY <1>4, <1>5, <1>7, Field
<1>9. OnCurve(x, z)
    BY <1>2, <1>5, <1>7 DEF OnCurve
<1>10. y = root \/ y = n
    <2>1. (y * y) % Modulus = (root * root) % Modulus
        BY <1>2 DEF OnCurve
    <2>2. y = root \/ y + root = Modulus
        BY <1>4, <2>1, Roots
    <2> QED
        BY <1>4, <1>5, <2>2, Field
<1>11. y % 2 = odd => y = z
    BY <1>5, <1>7, <1>10
<1> QED
    BY <1>1, <1>6, <1>8, <1>9, <1>11

\* The two parts of an encoding.
LEMMA EncodingParts ==
    ASSUME NEW x \in Fq, NEW odd \in {0, 1}
    PROVE  /\ x + SignBit * odd \in Encoding
           /\ (x + SignBit * odd) \div SignBit = odd /\ (x + SignBit * odd) % SignBit = x
<1>1. x \in Nat /\ x < SignBit /\ odd \in Nat /\ x + SignBit * odd = odd * SignBit + x
    BY Field
<1>2. x + SignBit * odd \in Encoding
    BY <1>1, Field DEF Encoding
<1>3. (odd * SignBit + x) \div SignBit = odd /\ (odd * SignBit + x) % SignBit = x
    BY <1>1, Quotient, Field
<1> QED
    BY <1>1, <1>2, <1>3

\* bn254_decompress makes a point, and its compression is the encoding again.
LEMMA Decompressed ==
    ASSUME NEW e \in Encoding
    PROVE  Decompress(e) # Error =>
               /\ Decompress(e) \in Point
               /\ Compress(Decompress(e)) = e
<1> SUFFICES ASSUME Decompress(e) # Error
             PROVE  Decompress(e) \in Point /\ Compress(Decompress(e)) = e
    OBVIOUS
<1>1. PICK odd, low : odd = e \div SignBit /\ low = e % SignBit
    OBVIOUS
<1>2. odd \in {0, 1} /\ low \in Nat /\ e = low + SignBit * odd
    <2>1. e \in Nat /\ e < 2 * SignBit
        BY Field DEF Encoding
    <2>2. odd \in Nat /\ low \in Nat /\ e = odd * SignBit + low
        BY <1>1, <2>1, Division, Field
    <2>3. odd >= 2 => odd * SignBit >= 2 * SignBit
        BY <2>2, Field
    <2> QED
        BY <2>1, <2>2, <2>3, Field
<1>3. PICK x : x = CanonicalFq(low)
    OBVIOUS
<1> DEFINE roots == {r \in Fq : OnCurve(x, r)}
<1>4. x # Error /\ roots # {}
    BY <1>1, <1>3 DEF Decompress
<1>5. x \in Fq /\ x = low
    BY <1>2, <1>3, <1>4, Canonical
<1>6. PICK y \in Fq : OnCurve(x, y)
    BY <1>4
<1>7. PICK root : root = CHOOSE r \in roots : TRUE
    OBVIOUS
<1>8. PICK z : z = IF root % 2 = odd THEN root ELSE (Modulus - root) % Modulus
    OBVIOUS
<1>9. z \in Fq /\ OnCurve(x, z) /\ z % 2 = odd
    BY <1>2, <1>5, <1>6, <1>7, <1>8, RootOfParity
<1>10. Decompress(e) = [x |-> x, y |-> z]
    BY <1>1, <1>3, <1>4, <1>7, <1>8 DEF Decompress
<1>11. [x |-> x, y |-> z] \in Point
    BY <1>5, <1>9, PointOf
<1>12. Compress([x |-> x, y |-> z]) = e
    BY <1>2, <1>5, <1>9, <1>11, PointParts DEF Compress
<1> QED
    BY <1>10, <1>11, <1>12

\* The compression of a point is decompressed to it.
LEMMA Compressed ==
    ASSUME NEW p \in Point
    PROVE  /\ Compress(p) \in Encoding /\ Compress(p) # Error
           /\ Decompress(Compress(p)) = p
<1>1. PICK x \in Fq, y \in 1 .. Modulus - 1 : p = [x |-> x, y |-> y] /\ x = p.x /\ y = p.y
    BY PointParts
<1>2. OnCurve(x, y) /\ p # Infinity /\ y \in Fq /\ y % 2 \in {0, 1} /\ x \in Nat
    <2>1. OnCurve(x, y) /\ p # Infinity
        BY <1>1, PointParts
    <2>2. y % 2 \in {0, 1}
        BY Negation
    <2> QED
        BY <2>1, <2>2, Field
<1>3. PICK odd \in {0, 1} : odd = y % 2
    BY <1>2
<1>4. PICK e : e = x + SignBit * odd
    OBVIOUS
<1>5. Compress(p) = e /\ e \in Encoding /\ e \div SignBit = odd /\ e % SignBit = x
    BY <1>1, <1>2, <1>3, <1>4, EncodingParts DEF Compress
<1>6. e # Error
    BY <1>5, FieldAssumption, Field DEF Encoding
<1>7. CanonicalFq(x) = x /\ x # Error
    BY <1>2, Canonical, FieldAssumption
<1> DEFINE roots == {r \in Fq : OnCurve(x, r)}
<1>8. roots # {}
    BY <1>2
<1>9. PICK root : root = CHOOSE r \in roots : TRUE
    OBVIOUS
<1>10. PICK z : z = IF root % 2 = odd THEN root ELSE (Modulus - root) % Modulus
    OBVIOUS
<1>11. z = y
    BY <1>2, <1>3, <1>9, <1>10, RootOfParity
<1>12. Decompress(e) = [x |-> x, y |-> z]
    BY <1>5, <1>7, <1>8, <1>9, <1>10 DEF Decompress
<1> QED
    BY <1>1, <1>5, <1>6, <1>11, <1>12

\* EncodingIsUnique, for any encoding and point.
LEMMA EncodingsHold ==
    ASSUME NEW e \in Encoding, NEW p \in Point
    PROVE  EncodingIsUnique(e, p)
<1>1. ASSUME Bn254PublicKey(e) # Error
      PROVE  /\ Decompress(e) \in Point /\ Compress(Decompress(e)) = e
             /\ FromAffineCoordinates(ToAffineCoordinates(e).x, ToAffineCoordinates(e).y) = e
    <2>1. Decompress(e) # Error
        BY <1>1 DEF Bn254PublicKey
    <2>2. PICK c \in Point : c = Decompress(e) /\ Compress(c) = e
        BY <2>1, Decompressed
    <2>3. /\ CanonicalFq(c.x) # Error /\ CanonicalFq(c.y) # Error /\ OnCurve(c.x, c.y)
          /\ c = [x |-> c.x, y |-> c.y]
        BY PointParts, Canonical, Field
    <2>4. FromAffineCoordinates(c.x, c.y) = e
        BY <2>2, <2>3 DEF FromAffineCoordinates
    <2> QED
        BY <2>2, <2>4 DEF ToAffineCoordinates
<1>2. Decompress(Compress(p)) = p /\ p # Error
    BY Compressed, PointParts
<1>3. Bn254PublicKey(Compress(p)) = Compress(p)
    BY <1>2 DEF Bn254PublicKey
<1> QED
    BY <1>1, <1>2, <1>3 DEF EncodingIsUnique

-----------------------------------------------------------------------------
(* Secrets of BN254, of any base and length.                                *)

\* The digits of a secret.
LEMMA SecretParts ==
    ASSUME NEW s \in Secret
    PROVE  /\ s \in Seq(Nat) /\ Len(s) = Length /\ DOMAIN s = 1 .. Length
           /\ \A i \in 1 .. Length : s[i] \in 0 .. Base - 1 /\ s[i] \in Nat
<1>1. s \in [1 .. Length -> 0 .. Base - 1] /\ Length \in Nat
    BY SecretAssumption DEF Secret
<1>2. s \in [1 .. Length -> Nat]
    BY <1>1, SecretAssumption
<1> QED
    BY <1>1, <1>2, FunctionIsSeq

\* The number of a secret, digit by digit.
LEMMA NumberRecursion ==
    ASSUME NEW s \in Secret
    PROVE  \E N \in [1 .. Length + 1 -> Nat] :
               /\ N[1] = Number(s) /\ N[Length + 1] = 0
               /\ \A j \in 1 .. Length : N[j] = N[j + 1] * Base + s[j]
<1>1. PICK D : D = 1 .. Length
    OBVIOUS
<1>2. DOMAIN s = D /\ Length \in Nat /\ Base \in Nat /\ IsFiniteSet(D)
    <2>1. IsFiniteSet(1 .. Length)
        BY SecretAssumption, FS_Interval
    <2> QED
        BY <1>1, <2>1, SecretParts, SecretAssumption
<1>3. \A T \in SUBSET D : T # {} => Min(T) \in T /\ \A y \in T : Min(T) <= y
    BY <1>1, <1>2, Ends
<1>4. PICK pick : pick = [T \in SUBSET D |-> Min(T)]
    OBVIOUS
<1>5. PICK step : step = [T \in SUBSET D |-> [n \in Nat |-> n * Base + s[Min(T)]]]
    OBVIOUS
<1>6. \A T \in SUBSET D : T # {} => pick[T] = Min(T) /\ pick[T] \in T
    BY <1>3, <1>4
<1>7. \A T \in SUBSET D, n \in Nat : T # {} => step[T][n] \in Nat
    <2> SUFFICES ASSUME NEW T \in SUBSET D, NEW n \in Nat, T # {} PROVE step[T][n] \in Nat
        OBVIOUS
    <2>1. s[Min(T)] \in Nat
        BY <1>1, <1>3, SecretParts
    <2>2. step[T][n] = n * Base + s[Min(T)]
        BY <1>5
    <2> QED
        BY <1>2, <2>1, <2>2
<1>8. PICK f \in [SUBSET D -> Nat] : IsFold(f, D, 0, pick, step)
    <2>1. 0 \in Nat /\ \A T \in SUBSET D : T # {} => pick[T] \in T
        BY <1>6
    <2> QED
        BY <1>2, <1>7, <2>1, FoldExists
<1>9. \A T \in SUBSET D : f[T] = IF T = {} THEN 0 ELSE f[T \ {Min(T)}] * Base + s[Min(T)]
    <2> SUFFICES ASSUME NEW T \in SUBSET D
                 PROVE  f[T] = IF T = {} THEN 0 ELSE f[T \ {Min(T)}] * Base + s[Min(T)]
        OBVIOUS
    <2>1. CASE T = {}
        BY <1>8, <2>1 DEF IsFold
    <2>2. CASE T # {}
        <3>1. f[T] = step[T][f[T \ {Min(T)}]]
            BY <1>6, <1>8, <2>2 DEF IsFold
        <3>2. f[T \ {Min(T)}] \in Nat
            OBVIOUS
        <3> QED
            BY <1>5, <2>2, <3>1, <3>2
    <2> QED
        BY <2>1, <2>2
<1> DEFINE Folds(g) == g = [T \in SUBSET D |-> IF T = {} THEN 0 ELSE g[T \ {Min(T)}] * Base + s[Min(T)]]
<1>10. Folds(f)
    <2>1. f = [T \in SUBSET D |-> f[T]]
        OBVIOUS
    <2> QED
        BY <1>9, <2>1
<1>11. PICK g : Folds(g) /\ Number(s) = g[D]
    <2>1. Folds(CHOOSE g : Folds(g))
        BY <1>10
    <2>2. Number(s) = (CHOOSE g : Folds(g))[D]
        BY <1>2 DEF Number, FoldRight, MapThenFoldSet
    <2> QED
        BY <2>1, <2>2
<1>12. PICK N : N = [j \in 1 .. Length + 1 |-> g[j .. Length]]
    OBVIOUS
<1>13. N[Length + 1] = 0
    <2>1. Length + 1 .. Length = {} /\ Length + 1 \in 1 .. Length + 1
        BY <1>2
    <2>2. g[{}] = 0
        BY <1>11
    <2> QED
        BY <1>12, <2>1, <2>2
<1>14. ASSUME NEW j \in 1 .. Length
       PROVE  N[j] = N[j + 1] * Base + s[j]
    <2>1. PICK T : T = j .. Length
        OBVIOUS
    <2>2. T \in SUBSET D /\ T # {} /\ Min(T) = j
        BY <1>1, <1>2, <2>1, Chain
    <2>4. T \ {j} = j + 1 .. Length
        BY <1>2, <2>1, Chain
    <2>5. g[T] = g[T \ {j}] * Base + s[j]
        BY <1>11, <2>2
    <2>6. N[j] = g[T] /\ N[j + 1] = g[T \ {j}]
        <3>1. j \in 1 .. Length + 1 /\ j + 1 \in 1 .. Length + 1
            BY <1>2
        <3> QED
            BY <1>12, <2>1, <2>4, <3>1
    <2> QED
        BY <2>5, <2>6
<1>15. \A j \in 1 .. Length + 1 : N[j] \in Nat
    <2> DEFINE C == {i \in 0 .. Length : N[Length + 1 - i] \notin Nat}
    <2> SUFFICES ASSUME C # {} PROVE FALSE
        <3>1. \A j \in 1 .. Length + 1 : Length + 1 - j \in 0 .. Length /\ Length + 1 - (Length + 1 - j) = j
            BY <1>2
        <3> QED
            BY <3>1
    <2>1. PICK i \in C : \A k \in C : ~(k < i)
        <3>1. C \in SUBSET Nat
            BY <1>2
        <3> HIDE DEF C
        <3> QED
            BY <3>1, LeastOf
    <2>2. i # 0
        BY <1>2, <1>13, <2>1
    <2>3. i - 1 \in 0 .. Length /\ i - 1 < i /\ Length + 1 - i \in 1 .. Length
          /\ Length + 1 - (i - 1) = (Length + 1 - i) + 1
        BY <1>2, <2>1, <2>2
    <2>4. N[(Length + 1 - i) + 1] \in Nat
        BY <2>1, <2>3
    <2>5. s[Length + 1 - i] \in Nat
        BY <2>3, SecretParts
    <2>6. N[Length + 1 - i] \in Nat
        BY <1>2, <1>14, <2>3, <2>4, <2>5
    <2> QED
        BY <2>1, <2>6
<1>16. N[1] = Number(s)
    <2>1. 1 \in 1 .. Length + 1
        BY <1>2
    <2> QED
        BY <1>1, <1>11, <1>12, <2>1
<1> QED
    BY <1>12, <1>13, <1>14, <1>15, <1>16

\* Two secrets with one number are one.
LEMMA NumberTellsSecret ==
    ASSUME NEW s \in Secret, NEW t \in Secret, Number(s) = Number(t)
    PROVE  s = t
<1>1. PICK M \in [1 .. Length + 1 -> Nat] :
          /\ M[1] = Number(s) /\ M[Length + 1] = 0
          /\ \A j \in 1 .. Length : M[j] = M[j + 1] * Base + s[j]
    BY NumberRecursion
<1>2. PICK N \in [1 .. Length + 1 -> Nat] :
          /\ N[1] = Number(t) /\ N[Length + 1] = 0
          /\ \A j \in 1 .. Length : N[j] = N[j + 1] * Base + t[j]
    BY NumberRecursion
<1>3. Length \in Nat /\ Base \in Nat \ {0}
    BY SecretAssumption
<1>4. ASSUME NEW j \in 1 .. Length, M[j] = N[j]
      PROVE  s[j] = t[j] /\ M[j + 1] = N[j + 1]
    <2>1. PICK m \in Nat, n \in Nat, c \in 0 .. Base - 1, d \in 0 .. Base - 1 :
              m = M[j + 1] /\ n = N[j + 1] /\ c = s[j] /\ d = t[j]
        <3>1. j + 1 \in 1 .. Length + 1
            BY <1>3
        <3> QED
            BY <3>1, SecretParts
    <2>2. m * Base + c = n * Base + d
        BY <1>1, <1>2, <1>4, <2>1
    <2>3. /\ (m * Base + c) \div Base = m /\ (m * Base + c) % Base = c
          /\ (n * Base + d) \div Base = n /\ (n * Base + d) % Base = d
        <3>1. \A q \in Nat, r \in 0 .. Base - 1 : (q * Base + r) \div Base = q /\ (q * Base + r) % Base = r
            <4> SUFFICES ASSUME NEW q \in Nat, NEW r \in 0 .. Base - 1
                         PROVE  (q * Base + r) \div Base = q /\ (q * Base + r) % Base = r
                OBVIOUS
            <4>1. q \in Int /\ r \in Nat /\ r < Base
                BY <1>3
            <4> QED
                BY <1>3, <4>1, Quotient
        <3> QED
            BY <3>1
    <2> QED
        BY <2>1, <2>2, <2>3
<1>5. \A j \in 1 .. Length + 1 : M[j] = N[j]
    <2> DEFINE C == {j \in 1 .. Length + 1 : M[j] # N[j]}
    <2> SUFFICES ASSUME NEW k \in C PROVE FALSE
        OBVIOUS
    <2>1. PICK i \in C : \A j \in C : ~(j < i)
        <3>1. C \in SUBSET Nat
            OBVIOUS
        <3> HIDE DEF C
        <3> QED
            BY <3>1, LeastOf
    <2>2. i # 1 /\ i \in 1 .. Length + 1
        BY <1>1, <1>2, <2>1
    <2>3. i - 1 \in 1 .. Length /\ i - 1 \in 1 .. Length + 1 /\ i - 1 < i /\ (i - 1) + 1 = i
        BY <1>3, <2>2
    <2>4. M[i - 1] = N[i - 1]
        BY <2>1, <2>3
    <2>5. M[i] = N[i]
        BY <1>4, <2>3, <2>4
    <2> QED
        BY <2>1, <2>5
<1>6. \A j \in 1 .. Length : s[j] = t[j]
    <2>1. \A j \in 1 .. Length : j \in 1 .. Length + 1
        BY <1>3
    <2> QED
        BY <1>4, <1>5, <2>1
<1>7. s = [i \in 1 .. Length |-> s[i]] /\ t = [i \in 1 .. Length |-> t[i]]
    BY DEF Secret
<1> QED
    BY <1>6, <1>7

\* A secret that is accepted is the logarithm of its key.
LEMMA KeyOfSecret ==
    ASSUME NEW s \in Secret
    PROVE  /\ FromPrivkey(s) # Error =>
                  /\ Number(s) \in 1 .. Order - 1
                  /\ FromPrivkey(s) = Compress(GeneratorTimes[Number(s)])
                  /\ GeneratorTimes[Number(s)] \in Point
                  /\ FromPrivkey(s) \in Encoding /\ Bn254PublicKey(FromPrivkey(s)) # Error
           /\ FromSecret(s) = Error <=> FromPrivkey(s) = Error
           /\ FromPrivkey(s) # Error => FromSecret(s) = [secret |-> s, public |-> FromPrivkey(s)]
<1>1. PICK n \in Nat : n = Number(s)
    <2>1. PICK N \in [1 .. Length + 1 -> Nat] : N[1] = Number(s)
        BY NumberRecursion
    <2> QED
        BY <2>1, SecretAssumption
<1>2. Len(s) = Length /\ Order \in Nat \ {0}
    BY SecretParts, SecretAssumption
<1>3. ASSUME FromPrivkey(s) # Error
      PROVE  /\ n \in 1 .. Order - 1 /\ FromPrivkey(s) = Compress(GeneratorTimes[n])
             /\ GeneratorTimes[n] \in Point
             /\ FromPrivkey(s) \in Encoding /\ Bn254PublicKey(FromPrivkey(s)) # Error
    <2>1. ~(n >= Order) /\ FromPrivkey(s) = Compress(GeneratorTimes[n])
        BY <1>1, <1>2, <1>3 DEF FromPrivkey
    <2>2. n # 0
        BY <1>3, <2>1, CurveAssumption DEF Compress
    <2>3. n \in 1 .. Order - 1
        BY <1>2, <2>1, <2>2
    <2>4. PICK p \in Point : p = GeneratorTimes[n]
        BY <2>3, CurveAssumption
    <2>5. Compress(p) \in Encoding /\ Compress(p) # Error /\ Decompress(Compress(p)) = p /\ p # Error
        BY Compressed, PointParts
    <2> QED
        BY <2>1, <2>3, <2>4, <2>5 DEF Bn254PublicKey
<1>4. FromPrivkey(s) # Error => FromSecret(s) = [secret |-> s, public |-> FromPrivkey(s)]
    BY DEF FromSecret
<1>5. FromPrivkey(s) # Error => [secret |-> s, public |-> FromPrivkey(s)] # Error
    BY <1>3, SecretAssumption
<1>6. FromPrivkey(s) = Error => FromSecret(s) = Error
    BY DEF FromSecret
<1> QED
    BY <1>1, <1>3, <1>4, <1>5, <1>6

\* No two secrets are kept for one key.
LEMMA KeyTellsSecret ==
    ASSUME NEW s \in Secret, NEW t \in Secret, FromPrivkey(s) # Error, FromPrivkey(s) = FromPrivkey(t)
    PROVE  s = t
<1>1. PICK m \in 1 .. Order - 1 : /\ m = Number(s) /\ GeneratorTimes[m] \in Point
                                  /\ FromPrivkey(s) = Compress(GeneratorTimes[m])
    BY KeyOfSecret
<1>2. PICK n \in 1 .. Order - 1 : /\ n = Number(t) /\ GeneratorTimes[n] \in Point
                                  /\ FromPrivkey(t) = Compress(GeneratorTimes[n])
    BY KeyOfSecret
<1>3. PICK p \in Point, q \in Point : p = GeneratorTimes[m] /\ q = GeneratorTimes[n]
    BY <1>1, <1>2
<1>4. p = q
    <2>1. Decompress(Compress(p)) = p /\ Decompress(Compress(q)) = q
        BY Compressed
    <2>2. Compress(p) = Compress(q)
        BY <1>1, <1>2, <1>3
    <2> QED
        BY <2>1, <2>2
<1>5. m = n
    <2>1. m \in 0 .. Order - 1 /\ n \in 0 .. Order - 1
        BY SecretAssumption
    <2> QED
        BY <1>3, <1>4, <2>1, CurveAssumption
<1> QED
    BY <1>1, <1>2, <1>5, NumberTellsSecret

\* The other order of bytes, and back.
LEMMA ReversedSecret ==
    ASSUME NEW s \in Secret
    PROVE  /\ Reverse(s) \in Secret /\ Reverse(Reverse(s)) = s
           /\ ReverseSecretScalar(s) = Reverse(s) /\ ReverseSecretScalar(s) # Error
<1>1. Length \in Nat /\ Len(s) = Length /\ s = [i \in 1 .. Length |-> s[i]]
      /\ \A i \in 1 .. Length : s[i] \in 0 .. Base - 1
    BY SecretParts, SecretAssumption
<1>2. PICK r : r = Reverse(s)
    OBVIOUS
<1>3. r = [i \in 1 .. Length |-> s[(Length - i) + 1]]
    BY <1>1, <1>2 DEF Reverse
<1>4. \A i \in 1 .. Length : (Length - i) + 1 \in 1 .. Length /\ (Length - ((Length - i) + 1)) + 1 = i
    BY <1>1
<1>5. r \in Secret
    BY <1>1, <1>3, <1>4 DEF Secret
<1>6. Reverse(r) = s
    <2>1. Len(r) = Length
        BY <1>5, SecretParts
    <2>2. Reverse(r) = [i \in 1 .. Length |-> r[(Length - i) + 1]]
        BY <2>1 DEF Reverse
    <2> QED
        BY <1>1, <1>3, <1>4, <2>2
<1>7. ReverseSecretScalar(s) = r
    BY <1>1, <1>2 DEF ReverseSecretScalar
<1>8. r # Error
    BY <1>5, SecretAssumption
<1> QED
    BY <1>2, <1>5, <1>6, <1>7, <1>8

\* The two parts of a sequence that was put together.
LEMMA Parted ==
    ASSUME NEW a \in Seq(Nat), NEW b \in Seq(Nat)
    PROVE  /\ a \o b \in Seq(Nat) /\ Len(a \o b) = Len(a) + Len(b)
           /\ SubSeq(a \o b, 1, Len(a)) = a
           /\ SubSeq(a \o b, Len(a) + 1, Len(a \o b)) = b
<1>1. PICK m \in Nat, n \in Nat : m = Len(a) /\ n = Len(b)
    BY LenProperties
<1>2. PICK d : d = a \o b
    OBVIOUS
<1>3. /\ d \in Seq(Nat) /\ Len(d) = m + n
      /\ \A i \in 1 .. m + n : d[i] = IF i <= m THEN a[i] ELSE b[i - m]
    BY <1>1, <1>2, ConcatProperties
<1>4. SubSeq(d, 1, m) = a
    <2>1. \A i \in 1 .. m : d[i] \in Nat /\ d[i] = a[i]
        BY <1>1, <1>3, ElementOfSeq
    <2>2. /\ SubSeq(d, 1, m) \in Seq(Nat) /\ Len(SubSeq(d, 1, m)) = m
          /\ \A i \in 1 .. m : SubSeq(d, 1, m)[i] = d[i]
        BY <2>1, SubSeqProperties
    <2> QED
        BY <1>1, <2>1, <2>2, SeqEqual
<1>5. PICK r : r = SubSeq(d, m + 1, m + n)
    OBVIOUS
<1>6. r = b
    <2>1. \A i \in m + 1 .. m + n : d[i] \in Nat
        BY <1>3, ElementOfSeq
    <2>2. /\ r \in Seq(Nat) /\ Len(r) = n
          /\ \A i \in 1 .. n : r[i] = d[m + i]
        BY <1>5, <2>1, SubSeqProperties
    <2>3. \A i \in 1 .. n : d[m + i] = b[i]
        <3>1. \A i \in 1 .. n : m + i \in 1 .. m + n /\ ~(m + i <= m) /\ (m + i) - m = i
            OBVIOUS
        <3> QED
            BY <1>3, <3>1
    <2> QED
        BY <1>1, <2>2, <2>3, SeqEqual
<1> QED
    BY <1>1, <1>2, <1>3, <1>4, <1>5, <1>6

\* SecretsAgree, for any two secrets and spend key.
LEMMA SecretsHold ==
    ASSUME NEW s \in Secret, NEW t \in Secret, NEW k \in SpendKey
    PROVE  SecretsAgree(s, t, k)
<1>1. FromSecret(s) # Error /\ FromSecret(t) # Error =>
          (s = t <=> FromSecret(s).public = FromSecret(t).public)
    BY KeyOfSecret, KeyTellsSecret
<1>2. \A u \in Secret : FromSecretBe(Reverse(u)) = FromSecret(u) /\ FromPrivkeyBe(Reverse(u)) = FromPrivkey(u)
    <2> SUFFICES ASSUME NEW u \in Secret
                 PROVE  FromSecretBe(Reverse(u)) = FromSecret(u) /\ FromPrivkeyBe(Reverse(u)) = FromPrivkey(u)
        OBVIOUS
    <2>1. PICK v \in Secret : v = Reverse(u)
        BY ReversedSecret
    <2>2. ReverseSecretScalar(v) = u /\ ReverseSecretScalar(v) # Error
        BY <2>1, ReversedSecret
    <2> QED
        BY <2>1, <2>2 DEF FromSecretBe, FromPrivkeyBe
<1>3. ASSUME FromSecret(s) # Error
      PROVE  LET pair == FromSecret(s)
             IN  /\ FromSecretBe(SecretBe(pair)) = pair
                 /\ ScanSecretFrom(ScanSecretToBytes(pair, k)) = [view |-> pair, spend_meta_key |-> k]
                 /\ ScanPublicFrom(ScanPublicToBytes(k, pair.public)) =
                        [spend_meta_key |-> k, view_key |-> pair.public]
    <2>1. PICK key \in Encoding : key = FromPrivkey(s) /\ Bn254PublicKey(key) # Error
        BY <1>3, KeyOfSecret
    <2>2. PICK pair : pair = FromSecret(s) /\ pair.secret = s /\ pair.public = key
        BY <1>3, <2>1, KeyOfSecret
    <2>3. PICK v \in Secret : v = Reverse(s) /\ SecretBe(pair) = v /\ FromSecretBe(v) = pair
        BY <1>2, <2>2, ReversedSecret DEF SecretBe
    <2>4. v \in Seq(Nat) /\ Len(v) = Length /\ Length \in Nat /\ k \in Seq(Nat)
        BY SecretParts, SecretAssumption
    <2>5. ScanSecretFrom(ScanSecretToBytes(pair, k)) = [view |-> pair, spend_meta_key |-> k]
        <3>1. PICK bytes : bytes = v \o k
            OBVIOUS
        <3>2. /\ Len(bytes) = Length + Len(k) /\ SubSeq(bytes, 1, Length) = v
              /\ SubSeq(bytes, Length + 1, Len(bytes)) = k
            BY <2>4, <3>1, Parted
        <3>3. ~(Len(bytes) < Length)
            BY <2>4, <3>2, LenProperties
        <3>4. ScanSecretToBytes(pair, k) = bytes
            BY <2>3, <3>1 DEF ScanSecretToBytes
        <3>5. FromSecretBe(v) # Error
            BY <1>3, <2>2, <2>3
        <3> QED
            BY <2>3, <3>2, <3>3, <3>4, <3>5 DEF ScanSecretFrom
    <2>6. ScanPublicFrom(ScanPublicToBytes(k, key)) = [spend_meta_key |-> k, view_key |-> key]
        <3>1. PICK last \in Seq(Nat) : last = <<key>> /\ Len(last) = 1 /\ last[1] = key
            <4>1. key \in Nat
                BY Field DEF Encoding
            <4>2. <<key>> \in [1 .. 1 -> Nat]
                BY <4>1
            <4> QED
                BY <4>2, FunctionIsSeq
        <3>2. PICK bytes : bytes = k \o last
            OBVIOUS
        <3>3. PICK n \in Nat : n = Len(k)
            BY <2>4, LenProperties
        <3>4. /\ bytes \in Seq(Nat) /\ Len(bytes) = n + 1 /\ SubSeq(bytes, 1, n) = k
              /\ bytes[n + 1] = key
            <4>1. /\ bytes \in Seq(Nat) /\ Len(bytes) = n + 1 /\ SubSeq(bytes, 1, n) = k
                BY <2>4, <3>1, <3>2, <3>3, Parted
            <4>2. bytes[n + 1] = last[1]
                BY <2>4, <3>1, <3>2, <3>3, ConcatProperties
            <4> QED
                BY <3>1, <4>1, <4>2
        <3>5. bytes # <<>> /\ Last(bytes) = key /\ SubSeq(bytes, 1, Len(bytes) - 1) = k
            BY <3>4, EmptySeq DEF Last
        <3>6. ScanPublicToBytes(k, key) = bytes
            BY <3>1, <3>2 DEF ScanPublicToBytes
        <3> QED
            BY <2>1, <3>5, <3>6 DEF ScanPublicFrom
    <2> QED
        BY <2>2, <2>3, <2>5, <2>6
<1> QED
    BY <1>1, <1>2, <1>3 DEF SecretsAgree

-----------------------------------------------------------------------------
(* Amounts that are printed and read, for any scale.                        *)

\* The powers of ten, as numbers.
LEMMA Powers ==
    \E T : /\ T[0] = 1 /\ \A n \in 0 .. Scale + LongestFraction : T[n] = 10 ^ n /\ T[n] \in Nat \ {0}
           /\ \A n \in 1 .. Scale + LongestFraction : T[n] = 10 * T[n - 1]
<1>1. PICK m \in Nat : m = Scale + LongestFraction
    BY AmountAssumption DEF LongestFraction
<1>2. PICK T : T = [n \in 0 .. m |-> 10 ^ n]
    OBVIOUS
<1>3. T[0] = 1
    <2>1. 10 ^ 0 = 1
        OBVIOUS
    <2>2. 0 \in 0 .. m
        OBVIOUS
    <2> QED
        BY <1>2, <2>1, <2>2
<1>4. \A n \in 0 .. m : T[n] = 10 ^ n /\ T[n] \in Nat
    BY <1>1, <1>2, AmountAssumption
<1>5. ASSUME NEW n \in 1 .. m PROVE T[n] = 10 * T[n - 1]
    <2>1. PICK p \in 0 .. m : p = n - 1 /\ n = p + 1
        OBVIOUS
    <2>2. 10 ^ (p + 1) = 10 * 10 ^ p
        BY <1>1, AmountAssumption
    <2> QED
        BY <1>4, <2>1, <2>2
<1> DEFINE P == {n \in 0 .. m : T[n] # 0}
<1>6. 0 \in P /\ \A n \in 1 .. m : n - 1 \in P => n \in P
    <2>1. 0 \in P
        BY <1>3
    <2>2. ASSUME NEW n \in 1 .. m, n - 1 \in P PROVE n \in P
        <3>1. PICK t \in Nat : t = T[n - 1] /\ t # 0
            BY <1>4, <2>2
        <3> QED
            BY <1>5, <3>1
    <2> QED
        BY <2>1, <2>2
<1>7. \A n \in 0 .. m : n \in P
    <2> HIDE DEF P
    <2> QED
        BY <1>6, Upwards
<1>8. /\ T[0] = 1 /\ \A n \in 0 .. m : T[n] = 10 ^ n /\ T[n] \in Nat \ {0}
      /\ \A n \in 1 .. m : T[n] = 10 * T[n - 1]
    BY <1>3, <1>4, <1>5, <1>7
<1> QED
    BY <1>1, <1>8

\* Powers of ten multiply by adding their exponents.
LEMMA PowersAdd ==
    ASSUME NEW i \in Nat, NEW k \in Nat, i + k <= Scale + LongestFraction
    PROVE  /\ 10 ^ i \in Nat \ {0} /\ 10 ^ k \in Nat \ {0} /\ 10 ^ (i + k) \in Nat \ {0}
           /\ 10 ^ i * 10 ^ k = 10 ^ (i + k)
<1>1. PICK m \in Nat : m = Scale + LongestFraction
    BY AmountAssumption DEF LongestFraction
<1>2. PICK T : /\ T[0] = 1 /\ \A n \in 0 .. m : T[n] = 10 ^ n /\ T[n] \in Nat \ {0}
               /\ \A n \in 1 .. m : T[n] = 10 * T[n - 1]
    BY <1>1, Powers
<1>3. i \in 0 .. m /\ k \in 0 .. m /\ i + k \in 0 .. m
    BY <1>1
<1> DEFINE P == {n \in 0 .. k : T[i] * T[n] = T[i + n]}
<1>4. 0 \in P
    BY <1>2, <1>3
<1>5. ASSUME NEW n \in 1 .. k, n - 1 \in P PROVE n \in P
    <2>1. PICK j \in 1 .. m : j = i + n /\ j - 1 = i + (n - 1)
        BY <1>3
    <2>2. n - 1 \in 0 .. m /\ n \in 1 .. m
        BY <1>3
    <2>3. PICK t \in Nat, u \in Nat : t = T[i] /\ u = T[n - 1]
        BY <1>2, <1>3, <2>2
    <2>4. T[n] = 10 * u /\ t * u = T[j - 1] /\ T[j] = 10 * T[j - 1]
        BY <1>2, <1>5, <2>1, <2>2, <2>3
    <2>5. t * (10 * u) = 10 * (t * u)
        OBVIOUS
    <2> QED
        BY <2>1, <2>3, <2>4, <2>5
<1>6. \A n \in 0 .. k : n \in P
    <2> HIDE DEF P
    <2> QED
        BY <1>4, <1>5, Upwards
<1>7. T[i] * T[k] = T[i + k]
    BY <1>6
<1> QED
    BY <1>2, <1>3, <1>7

\* The unit of an amount is a positive number.
LEMMA ScaleUnit ==
    /\ Scale \in Nat /\ 10 ^ Scale \in Nat \ {0} /\ 10 ^ 0 = 1
    /\ \A i \in 0 .. Scale : 10 ^ i \in Nat \ {0}
<1>1. Scale \in Nat /\ \A i \in 0 .. Scale : 0 + i <= Scale + LongestFraction
    BY AmountAssumption DEF LongestFraction
<1>2. \A i \in 0 .. Scale : 10 ^ i \in Nat \ {0}
    <2> SUFFICES ASSUME NEW i \in 0 .. Scale PROVE 10 ^ i \in Nat \ {0}
        OBVIOUS
    <2>1. i \in Nat /\ 0 \in Nat /\ 0 + i <= Scale + LongestFraction
        BY <1>1
    <2> QED
        BY <2>1, PowersAdd
<1>3. 10 ^ 0 = 1
    OBVIOUS
<1> QED
    BY <1>1, <1>2, <1>3

\* A digit more is a tenth of the unit.
LEMMA Tenth ==
    ASSUME NEW a \in Nat, NEW u \in Nat \ {0}
    PROVE  /\ a \div u \in Nat
           /\ a \div u = 10 * (a \div (10 * u)) + ((a \div u) % 10)
<1>1. PICK q \in Nat, r \in Nat : q = a \div u /\ a = q * u + r /\ r < u
    BY Division
<1>2. PICK p \in Nat, d \in Nat : p = q \div 10 /\ d = q % 10 /\ q = 10 * p + d /\ d < 10
    <2>1. q \div 10 \in Nat /\ q % 10 \in Nat /\ q % 10 < 10 /\ q = (q \div 10) * 10 + (q % 10)
        BY Division
    <2> QED
        BY <2>1
<1>3. PICK v \in Nat \ {0} : v = 10 * u
    OBVIOUS
<1>4. PICK e \in Nat : e = d * u + r
    OBVIOUS
<1>5. e < v
    <2>1. d <= 9
        BY <1>2
    <2>2. d * u <= 9 * u
        BY <2>1
    <2> QED
        BY <1>1, <1>3, <1>4, <2>2
<1>6. a = p * v + e
    <2>1. (10 * p + d) * u = p * (10 * u) + d * u
        OBVIOUS
    <2>2. PICK x \in Nat, y \in Nat : x = p * v /\ y = d * u
        OBVIOUS
    <2>3. (10 * p + d) * u = x + y
        BY <1>3, <2>1, <2>2
    <2>4. q * u = x + y
        BY <1>2, <2>3
    <2> QED
        BY <1>1, <1>4, <2>2, <2>4
<1>7. (p * v + e) \div v = p
    BY <1>5, Quotient
<1>8. a \div (10 * u) = p
    <2>1. a \div v = p
        BY <1>6, <1>7
    <2> QED
        BY <1>3, <2>1
<1>9. q = 10 * p + (q % 10)
    BY <1>2
<1> QED
    BY <1>1, <1>8, <1>9

\* There are such parts, and they end in the number.
LEMMA ContinuedIs ==
    ASSUME NEW first \in Nat, NEW s \in Seq(Nat), NEW n \in Nat, n = Len(s)
    PROVE  /\ \E N : Continues(N, first, s, n)
           /\ \A M : Continues(M, first, s, n) => Continued(first, s) = M[n]
<1>1. PICK N : Continues(N, first, s, n) /\ N[n] = Continued(first, s)
    BY DigitsContinue
<1> SUFFICES ASSUME NEW M, Continues(M, first, s, n)
             PROVE  Continued(first, s) = M[n]
    BY <1>1
<1> USE DEF Continues
<1> DEFINE P == {j \in 0 .. n : N[j] = M[j]}
<1>2. 0 \in P /\ \A j \in 1 .. n : j - 1 \in P => j \in P
    BY <1>1
<1>3. \A j \in 0 .. n : j \in P
    <2> HIDE DEF P
    <2> QED
        BY <1>2, Upwards
<1>4. n \in 0 .. n
    OBVIOUS
<1> QED
    BY <1>1, <1>3, <1>4

\* An amount is its units continued by its fraction.
LEMMA DigitsOf ==
    ASSUME NEW a \in Nat
    PROVE  /\ A!Fraction(a) \in [1 .. Scale -> 0 .. 9]
           /\ a \div 10 ^ Scale \in Nat
           /\ Continued(a \div 10 ^ Scale, A!Fraction(a)) = a
<1>1. PICK n \in Nat : n = Scale
    BY AmountAssumption
<1>2. \A i \in 0 .. n : 10 ^ i \in Nat \ {0}
    BY <1>1, ScaleUnit
<1>3. PICK M : M = [j \in 0 .. n |-> a \div 10 ^ (n - j)]
    OBVIOUS
<1>4. \A j \in 0 .. n : M[j] = a \div 10 ^ (n - j) /\ M[j] \in Nat
    <2> SUFFICES ASSUME NEW j \in 0 .. n PROVE M[j] = a \div 10 ^ (n - j) /\ M[j] \in Nat
        OBVIOUS
    <2>1. n - j \in 0 .. n
        OBVIOUS
    <2>2. PICK u \in Nat \ {0} : u = 10 ^ (n - j)
        BY <1>2, <2>1
    <2>3. a \div u \in Nat
        BY Division
    <2> QED
        BY <1>3, <2>2, <2>3
<1>5. PICK d : d = A!Fraction(a)
    OBVIOUS
<1>6. d = [i \in 1 .. n |-> (a \div 10 ^ (n - i)) % 10]
    BY <1>1, <1>5 DEF A!Fraction
<1>7. \A i \in 1 .. n : d[i] = M[i] % 10
    <2>1. \A i \in 1 .. n : i \in 0 .. n
        OBVIOUS
    <2> QED
        BY <1>4, <1>6, <2>1
<1>8. d \in [1 .. n -> 0 .. 9]
    <2>1. \A i \in 1 .. n : d[i] \in 0 .. 9
        <3> SUFFICES ASSUME NEW i \in 1 .. n PROVE d[i] \in 0 .. 9
            OBVIOUS
        <3>1. PICK x \in Nat : x = M[i]
            BY <1>4
        <3>2. x % 10 \in 0 .. 9
            OBVIOUS
        <3> QED
            BY <1>7, <3>1, <3>2
    <2> QED
        BY <1>6, <2>1
<1>9. ASSUME NEW j \in 1 .. n PROVE M[j] = 10 * M[j - 1] + d[j]
    <2>1. PICK k \in 0 .. n : k = n - j /\ n - (j - 1) = k + 1 /\ k + 1 \in 0 .. n
        OBVIOUS
    <2>2. PICK u \in Nat \ {0} : u = 10 ^ k
        BY <1>2
    <2>3. 10 ^ (k + 1) = 10 * u
        BY <1>1, <2>1, <2>2, AmountAssumption DEF LongestFraction
    <2>4. j - 1 \in 0 .. n /\ j \in 0 .. n
        OBVIOUS
    <2>5. M[j] = a \div u /\ M[j - 1] = a \div (10 * u)
        BY <1>4, <2>1, <2>2, <2>3, <2>4
    <2>6. a \div u = 10 * (a \div (10 * u)) + ((a \div u) % 10)
        BY Tenth
    <2> QED
        BY <1>7, <2>5, <2>6
<1>10. M[n] = a
    <2>1. n \in 0 .. n /\ n - n = 0 /\ 10 ^ 0 = 1 /\ a \div 1 = a
        OBVIOUS
    <2> QED
        BY <1>4, <2>1
<1>11. M[0] = a \div 10 ^ n /\ M[0] \in Nat
    <2>1. 0 \in 0 .. n /\ n - 0 = n
        OBVIOUS
    <2> QED
        BY <1>4, <2>1
<1>12. d \in Seq(Nat) /\ Len(d) = n
    <2>1. d \in [1 .. n -> Nat]
        BY <1>8
    <2> QED
        BY <2>1, FunctionIsSeq
<1>13. PICK first \in Nat : first = M[0]
    BY <1>11
<1>14. Continued(first, d) = M[n]
    <2>1. Continues(M, first, d, n)
        BY <1>9, <1>13 DEF Continues
    <2> QED
        BY <1>12, <2>1, ContinuedIs
<1> QED
    BY <1>1, <1>5, <1>8, <1>10, <1>11, <1>13, <1>14

\* Digits filled up with zeros to the given places.
Filled(s, places) == [i \in 1 .. places |-> IF i <= Len(s) THEN s[i] ELSE 0]

\* They are a sequence of that many digits.
LEMMA FilledDigits ==
    ASSUME NEW s \in Seq(Nat), NEW places \in Nat
    PROVE  Filled(s, places) \in Seq(Nat) /\ Len(Filled(s, places)) = places
<1>1. \A i \in 1 .. places : i <= Len(s) => s[i] \in Nat
    BY ElementOfSeq, LenProperties
<1>2. Filled(s, places) \in [1 .. places -> Nat]
    BY <1>1 DEF Filled
<1> QED
    BY <1>2, FunctionIsSeq

\* Digits are trimmed to those up to the last that is not zero.
LEMMA TrimmedAt ==
    ASSUME NEW n \in Nat, NEW d \in [1 .. n -> Nat], NEW m \in 0 .. n,
           \A i \in 1 .. n : i > m => d[i] = 0, m # 0 => d[m] # 0
    PROVE  A!Trimmed(d) = SubSeq(d, 1, m)
<1> DEFINE At == {i \in 1 .. Len(d) : d[i] # 0}
           last == IF At # {} THEN A!Max(At) ELSE 0
<1>1. Len(d) = n
    BY FunctionIsSeq
<1>2. A!Trimmed(d) = SubSeq(d, 1, last)
    BY DEF A!Trimmed, A!SelectLastInSeq
<1>3. last = m
    <2>1. \A i \in At : i <= m /\ i \in Nat /\ i >= 1
        BY <1>1
    <2>2. m # 0 => m \in At
        BY <1>1
    <2>3. m \in Nat
        OBVIOUS
    <2> HIDE DEF At
    <2>4. CASE m = 0
        <3>1. At = {}
            BY <2>1, <2>4
        <3> QED
            BY <2>4, <3>1
    <2>5. CASE m # 0
        <3>1. A!Max(At) = m
            <4>1. PICK x : x = A!Max(At)
                OBVIOUS
            <4>2. x \in At /\ \A y \in At : x >= y
                BY <2>1, <2>2, <2>5, <4>1 DEF A!Max
            <4>3. x >= m /\ x <= m /\ x \in Nat
                BY <2>1, <2>2, <2>5, <4>2
            <4> QED
                BY <2>3, <4>1, <4>3
        <3> QED
            BY <2>2, <2>5, <3>1
    <2> QED
        BY <2>4, <2>5
<1> HIDE DEF last
<1> QED
    BY <1>2, <1>3

\* Zeros that were trimmed are filled up again, and nothing is left of zeros alone.
LEMMA TrimmedFills ==
    ASSUME NEW n \in Nat, NEW d \in [1 .. n -> Nat]
    PROVE  /\ A!Trimmed(d) \in Seq(Nat) /\ Filled(A!Trimmed(d), n) = d
           /\ (\A i \in 1 .. n : d[i] = 0) => A!Trimmed(d) = <<>>
<1> DEFINE P == {m \in 0 .. n : \A i \in 1 .. n : i > m => d[i] = 0}
<1>1. n \in P /\ P \subseteq Nat
    OBVIOUS
<1>2. PICK m \in P : \A i \in P : ~(i < m)
    <2> HIDE DEF P
    <2> QED
        BY <1>1, LeastOf
<1>3. m # 0 => d[m] # 0
    <2> SUFFICES ASSUME m # 0, d[m] = 0 PROVE FALSE
        OBVIOUS
    <2>1. m - 1 \in P
        <3>1. m - 1 \in 0 .. n
            BY <1>2
        <3>2. ASSUME NEW i \in 1 .. n, i > m - 1 PROVE d[i] = 0
            <4>1. i = m \/ i > m
                BY <1>2, <3>2
            <4> QED
                BY <1>2, <4>1
        <3> QED
            BY <3>1, <3>2
    <2>2. m - 1 < m
        BY <1>2
    <2> HIDE DEF P
    <2> QED
        BY <1>2, <2>1, <2>2
<1>4. m \in 0 .. n /\ m \in Nat /\ \A i \in 1 .. n : i > m => d[i] = 0
    BY <1>2
<1>5. PICK t : t = A!Trimmed(d) /\ t = SubSeq(d, 1, m)
    BY <1>3, <1>4, TrimmedAt
<1>6. t \in Seq(Nat) /\ Len(t) = m /\ \A i \in 1 .. m : t[i] = d[i]
    <2>1. \A i \in 1 .. m : i \in 1 .. n
        BY <1>4
    <2>2. \A i \in 1 .. m : d[i] \in Nat
        BY <2>1
    <2> QED
        <3>1. /\ SubSeq(d, 1, m) \in Seq(Nat) /\ Len(SubSeq(d, 1, m)) = m
              /\ \A i \in 1 .. m : SubSeq(d, 1, m)[i] = d[i]
            BY <1>4, <2>2, SubSeqProperties
        <3> QED
            BY <1>5, <3>1
<1>7. Filled(t, n) = d
    <2>1. \A i \in 1 .. n : (IF i <= Len(t) THEN t[i] ELSE 0) = d[i]
        BY <1>4, <1>6
    <2>2. d = [i \in 1 .. n |-> d[i]]
        OBVIOUS
    <2> QED
        BY <2>1, <2>2 DEF Filled
<1>8. ASSUME \A i \in 1 .. n : d[i] = 0 PROVE t = <<>>
    <2>1. 0 \in P
        BY <1>8
    <2>2. m = 0
        BY <1>2, <1>4, <2>1
    <2> QED
        BY <1>6, <2>2, EmptySeq
<1> QED
    BY <1>5, <1>6, <1>7, <1>8

\* The numbers of texts, by the digits that continue their integer part.
LEMMA ScaledIs ==
    ASSUME NEW text, NEW places
    PROVE  A!Scaled(text, places) = Continued(text.integer, Filled(text.fraction, places))
BY DEF A!Scaled, Continued, Filled

\* The fraction of a multiple of the unit is zero.
LEMMA NoFraction ==
    ASSUME NEW v \in Nat, NEW a, a = v * 10 ^ Scale
    PROVE  /\ a \in Nat /\ a \div 10 ^ Scale = v
           /\ \A i \in 1 .. Scale : A!Fraction(a)[i] = 0
<1>1. PICK u \in Nat \ {0} : u = 10 ^ Scale
    BY ScaleUnit
<1>2. a \in Nat /\ a \div u = v
    <2>1. (v * u + 0) \div u = v
        BY Quotient
    <2>2. v * u + 0 = v * u /\ v * u \in Nat
        OBVIOUS
    <2> QED
        BY <1>1, <2>1, <2>2
<1>3. ASSUME NEW i \in 1 .. Scale PROVE A!Fraction(a)[i] = 0
    <2>1. PICK j \in 0 .. Scale, k \in 0 .. Scale : /\ j = i - 1 /\ k = Scale - i
                                                    /\ (j + 1) + k = Scale /\ i = j + 1
        BY ScaleUnit
    <2>2. PICK t \in Nat \ {0}, w \in Nat \ {0} : t = 10 ^ j /\ w = 10 ^ k
        BY ScaleUnit
    <2>3. 10 ^ (j + 1) = 10 * t
        BY <2>1, <2>2, AmountAssumption DEF LongestFraction
    <2>4. 10 ^ (j + 1) * 10 ^ k = 10 ^ ((j + 1) + k)
        <3>1. j + 1 \in Nat /\ k \in Nat /\ (j + 1) + k <= Scale + LongestFraction
            BY <2>1, ScaleUnit DEF LongestFraction
        <3> QED
            BY <3>1, PowersAdd
    <2>5. u = (10 * t) * w
        BY <1>1, <2>1, <2>2, <2>3, <2>4
    <2>6. PICK q \in Nat : q = v * t
        OBVIOUS
    <2>7. a = (10 * q) * w
        <3>1. v * ((10 * t) * w) = (10 * (v * t)) * w
            OBVIOUS
        <3> QED
            BY <1>1, <2>5, <2>6, <3>1
    <2>8. a \div w = 10 * q
        <3>1. ((10 * q) * w + 0) \div w = 10 * q
            <4>1. 10 * q \in Int
                OBVIOUS
            <4> QED
                BY <4>1, Quotient
        <3>2. (10 * q) * w + 0 = (10 * q) * w
            OBVIOUS
        <3> QED
            BY <2>7, <3>1, <3>2
    <2>9. (10 * q) % 10 = 0
        OBVIOUS
    <2>10. A!Fraction(a)[i] = (a \div 10 ^ (Scale - i)) % 10
        BY DEF A!Fraction
    <2> QED
        BY <2>1, <2>2, <2>8, <2>9, <2>10
<1>4. \A i \in 1 .. Scale : A!Fraction(a)[i] = 0
    BY <1>3
<1>5. a \div 10 ^ Scale = v
    BY <1>1, <1>2
<1> QED
    BY <1>2, <1>4, <1>5

\* Without digits a number stays as it is.
LEMMA NothingContinued ==
    ASSUME NEW first \in Nat, NEW s \in Seq(Nat), NEW n \in Nat, n = Len(s)
    PROVE  n = 0 => Continued(first, s) = first
<1>1. PICK N : Continues(N, first, s, n) /\ N[n] = Continued(first, s)
    BY DigitsContinue
<1> QED
    BY <1>1 DEF Continues

\* A printed amount is the amount.
LEMMA PrintedRead ==
    ASSUME NEW a \in Nat, NEW currency
    PROVE  /\ A!Scaled(A!Displayed(a, currency), Scale) = a
           /\ A!Scaled(A!FormatInWei(a, currency), 0) = a
<1>1. PICK n \in Nat : n = Scale
    BY ScaleUnit
<1>2. PICK d \in [1 .. n -> Nat] : d = A!Fraction(a) /\ Continued(a \div 10 ^ Scale, d) = a
    <2>1. A!Fraction(a) \in [1 .. n -> 0 .. 9] /\ Continued(a \div 10 ^ Scale, A!Fraction(a)) = a
        BY <1>1, DigitsOf
    <2>2. A!Fraction(a) \in [1 .. n -> Nat]
        BY <2>1
    <2> QED
        BY <2>1, <2>2
<1>3. Filled(A!Trimmed(d), n) = d
    BY TrimmedFills
<1>4. /\ A!Displayed(a, currency).integer = a \div 10 ^ Scale
      /\ A!Displayed(a, currency).fraction = A!Trimmed(d)
      /\ A!FormatInWei(a, currency).integer = a /\ A!FormatInWei(a, currency).fraction = <<>>
    BY <1>2 DEF A!Displayed, A!FormatInWei
<1>5. A!Scaled(A!Displayed(a, currency), Scale) = a
    BY <1>1, <1>2, <1>3, <1>4, ScaledIs
<1>6. A!Scaled(A!FormatInWei(a, currency), 0) = a
    <2>1. <<>> \in Seq(Nat)
        OBVIOUS
    <2>2. PICK z \in Seq(Nat) : z = Filled(<<>>, 0) /\ Len(z) = 0
        BY <2>1, FilledDigits
    <2>3. Continued(a, z) = a
        BY <2>2, NothingContinued
    <2> QED
        BY <1>4, <2>2, <2>3, ScaledIs
<1> QED
    BY <1>5, <1>6

\* The prefix of a text is replaced.
LEMMA Replaced ==
    ASSUME NEW i, NEW f, NEW v, NEW w, NEW c
    PROVE  [[integer |-> i, fraction |-> f, wei |-> v, name |-> c] EXCEPT !.wei = w] =
               [integer |-> i, fraction |-> f, wei |-> w, name |-> c]
OBVIOUS

\* PrintedAmountsParse, for any amount and currencies: what Display and format_in_wei print
\* is read back as the amount by its own currency only.
LEMMA PrintedHold ==
    ASSUME NEW a \in 0 .. MaxAmount, NEW currency, NEW other
    PROVE  A!PrintedAmountsParse(a, currency, other)
<1>1. a \in Nat /\ ~(a > MaxAmount)
    BY AmountAssumption
<1>2. /\ A!Displayed(a, currency).wei = FALSE /\ A!Displayed(a, currency).name = currency
      /\ A!FormatInWei(a, currency).wei = TRUE /\ A!FormatInWei(a, currency).name = currency
    BY DEF A!Displayed, A!FormatInWei
<1>3. /\ A!Scaled(A!Displayed(a, currency), Scale) = a
      /\ A!Scaled(A!FormatInWei(a, currency), 0) = a
    BY <1>1, PrintedRead
<1>4. A!Parse(A!Displayed(a, currency), other) = IF other = currency THEN a ELSE A!ParseError
    BY <1>1, <1>2, <1>3 DEF A!Parse, A!NameMatches
<1>5. A!Parse(A!FormatInWei(a, currency), other) = IF other = currency THEN a ELSE A!ParseError
    BY <1>1, <1>2, <1>3 DEF A!Parse, A!NameMatches
<1>6. ASSUME A!NewBase(a) # A!Overflow
      PROVE  A!Displayed(A!NewBase(a), currency) = [A!FormatInWei(a, currency) EXCEPT !.wei = FALSE]
    <2>1. PICK b : b = A!NewBase(a) /\ b = a * 10 ^ Scale
        BY <1>6 DEF A!NewBase
    <2>2. b \in Nat /\ b \div 10 ^ Scale = a /\ \A i \in 1 .. Scale : A!Fraction(b)[i] = 0
        BY <1>1, <2>1, NoFraction
    <2>3. A!Fraction(b) \in [1 .. Scale -> Nat] /\ Scale \in Nat
        <3>1. A!Fraction(b) \in [1 .. Scale -> 0 .. 9]
            BY <2>2, DigitsOf
        <3> QED
            BY <3>1, ScaleUnit
    <2>4. A!Trimmed(A!Fraction(b)) = <<>>
        BY <2>2, <2>3, TrimmedFills
    <2>5. A!Displayed(b, currency) = [integer |-> a, fraction |-> <<>>, wei |-> FALSE, name |-> currency]
        BY <2>2, <2>4 DEF A!Displayed
    <2>6. [A!FormatInWei(a, currency) EXCEPT !.wei = FALSE] =
              [integer |-> a, fraction |-> <<>>, wei |-> FALSE, name |-> currency]
        <3>1. PICK v, w : v = TRUE /\ w = FALSE
            OBVIOUS
        <3>2. A!FormatInWei(a, currency) = [integer |-> a, fraction |-> <<>>, wei |-> v, name |-> currency]
            BY <3>1 DEF A!FormatInWei
        <3>3. [A!FormatInWei(a, currency) EXCEPT !.wei = w] =
                  [integer |-> a, fraction |-> <<>>, wei |-> w, name |-> currency]
            BY <3>2, Replaced
        <3> QED
            BY <3>1, <3>3
    <2> QED
        BY <2>1, <2>5, <2>6
<1> QED
    BY <1>4, <1>5, <1>6 DEF A!PrintedAmountsParse

\* The digits behind a place are zeros.
ZerosAfter(d, i, n) == \A j \in 1 .. n : i < j => d[j] = 0

\* The number l places long, against the one of i places and k more.
GrowsBy(X, d, i, k, l, n) ==
    X[i] * 10 ^ k <= X[l] /\ (ZerosAfter(d, i, n) => X[i] * 10 ^ k = X[l])

\* A number grows by a power of ten with the digits that continue it, and by no more if
\* they are zeros.
LEMMA Grows ==
    ASSUME NEW K \in Nat, K <= Scale + LongestFraction, NEW X, NEW d,
           NEW first, Continues(X, first, d, K),
           \A j \in 0 .. K : X[j] \in Nat, \A j \in 1 .. K : d[j] \in Nat,
           NEW i \in Nat, NEW k \in Nat, NEW l \in 0 .. K, i + k = l
    PROVE  GrowsBy(X, d, i, k, l, K)
<1>1. PICK m \in Nat : m = Scale + LongestFraction
    BY AmountAssumption DEF LongestFraction
<1>2. PICK T : /\ T[0] = 1 /\ \A n \in 0 .. m : T[n] = 10 ^ n /\ T[n] \in Nat \ {0}
               /\ \A n \in 1 .. m : T[n] = 10 * T[n - 1]
    BY <1>1, Powers
<1>3. K <= m /\ i \in 0 .. K /\ k \in 0 .. m
    BY <1>1
<1>4. PICK x \in Nat : x = X[i]
    BY <1>3
<1>5. PICK zeros : zeros <=> ZerosAfter(d, i, K)
    OBVIOUS
<1> DEFINE P == {n \in 0 .. k : /\ x * T[n] <= X[i + n]
                                /\ zeros => x * T[n] = X[i + n]}
<1>6. 0 \in P
    BY <1>2, <1>4
<1>7. ASSUME NEW n \in 1 .. k, n - 1 \in P PROVE n \in P
    <2>1. PICK j \in 1 .. K : j = i + n /\ j - 1 = i + (n - 1) /\ i < j
        BY <1>3
    <2>2. n - 1 \in 0 .. m /\ n \in 1 .. m /\ j - 1 \in 0 .. K
        BY <1>3
    <2>3. PICK t \in Nat, y \in Nat, c \in Nat : t = T[n - 1] /\ y = X[j - 1] /\ c = d[j]
        BY <1>2, <2>2
    <2>4. T[n] = 10 * t /\ X[j] = 10 * y + c
        BY <1>2, <2>2, <2>3 DEF Continues
    <2>5. PICK z \in Nat : z = x * t
        OBVIOUS
    <2>6. z <= y /\ (zeros => z = y /\ c = 0)
        BY <1>5, <1>7, <2>1, <2>3, <2>5 DEF ZerosAfter
    <2>7. x * T[n] = 10 * z
        <3>1. x * (10 * t) = 10 * (x * t)
            OBVIOUS
        <3> QED
            BY <2>4, <2>5, <3>1
    <2>8. 10 * z <= 10 * y + c /\ (zeros => 10 * z = 10 * y + c)
        BY <2>6
    <2> QED
        BY <2>1, <2>4, <2>7, <2>8
<1>8. \A n \in 0 .. k : n \in P
    <2> HIDE DEF P
    <2> QED
        BY <1>6, <1>7, Upwards
<1>9. PICK t \in Nat, y \in Nat : t = T[k] /\ y = X[l]
    BY <1>2, <1>3
<1>10. x * t <= y /\ (zeros => x * t = y)
    <2>1. k \in 0 .. k
        OBVIOUS
    <2> QED
        BY <1>8, <1>9, <2>1
<1> QED
    BY <1>2, <1>3, <1>4, <1>5, <1>9, <1>10 DEF GrowsBy

\* ParsedNotMore, for any text with digits that are numbers.
LEMMA TextsHold ==
    ASSUME NEW text, NEW currency, text.integer \in Nat, text.fraction \in Seq(Nat),
           Len(text.fraction) <= LongestFraction
    PROVE  A!ParsedNotMore(text, currency)
<1>1. PICK f \in Seq(Nat), first \in Nat : f = text.fraction /\ first = text.integer
    OBVIOUS
<1>2. PICK l \in Nat, n \in Nat : l = Len(f) /\ n = Scale /\ l <= LongestFraction
    BY <1>1, LenProperties, AmountAssumption
<1>3. PICK K \in Nat : K = IF l <= n THEN n ELSE l
    OBVIOUS
<1>4. l <= K /\ n <= K /\ K <= Scale + LongestFraction
    BY <1>2, <1>3 DEF LongestFraction
<1>5. PICK d \in Seq(Nat) : d = Filled(f, K) /\ Len(d) = K
    BY FilledDigits
<1>6. \A j \in 1 .. K : d[j] = (IF j <= l THEN f[j] ELSE 0) /\ d[j] \in Nat
    <2>1. \A j \in 1 .. K : d[j] \in Nat
        BY <1>5, ElementOfSeq
    <2> QED
        BY <1>2, <1>5, <2>1 DEF Filled
<1>7. PICK X : Continues(X, first, d, K)
    BY <1>5, ContinuedIs
<1>8. \A j \in 0 .. K : X[j] \in Nat
    <2> DEFINE P == {j \in 0 .. K : X[j] \in Nat}
    <2>1. 0 \in P /\ \A j \in 1 .. K : j - 1 \in P => j \in P
        <3>1. 0 \in P
            BY <1>7 DEF Continues
        <3>2. ASSUME NEW j \in 1 .. K, j - 1 \in P PROVE j \in P
            <4>1. PICK x \in Nat, c \in Nat : x = X[j - 1] /\ c = d[j]
                BY <1>6, <3>2
            <4>2. X[j] = 10 * x + c
                BY <1>7, <4>1 DEF Continues
            <4> QED
                BY <4>2
        <3> QED
            BY <3>1, <3>2
    <2>2. \A j \in 0 .. K : j \in P
        <3> HIDE DEF P
        <3> QED
            BY <2>1, Upwards
    <2> QED
        BY <2>2
<1>9. ASSUME NEW p \in 0 .. K PROVE A!Scaled(text, p) = X[p]
    <2>1. PICK e \in Seq(Nat) : e = Filled(f, p) /\ p = Len(e)
        <3>1. p \in Nat
            OBVIOUS
        <3> QED
            BY <3>1, FilledDigits
    <2>2. \A j \in 1 .. p : j \in 1 .. K /\ e[j] = d[j]
        <3>1. \A j \in 1 .. p : j \in 1 .. K
            BY <1>9
        <3>2. \A j \in 1 .. p : e[j] = IF j <= l THEN f[j] ELSE 0
            BY <1>2, <2>1 DEF Filled
        <3> QED
            BY <1>6, <3>1, <3>2
    <2>3. Continues(X, first, e, p)
        BY <1>7, <2>2 DEF Continues
    <2>4. Continued(first, e) = X[p]
        <3>1. p \in Nat
            OBVIOUS
        <3> QED
            BY <2>1, <2>3, <3>1, ContinuedIs
    <2> QED
        BY <1>1, <2>1, <2>4, ScaledIs
<1>10. A!Scaled(text, n) = X[n] /\ A!Scaled(text, l) = X[l]
    <2>1. n \in 0 .. K /\ l \in 0 .. K
        BY <1>4
    <2> QED
        BY <1>9, <2>1
<1>11. PICK value \in Nat, said \in Nat : value = X[n] /\ said = X[l]
    <2>1. n \in 0 .. K /\ l \in 0 .. K
        BY <1>4
    <2> QED
        BY <1>8, <2>1
<1>12. value * 10 ^ l <= said * 10 ^ n
    <2>1. CASE l <= n
        <3>1. PICK k \in Nat : k = n - l /\ l + k = n /\ K = n /\ k + l = n
            BY <1>3, <2>1
        <3>2. said * 10 ^ k = value
            <4>1. ZerosAfter(d, l, K)
                BY <1>6 DEF ZerosAfter
            <4>2. n \in 0 .. K /\ l + k = n
                BY <3>1
            <4>3. GrowsBy(X, d, l, k, n, K)
                BY <1>4, <1>6, <1>7, <1>8, <4>2, Grows
            <4> QED
                BY <1>11, <4>1, <4>3 DEF GrowsBy
        <3>3. /\ 10 ^ k \in Nat \ {0} /\ 10 ^ l \in Nat \ {0} /\ 10 ^ n \in Nat \ {0}
              /\ 10 ^ k * 10 ^ l = 10 ^ n
            <4>1. k + l <= Scale + LongestFraction
                BY <1>4, <3>1
            <4> QED
                BY <3>1, <4>1, PowersAdd
        <3>4. PICK x \in Nat, y \in Nat, z \in Nat : x = 10 ^ k /\ y = 10 ^ l /\ z = 10 ^ n
            BY <3>3
        <3>5. value * y = said * z
            <4>1. (said * x) * y = said * (x * y)
                OBVIOUS
            <4> QED
                BY <3>2, <3>3, <3>4, <4>1
        <3>6. value * y <= said * z
            BY <3>5
        <3> QED
            BY <3>4, <3>6
    <2>2. CASE ~(l <= n)
        <3>1. PICK k \in Nat : k = l - n /\ n + k = l /\ K = l /\ k + n = l
            BY <1>3, <2>2
        <3>2. value * 10 ^ k <= said
            <4>1. l \in 0 .. K
                BY <3>1
            <4>2. GrowsBy(X, d, n, k, l, K)
                BY <1>4, <1>6, <1>7, <1>8, <3>1, <4>1, Grows
            <4> QED
                BY <1>11, <4>2 DEF GrowsBy
        <3>3. /\ 10 ^ k \in Nat \ {0} /\ 10 ^ n \in Nat \ {0} /\ 10 ^ l \in Nat \ {0}
              /\ 10 ^ k * 10 ^ n = 10 ^ l
            <4>1. k + n <= Scale + LongestFraction
                BY <1>4, <3>1
            <4> QED
                BY <3>1, <4>1, PowersAdd
        <3>4. PICK x \in Nat, y \in Nat, z \in Nat : x = 10 ^ k /\ y = 10 ^ l /\ z = 10 ^ n
            BY <3>3
        <3>5. PICK w \in Nat : w = value * x /\ w <= said
            BY <3>2, <3>4
        <3>6. w * z = value * y
            <4>1. (value * x) * z = value * (x * z)
                OBVIOUS
            <4> QED
                BY <3>3, <3>4, <3>5, <4>1
        <3>7. w * z <= said * z
            BY <3>5
        <3> QED
            BY <3>4, <3>6, <3>7
    <2> QED
        BY <2>1, <2>2
<1>13. ASSUME A!Parse(text, currency) # A!ParseError, ~text.wei
       PROVE  A!Parse(text, currency) = value
    BY <1>2, <1>10, <1>11, <1>13 DEF A!Parse
<1> QED
    BY <1>1, <1>2, <1>10, <1>11, <1>12, <1>13 DEF A!ParsedNotMore

\* Numbers and vectors within a bound, for any bound, number and vector.
LEMMA BoundsHold ==
    ASSUME NEW v \in Int, NEW S, NEW s \in Seq(S)
    PROVE  R!BoundsKept(v, s)
<1>1. Bound \in Nat /\ NarrowMax \in Nat /\ OutOfBounds \notin Nat
    BY RouteAssumption, AmountAssumption
<1>2. R!BoundedSize(v) # OutOfBounds <=> v \in 0 .. Bound
    BY <1>1 DEF R!BoundedSize
<1>3. v \in 0 .. Bound => R!BoundedSize(v) = v
    BY <1>1 DEF R!BoundedSize
<1>4. v \in 0 .. Bound /\ Bound <= NarrowMax => R!ToNarrow(v) = v
    BY <1>1 DEF R!ToNarrow
<1>5. R!CountHops(R!Inverted(R!Hops(v))) = v
    <2>1. PICK options : options = [hops |-> v]
        OBVIOUS
    <2> QED
        BY <2>1 DEF R!CountHops, R!Inverted, R!Hops
<1>6. ASSUME R!BoundedVec(s) # OutOfBounds
      PROVE  /\ R!BoundedVec(s) = s /\ R!Collected(s) = s
             /\ R!IsPrefix(s, R!ToArray(s))
             /\ R!ToArray(R!BoundedVec(R!ToArray(s))) = R!ToArray(s)
    <2>1. PICK n \in Nat : n = Len(s) /\ DOMAIN s = 1 .. n
        BY LenProperties
    <2>2. n <= Bound /\ R!BoundedVec(s) = s
        BY <1>6, <2>1 DEF R!BoundedVec
    <2>3. R!Collected(s) = s
        BY <2>1, <2>2, ReverseKept
    <2>4. PICK t \in [1 .. Bound -> S \cup {Default}] :
              /\ t = R!ToArray(s)
              /\ \A i \in 1 .. Bound : t[i] = IF i <= n THEN s[i] ELSE Default
        <3>1. \A i \in 1 .. Bound : i <= n => s[i] \in S
            BY <2>1, ElementOfSeq
        <3>2. [i \in 1 .. Bound |-> IF i <= n THEN s[i] ELSE Default] \in [1 .. Bound -> S \cup {Default}]
            BY <3>1
        <3>3. R!ToArray(s) = [i \in 1 .. Bound |-> IF i <= n THEN s[i] ELSE Default]
            BY <2>1 DEF R!ToArray
        <3> QED
            BY <3>2, <3>3
    <2>5. t \in Seq(S \cup {Default}) /\ Len(t) = Bound
        BY <1>1, FunctionIsSeq
    <2>6. SubSeq(t, 1, n) = s
        <3>1. \A i \in 1 .. n : i \in 1 .. Bound
            BY <1>1, <2>2
        <3>2. \A i \in 1 .. n : t[i] = s[i] /\ s[i] \in S
            BY <2>1, <2>4, <3>1, ElementOfSeq
        <3>3. /\ SubSeq(t, 1, n) \in Seq(S) /\ Len(SubSeq(t, 1, n)) = n
              /\ \A i \in 1 .. n : SubSeq(t, 1, n)[i] = t[i]
            BY <3>2, SubSeqProperties
        <3> QED
            BY <2>1, <3>2, <3>3, SeqEqual
    <2>7. SubSeq(s, 1, n) = s
        BY <2>1, SubSeqFull
    <2>8. R!IsPrefix(s, t)
        BY <2>1, <2>2, <2>5, <2>6, <2>7 DEF R!IsPrefix
    <2>9. R!ToArray(R!BoundedVec(t)) = t
        <3>1. R!BoundedVec(t) = t
            BY <1>1, <2>5 DEF R!BoundedVec
        <3>2. t = [i \in 1 .. Bound |-> t[i]]
            OBVIOUS
        <3>3. R!ToArray(t) = [i \in 1 .. Bound |-> t[i]]
            BY <2>5 DEF R!ToArray
        <3> QED
            BY <3>1, <3>2, <3>3
    <2> QED
        BY <2>2, <2>3, <2>4, <2>8, <2>9
<1> QED
    BY <1>2, <1>3, <1>4, <1>5, <1>6 DEF R!BoundsKept

-----------------------------------------------------------------------------
(* What is sampled has the types of the arguments it is for: with this      *)
(* invariant the lemmas above are about every state.                        *)

Sampled ==
    /\ sample.kind = "floats" => sample.x \in Float /\ sample.y \in Float
    /\ sample.kind = "lucks" => sample.p \in Luck /\ sample.q \in Luck
    /\ sample.kind = "quotient" => sample.amount \in 0 .. MaxU256 /\ sample.p \in Luck
    /\ sample.kind = "sum" =>
           sample.amounts \in BoundedSeq({0, 1, 9, 100, MaxAmount - 1, MaxAmount}, 3)
    /\ sample.kind = "printed" => sample.a \in 0 .. MaxAmount
    /\ sample.kind = "text" =>
           /\ sample.text.integer \in 0 .. 4
           /\ sample.text.fraction \in BoundedSeq({0, 5, 9}, LongestFraction)
    /\ sample.kind = "block" =>
           sample.key \in CipherKey /\ sample.block \in Block /\ sample.out \in Block
    /\ sample.kind = "encoding" => sample.e \in Encoding /\ sample.p \in Point
    /\ sample.kind = "secrets" =>
           sample.s \in Secret /\ sample.t \in Secret /\ sample.k \in SpendKey
    /\ sample.kind = "vrf" =>
           /\ sample.a \in ChainSecret /\ sample.m \in Message /\ sample.d \in Tag
           /\ sample.r \in Scalar /\ sample.other \in Scalar
    /\ sample.kind = "peer" => sample.id \in Id /\ sample.k \in PacketKey
    /\ sample.kind = "address" =>
           /\ sample.c \in ChainKey /\ sample.k \in PacketKey
           /\ sample.signature \in Signature /\ sample.address \in Address
    /\ sample.kind = "name" => /\ sample.s \in BoundedSeq(Byte, NameSize + 1)
                               /\ sample.id \in [1 .. NameSize -> Byte]
    /\ sample.kind = "bounded" => /\ sample.v \in -Bound - 2 .. Bound + 2
                                  /\ sample.s \in BoundedSeq({"a", "b"}, Bound + 1)
    /\ sample.kind = "route" => sample.s \in BoundedSeq(Curve, Bound + 1)
    /\ sample.kind = "surb" =>
           \E p \in {"p", "q"}, surb \in {<<>>, <<"p">>} :
               sample.id = R!SenderId(p, surb) /\ sample.n \in 1 .. 6

LEMMA SampledStep == Sampled /\ [SequentialNext]_<<vars, sample>> => Sampled'
<1> SUFFICES ASSUME Sampled, [SequentialNext]_<<vars, sample>> PROVE Sampled'
    OBVIOUS
<1>1. CASE UNCHANGED sample
    BY <1>1 DEF Sampled
<1>2. CASE SampleFloats
    BY <1>2 DEF SampleFloats, Sampled
<1>3. CASE SampleLucks
    BY <1>3 DEF SampleLucks, Sampled
<1>4. CASE SampleQuotient
    BY <1>4 DEF SampleQuotient, Sampled
<1>5. CASE SampleSum
    BY <1>5 DEF SampleSum, Sampled
<1>6. CASE SamplePrinted
    BY <1>6 DEF SamplePrinted, Sampled
<1>7. CASE SampleText
    BY <1>7 DEF SampleText, Sampled
<1>8. CASE SampleBlock
    BY <1>8 DEF SampleBlock, Sampled
<1>9. CASE SampleEncoding
    BY <1>9 DEF SampleEncoding, Sampled
<1>10. CASE SampleSecrets
    BY <1>10 DEF SampleSecrets, Sampled
<1>11. CASE SampleVrf
    BY <1>11 DEF SampleVrf, Sampled
<1>12. CASE SamplePeerId
    BY <1>12 DEF SamplePeerId, Sampled
<1>13. CASE SampleAddress
    BY <1>13 DEF SampleAddress, Sampled
<1>14. CASE SampleName
    BY <1>14 DEF SampleName, Sampled
<1>15. CASE SampleBounded
    BY <1>15 DEF SampleBounded, Sampled
<1>16. CASE SampleRoute
    BY <1>16 DEF SampleRoute, Sampled
<1>17. CASE SampleSurb
    BY <1>17 DEF SampleSurb, Sampled
<1> QED
    BY <1>1, <1>2, <1>3, <1>4, <1>5, <1>6, <1>7, <1>8, <1>9,
       <1>10, <1>11, <1>12, <1>13, <1>14, <1>15, <1>16, <1>17 DEF SequentialNext, Evaluate

\* Nothing is sampled at first, and so the types are kept.
LEMMA AlwaysSampled == SequentialSpec => []Sampled
<1>1. SequentialInit => Sampled
    BY DEF SequentialInit, NoSample, Sampled
<1> QED
    BY <1>1, SampledStep, PTL DEF SequentialSpec

\* The sequences of a bounded length are sequences.
LEMMA BoundedSeqIsSeq ==
    ASSUME NEW S, NEW T, S \subseteq T, NEW n \in Nat, NEW s \in BoundedSeq(S, n)
    PROVE  s \in Seq(T)
<1>1. PICK m \in 0 .. n : s \in [1 .. m -> S]
    BY DEF BoundedSeq, SeqOf
<1>2. s \in [1 .. m -> T]
    BY <1>1
<1> QED
    BY <1>2, FunctionIsSeq

\* The predicates of the four conjunctions, for what is sampled.
LEMMA ProbabilitiesOfSample == Sampled => ProbabilitiesAgree
<1> SUFFICES ASSUME Sampled PROVE ProbabilitiesAgree
    OBVIOUS
<1>1. ASSUME sample.kind = "floats" PROVE ProbabilityKept(sample.x, sample.y)
    <2>1. sample.x \in 0 .. Unit /\ sample.y \in 0 .. Unit
        BY <1>1 DEF Sampled, Float
    <2> QED
        BY <2>1, ProbabilitiesKept
<1>2. ASSUME sample.kind = "lucks"
      PROVE  WinsAsOften(sample.p) /\ ComparisonsAgree(sample.p, sample.q)
    <2>1. sample.p \in Luck /\ sample.q \in Luck
        BY <1>2 DEF Sampled
    <2> QED
        BY <2>1, WinsHold, ComparisonsHold
<1>3. ASSUME sample.kind = "quotient" PROVE QuotientsDefined(sample.amount, sample.p)
    <2>1. sample.amount \in 0 .. MaxU256 /\ sample.p \in Luck
        BY <1>3 DEF Sampled
    <2> QED
        BY <2>1, QuotientsHold
<1> QED
    BY <1>1, <1>2, <1>3 DEF ProbabilitiesAgree

LEMMA AmountsOfSample == Sampled => AmountsAgree
<1> SUFFICES ASSUME Sampled PROVE AmountsAgree
    OBVIOUS
<1>1. ASSUME sample.kind = "sum" PROVE A!SumsSaturate(sample.amounts)
    <2>1. {0, 1, 9, 100, MaxAmount - 1, MaxAmount} \subseteq Nat
        BY AmountAssumption
    <2>2. sample.amounts \in Seq(Nat)
        BY <1>1, <2>1, BoundedSeqIsSeq DEF Sampled
    <2> QED
        BY <2>2, SumsHold
<1>2. ASSUME sample.kind = "printed"
      PROVE  A!PrintedAmountsParse(sample.a, sample.currency, sample.other)
    BY <1>2, PrintedHold DEF Sampled
<1>3. ASSUME sample.kind = "text" PROVE A!ParsedNotMore(sample.text, sample.currency)
    <2>1. sample.text.integer \in Nat
        BY <1>3 DEF Sampled
    <2>2. sample.text.fraction \in BoundedSeq({0, 5, 9}, LongestFraction)
        BY <1>3 DEF Sampled
    <2>3. PICK m \in 0 .. LongestFraction : sample.text.fraction \in [1 .. m -> {0, 5, 9}]
        BY <2>2 DEF BoundedSeq, SeqOf
    <2>4. m \in Nat /\ m <= LongestFraction
        BY <2>3 DEF LongestFraction
    <2>5. sample.text.fraction \in Seq(Nat) /\ Len(sample.text.fraction) = m
        <3>1. sample.text.fraction \in [1 .. m -> Nat]
            BY <2>3
        <3> QED
            BY <2>4, <3>1, FunctionIsSeq
    <2> QED
        BY <2>1, <2>4, <2>5, TextsHold
<1>4. ASSUME sample.kind = "bounded" PROVE R!BoundsKept(sample.v, sample.s)
    <2>1. Bound \in Nat /\ Bound + 1 \in Nat
        BY RouteAssumption
    <2>2. sample.v \in -Bound - 2 .. Bound + 2 /\ sample.s \in BoundedSeq({"a", "b"}, Bound + 1)
        BY <1>4 DEF Sampled
    <2>3. sample.v \in Int
        BY <2>1, <2>2
    <2>4. sample.s \in Seq({"a", "b"})
        BY <2>1, <2>2, BoundedSeqIsSeq
    <2> QED
        BY <2>3, <2>4, BoundsHold
<1> QED
    BY <1>1, <1>2, <1>3, <1>4 DEF AmountsAgree

LEMMA KeysOfSample == Sampled => KeysAndProofsAgree
<1> SUFFICES ASSUME Sampled PROVE KeysAndProofsAgree
    OBVIOUS
<1>1. ASSUME sample.kind = "encoding" PROVE EncodingIsUnique(sample.e, sample.p)
    BY <1>1, EncodingsHold DEF Sampled
<1>2. ASSUME sample.kind = "secrets" PROVE SecretsAgree(sample.s, sample.t, sample.k)
    BY <1>2, SecretsHold DEF Sampled
<1>3. ASSUME sample.kind = "vrf"
      PROVE  VrfAgrees(sample.a, sample.m, sample.d, sample.r, sample.other)
    BY <1>3, DerivedVrfVerifies DEF Sampled
<1> QED
    BY <1>1, <1>2, <1>3 DEF KeysAndProofsAgree

LEMMA IdentitiesOfSample == Sampled => IdentitiesHold
<1> SUFFICES ASSUME Sampled PROVE IdentitiesHold
    OBVIOUS
<1>1. ASSUME sample.kind = "peer" PROVE I!PeerIdsIdentifyKeys(sample.id, sample.k)
    <2>1. sample.id \in Id /\ sample.k \in PacketKey
        BY <1>1 DEF Sampled
    <2>2. sample.id \in Ids
        <3>1. sample.id.digest \in Seq(Nat)
            <4>1. {1, 8} \subseteq Nat
                OBVIOUS
            <4> QED
                BY <2>1, <4>1, BoundedSeqIsSeq DEF Id
        <3> QED
            BY <2>1, <3>1 DEF Id, Ids
    <2> QED
        BY <2>1, <2>2, PeerIdsRead
<1>2. ASSUME sample.kind = "address"
      PROVE  I!AnnouncementsBind(sample.c, sample.k, sample.signature, sample.address)
    <2>1. /\ sample.c \in ChainKey /\ sample.k \in PacketKey
          /\ sample.signature \in Signature /\ sample.address \in Address
        BY <1>2 DEF Sampled
    <2>2. {I!Plain(n) : n \in Name} \subseteq Protocols
        <3>1. PICK e \in Seq(Nat) : e = <<>>
            BY EmptySeq
        <3>2. [code |-> "none", digest |-> e] \in Ids
            BY DEF Ids
        <3> QED
            BY <3>1, <3>2 DEF I!Plain, I!NoPeer, Protocols
    <2>3. {I!P2p(id) : id \in {I!PeerId(k) : k \in PacketKey}} \subseteq Protocols
        BY OwnProtocol
    <2>4. {I!P2p(id) : id \in {[code |-> "sha2-256", digest |-> <<8, 1, 1>>]}} \subseteq Protocols
        <3>1. PICK d \in Seq(Nat) : d = <<8, 1, 1>>
            <4>1. <<8, 1, 1>> \in [1 .. 3 -> Nat]
                OBVIOUS
            <4> QED
                BY <4>1, FunctionIsSeq
        <3>2. [code |-> "sha2-256", digest |-> d] \in Ids
            BY DEF Ids
        <3> QED
            BY <3>1, <3>2 DEF I!P2p, Protocols
    <2>5. sample.address \in Seq(Protocols)
        <3>1. {I!Plain(n) : n \in Name} \cup
                  {I!P2p(id) : id \in {I!PeerId(k) : k \in PacketKey} \cup
                                       {[code |-> "sha2-256", digest |-> <<8, 1, 1>>]}} \subseteq Protocols
            BY <2>2, <2>3, <2>4
        <3> QED
            BY <2>1, <3>1, BoundedSeqIsSeq DEF Address
    <2> QED
        BY <2>1, <2>5, AnnouncementsHold
<1>3. ASSUME sample.kind = "name" PROVE I!NamesIdentifyTypes(sample.s, sample.id)
    <2>1. sample.s \in BoundedSeq(Byte, NameSize + 1) /\ sample.id \in [1 .. NameSize -> Byte]
        BY <1>3 DEF Sampled
    <2>2. NameSize + 1 \in Nat
        BY IdentityAssumption
    <2>3. sample.s \in Seq(Byte)
        BY <2>1, <2>2, BoundedSeqIsSeq
    <2> QED
        BY <2>1, <2>3, NamesHold
<1>4. ASSUME sample.kind = "route" PROVE R!RoutesInvert(sample.s)
    <2>1. sample.s \in BoundedSeq(Curve, Bound + 1)
        BY <1>4 DEF Sampled
    <2>2. Bound + 1 \in Nat
        BY RouteAssumption
    <2>3. sample.s \in Seq(Curve)
        BY <2>1, <2>2, BoundedSeqIsSeq
    <2> QED
        BY <2>3, RoutesHold
<1>5. ASSUME sample.kind = "surb" PROVE R!SenderIdsAgree(sample.id, sample.n)
    <2>1. PICK p \in {"p", "q"}, surb \in {<<>>, <<"p">>} :
              sample.id = R!SenderId(p, surb) /\ sample.n \in 1 .. 6
        BY <1>5 DEF Sampled
    <2>2. \A i, prev : surb # <<i, prev>>
        BY <2>1
    <2>3. sample.n \in Nat
        BY <2>1
    <2> QED
        BY <2>1, <2>2, <2>3, SenderIdsHold
<1> QED
    BY <1>1, <1>2, <1>3, <1>4, <1>5 DEF IdentitiesHold

-----------------------------------------------------------------------------
\* Every block that is sampled, with any keys and buffers, comes back through the cipher.
THEOREM CiphersInvert == SequentialSpec => []CipherInverts
<1>1. Sampled => CipherInverts
    BY CipherIsPermutation DEF Sampled, CipherInverts
<1> QED
    BY <1>1, AlwaysSampled, PTL

\* A winning probability made of a float (try_from_f64) is the float again up to EPSILON, wins
\* as often as it says (check_ticket_win), is compared as it wins (approx_cmp, min, max), and
\* a division by one never panics (div_f64): for any number of bits and any EPSILON that is
\* not below two units of precision.
THEOREM ProbabilitiesAreKept == SequentialSpec => []ProbabilitiesAgree
BY ProbabilitiesOfSample, AlwaysSampled, PTL

\* Sums of amounts saturate in whatever order they are added (Sum), a printed amount is read
\* by its own currency only (Display, format_in_wei, FromStr), no text makes more than it
\* says, and what is within a bound passes it unchanged (BoundedSize, BoundedVec): for any
\* largest amount, scale and bound.
THEOREM AmountsAreKept == SequentialSpec => []AmountsAgree
BY AmountsOfSample, AlwaysSampled, PTL

\* A public key has one encoding (Bn254PublicKey), no two secrets are kept for one and both
\* orders of bytes are the same keypair (from_privkey, from_privkey_be), the scan capability
\* reads back as it was written, and a derived proof verifies with an output that does not
\* depend on what was drawn (derive_vrf_parameters): for any prime field and order.
THEOREM KeysAreTold == SequentialSpec => []KeysAndProofsAgree
BY KeysOfSample, AlwaysSampled, PTL

\* Packet keys are told by their peer ids (from_peerid), an announcement carries the address
\* it was given without the peer id of its key and is refused for another's
\* (AnnouncementData::new), service names and their types tell each other (FromStr, as_ascii),
\* routes are back after two inversions (RoutingOptions::invert), and the ids made of a
\* sender's are different and of its pseudonym (into_sequence).
THEOREM IdentitiesAreRead == SequentialSpec => []IdentitiesHold
BY IdentitiesOfSample, AlwaysSampled, PTL
=============================================================================
