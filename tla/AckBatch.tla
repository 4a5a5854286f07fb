------------------------------- MODULE AckBatch -------------------------------
(***************************************************************************)
(* Acknowledgement::verify_batch (src/internal/protocol.rs) and the        *)
(* OffchainSignature::verify_batch it calls (src/crypto/signing.rs).       *)
(*                                                                         *)
(* The two are coupled by a lazy iterator: the signature check pulls the   *)
(* entries one by one, and pulling an entry is what stores its key and its *)
(* optimistic result for the caller.  The signature check may return       *)
(* before it pulled everything.  If it says no, every stored entry is      *)
(* verified on its own, by rayon in any order.                             *)
(*                                                                         *)
(* An OffchainPublicKey is any 32 bytes; Curve holds those that are a      *)
(* point of the curve.  Every 96 bytes of an Acknowledgement parse into a  *)
(* half key and a signature, so that the parse errors verify_batch         *)
(* provides for cannot occur.  Batch and single verification of ed25519    *)
(* are taken to agree on signatures made by sign_message.                  *)
(***************************************************************************)
EXTENDS Integers, SequencesExt

CONSTANTS
    OffchainPublicKey,
    Curve,          \* keys that are points of the curve
    HalfKey,        \* acknowledged half keys
    Invalid,        \* Err(InvalidAcknowledgement)
    MinBatchSize,   \* MIN_BATCH_SIZE (4)
    MemoCapacity,   \* MEMO_CAPACITY (8)
    MaxBatch        \* bound: entries of a batch

ASSUME KeyAssumption == Curve \subseteq OffchainPublicKey
ASSUME SizeAssumption == MinBatchSize \in Nat /\ MemoCapacity \in Nat /\ MaxBatch \in Nat

\* An acknowledgement: the half key, who signed, and whether it is what was signed.
Acknowledgement == [share : HalfKey, signer : Curve, intact : BOOLEAN]

Entry == [key : OffchainPublicKey, ack : Acknowledgement]

ASSUME InvalidAssumption == Invalid \notin Acknowledgement

VARIABLES
    batch,          \* the entries passed in
    lower,          \* the lower bound of its size_hint()
    pc,
    pulled,         \* entries taken from the iterator so far
    keys,           \* their keys, and
    optimistic_result,
    seen,           \* the memo of keys whose point was computed
    unsound,        \* a pulled signature does not verify
    todo,           \* entries that rayon has yet to verify
    result

vars == <<batch, lower, pc, pulled, keys, optimistic_result, seen, unsound, todo, result>>

TypeOK ==
    /\ batch \in Seq(Entry) /\ Len(batch) <= MaxBatch
    /\ lower \in 0 .. Len(batch)
    /\ pc \in {"start", "pull", "individual", "done"}
    /\ pulled \in 0 .. Len(batch)
    /\ keys \in Seq(OffchainPublicKey)
    /\ optimistic_result \in Seq(Acknowledgement)
    /\ seen \in Seq(Curve) /\ Len(seen) <= MemoCapacity
    /\ unsound \in BOOLEAN
    /\ todo \subseteq 1 .. Len(batch)
    /\ result \in Seq(Acknowledgement \cup {Invalid})

Init ==
    /\ batch \in BoundedSeq(Entry, MaxBatch)
    /\ lower \in 0 .. Len(batch)
    /\ pc = "start" /\ pulled = 0
    /\ keys = <<>> /\ optimistic_result = <<>>
    /\ seen = <<>> /\ unsound = FALSE
    /\ todo = {} /\ result = <<>>

-----------------------------------------------------------------------------
\* OffchainSignature::verify_message
Verifies(key, ack) == key \in Curve /\ ack.signer = key /\ ack.intact

\* Acknowledgement::verify
Verify(key, ack) == IF Verifies(key, ack) THEN ack ELSE Invalid

Small == lower < MinBatchSize

\* Batches that are small, or whose size is unknown, are verified one after the other.
VerifyEach ==
    /\ pc = "start"
    /\ Small
    /\ result' = [i \in DOMAIN batch |-> Verify(batch[i].key, batch[i].ack)]
    /\ pc' = "done"
    /\ UNCHANGED <<batch, lower, pulled, keys, optimistic_result, seen, unsound, todo>>

StartBatch ==
    /\ pc = "start"
    /\ ~Small
    /\ pc' = "pull"
    /\ UNCHANGED <<batch, lower, pulled, keys, optimistic_result, seen, unsound, todo, result>>

\* A slip: the memo grows with every entry.
MemoAlways(key) == Append(seen, key)

\* The key of the next entry is in the memo or is a point, which the memo keeps if it
\* has room.
Memo(key) ==
    IF key \in ToSet(seen) \/ Len(seen) = MemoCapacity THEN seen ELSE Append(seen, key)

\* A slip: a key that finds the memo full is taken for a bad one.
IsPointInMemo(key) ==
    key \in Curve /\ (key \in ToSet(seen) \/ Len(seen) < MemoCapacity)

\* VerifyingKey::try_from is Ok.
IsPoint(key) == key \in Curve

\* Pulling an entry stores it on the caller's side.  The first key that is no point of
\* the curve ends the check at once: the rest of the iterator is dropped unseen.
Pull ==
    /\ pc = "pull"
    /\ pulled < Len(batch)
    /\ LET e == batch[pulled + 1] IN
        /\ keys' = Append(keys, e.key)
        /\ optimistic_result' = Append(optimistic_result, e.ack)
        /\ \/ /\ IsPoint(e.key)
              /\ seen' = Memo(e.key)
              /\ unsound' = (unsound \/ ~Verifies(e.key, e.ack))
              /\ UNCHANGED <<pc, todo, result>>
           \/ /\ ~IsPoint(e.key)
              /\ pc' = "individual"
              /\ todo' = 1 .. pulled + 1
              /\ result' = [i \in 1 .. pulled + 1 |-> Invalid]
              /\ UNCHANGED <<seen, unsound>>
    /\ pulled' = pulled + 1
    /\ UNCHANGED <<batch, lower>>

\* A slip: one signature that verifies is enough.
BatchSoundIfAny == ~unsound \/ \E i \in DOMAIN keys : Verifies(keys[i], optimistic_result[i])

\* ed25519_dalek::verify_batch
BatchSound == ~unsound

\* The batch check on everything pulled: the optimistic results are returned, or each
\* entry is verified on its own.
Check ==
    /\ pc = "pull"
    /\ pulled = Len(batch)
    /\ \/ /\ BatchSound
          /\ result' = optimistic_result
          /\ pc' = "done"
          /\ UNCHANGED todo
       \/ /\ ~BatchSound
          /\ result' = [i \in DOMAIN keys |-> Invalid]
          /\ todo' = DOMAIN keys
          /\ pc' = "individual"
    /\ UNCHANGED <<batch, lower, pulled, keys, optimistic_result, seen, unsound>>

\* One entry is verified and its result collected at the entry's place.
VerifyOne ==
    /\ pc = "individual"
    /\ \E i \in todo :
        /\ result' = [result EXCEPT ![i] = Verify(keys[i], optimistic_result[i])]
        /\ todo' = todo \ {i}
    /\ UNCHANGED <<batch, lower, pc, pulled, keys, optimistic_result, seen, unsound>>

Collect ==
    /\ pc = "individual"
    /\ todo = {}
    /\ pc' = "done"
    /\ UNCHANGED <<batch, lower, pulled, keys, optimistic_result, seen, unsound, todo, result>>

Next == VerifyEach \/ StartBatch \/ Pull \/ Check \/ VerifyOne \/ Collect

Spec == Init /\ [][Next]_vars

-----------------------------------------------------------------------------
(* Properties                                                               *)

\* Whichever way a batch takes, the result at each place is the one that verifying
\* the entry at this place alone gives: no acknowledgement passes in the company of
\* others, and no result moves to a neighbour.
ResultsAgree ==
    pc = "done" => \A i \in DOMAIN result : result[i] = Verify(batch[i].key, batch[i].ack)

\* If every key is a point of the curve, every entry gets a result, however many keys
\* there are and whichever signatures fail.
PointsAnswered ==
    (pc = "done" /\ \A i \in DOMAIN batch : batch[i].key \in Curve)
        => Len(result) = Len(batch)

\* The documented vector of "individual checks for each signature in the batch": every
\* entry gets a result.  Behind a key that is no point of the curve the entries of a
\* large batch are lost.
EveryEntryAnswered == pc = "done" => Len(result) = Len(batch)
=============================================================================
