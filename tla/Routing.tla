------------------------------ MODULE Routing ------------------------------
(***************************************************************************)
(* Bounded numbers and vectors (src/primitive/bounded.rs), the routing     *)
(* options made of them and the ids of senders and their SURBs             *)
(* (src/internal/routing.rs).                                              *)
(*                                                                         *)
(* The hash that continues a sequence of ids is ideal: what it was made of *)
(* in a tuple.                                                             *)
(***************************************************************************)
EXTENDS Integers, Sequences, SequencesExt

CONSTANTS
    Bound,          \* the bound B or N of a type, MAX_INTERMEDIATE_HOPS (3)
    NarrowMax,      \* the largest integer of the narrowest type (u8)
    Default,        \* the default element
    OutOfBounds     \* GeneralError::InvalidInput

-----------------------------------------------------------------------------
(* BoundedSize and BoundedVec                                               *)

\* A slip: the sign is lost before the comparison.
BoundedSizeUnsigned(v) == IF (IF v < 0 THEN -v ELSE v) <= Bound THEN v ELSE OutOfBounds

\* TryFrom of the integer types; one that is not of usize or isize is converted first.
BoundedSize(v) == IF 0 <= v /\ v <= Bound THEN v ELSE OutOfBounds

\* From<BoundedSize> for u8, which cuts the number to its width.
ToNarrow(size) == size % (NarrowMax + 1)

\* TryFrom<Vec>, FromIterator, which drops what is too much without a word, and the
\* conversion to an array, which fills it up.
BoundedVec(s) == IF Len(s) <= Bound THEN s ELSE OutOfBounds
Collected(s) == SubSeq(s, 1, IF Len(s) < Bound THEN Len(s) ELSE Bound)
ToArray(v) == [i \in 1 .. Bound |-> IF i <= Len(v) THEN v[i] ELSE Default]

(* RoutingOptions                                                           *)

IntermediatePath(v) == [path |-> v]
Hops(size) == [hops |-> size]

\* invert
Inverted(options) ==
    IF "path" \in DOMAIN options
      THEN IntermediatePath(Collected(Reverse(options.path))) ELSE options

\* count_hops
CountHops(options) == IF "path" \in DOMAIN options THEN Len(options.path) ELSE options.hops

-----------------------------------------------------------------------------
(* HoprSenderId                                                             *)

\* from_pseudonym_and_id
SenderId(pseudonym, surb) == [pseudonym |-> pseudonym, surb_id |-> surb]

\* A slip: the hash is of the pseudonym alone, which does not change.
NextIdOfPseudonym(i, prev) == SenderId(prev.pseudonym, <<prev.pseudonym>>)

\* The id that follows the i-th one of a sequence.
NextId(i, prev) == SenderId(prev.pseudonym, <<i, prev>>)

\* The first n items of into_sequence; the numbers start at 1 wherever the id comes from.
IntoSequence(id, n) ==
    LET ids[i \in 1 .. n] == IF i = 1 THEN id ELSE NextId(i - 1, ids[i - 1])
    IN  ids

\* SurbMatcher
ExactMatcher(id) == [exact |-> id]
PseudonymMatcher(p) == [pseudonym |-> p]
PseudonymOf(matcher) ==
    IF "exact" \in DOMAIN matcher THEN matcher.exact.pseudonym ELSE matcher.pseudonym

-----------------------------------------------------------------------------
\* BoundedSize and BoundedVec: a number or a vector that passes a bound comes out of it as
\* it went in, also as a number of hops, through an array and, as long as the bound fits it,
\* through the narrowest integer; the way that truncates agrees with the one that refuses
\* wherever the latter accepts.
BoundsKept(v, s) ==
    /\ BoundedSize(v) # OutOfBounds <=> v \in 0 .. Bound
    /\ BoundedSize(v) # OutOfBounds /\ Bound <= NarrowMax => ToNarrow(BoundedSize(v)) = v
    /\ BoundedSize(v) # OutOfBounds =>
          CountHops(Inverted(Hops(BoundedSize(v)))) = v
    /\ BoundedVec(s) # OutOfBounds =>
          /\ Collected(s) = s
          /\ IsPrefix(s, ToArray(BoundedVec(s)))
          /\ ToArray(BoundedVec(ToArray(s))) = ToArray(s)

\* RoutingOptions: the inverse of a path takes as many hops and no more than the maximum,
\* the hops of the path from behind, and its inverse is the path again.
RoutesInvert(s) ==
    BoundedVec(s) # OutOfBounds =>
        LET options == IntermediatePath(BoundedVec(s))
            back == Inverted(options)
        IN  /\ CountHops(back) = CountHops(options) /\ CountHops(back) <= Bound
            /\ \A i \in DOMAIN s : back.path[Len(s) + 1 - i] = s[i]
            /\ Inverted(back) = options

\* into_sequence: the items have one pseudonym, which any matcher of them names, and no
\* two have the same SURB id.
SenderIdsAgree(id, n) ==
    LET ids == IntoSequence(id, n)
    IN  \A i \in 1 .. n :
          /\ PseudonymOf(ExactMatcher(ids[i])) = PseudonymOf(PseudonymMatcher(id.pseudonym))
          /\ \A j \in 1 .. n : ids[i].surb_id = ids[j].surb_id => i = j
=============================================================================
