----------------------------- MODULE PathsMatch -----------------------------
(***************************************************************************)
(* ukv_paths_match with one task: scan_one_collection_one_range of        *)
(* src/src/modality_paths.cpp, the paging loop that lists the paths of a *)
(* collection starting with `prefix`, continuing after `previous`.        *)
(*                                                                         *)
(* The collection is a snapshot: a function from bucket keys (naturals,   *)
(* in store order) to the sequence of path names in each bucket, in       *)
(* bucket order.  A path name is a sequence of character codes.  The     *)
(* store's ukv_scan is not under src/, and is modelled from the spec      *)
(* (section 5: ascending keys from min_key inclusive, up to max_count).   *)
(***************************************************************************)
EXTENDS Integers, Sequences, SequencesExt

CONSTANTS
    Layouts,      \* collection snapshots the scan may run against
    HashValues,   \* what hash("") may be: any bucket key, or none of them
    PrefixArgs,     \* prefixes a caller may pass
    MaxLimit,     \* bound: largest scan limit (c_scan_limits[0]) passed
    Unknown       \* ukv_key_unknown_k

VARIABLES
    coll,       \* the collection's buckets (unchanged during the call)
    hashEmpty,  \* hash(std::string_view {}) for this build
    prefix,     \* prefixes_args[0]
    prev0,      \* previous_args[0] as passed in
    maxCount,   \* c_scan_limits[0]
    found,      \* the paths pushed onto the output tape, in order
    previous,   \* the local `previous`, reassigned to each exported path
    reached,    \* has_reached_previous
    pc          \* "loop" inside the while loop, "done" once it has left it

inputs == <<coll, hashEmpty, prefix, prev0, maxCount>>
vars == <<coll, hashEmpty, prefix, prev0, maxCount, found, previous, reached, pc>>

Names(c) == UNION {ToSet(c[k]) : k \in DOMAIN c}

(***************************************************************************)
(* ukv_scan of one collection from `min` (Unknown: from the first key),   *)
(* at most `n` keys, ascending.                                            *)
(***************************************************************************)
ScanKeys(c, min, n) ==
    LET from == {k \in DOMAIN c : min = Unknown \/ k >= min}
        sorted == SetToSortSeq(from, LAMBDA a, b : a < b)
    IN  SubSeq(sorted, 1, IF n < Len(sorted) THEN n ELSE Len(sorted))

(***************************************************************************)
(* `previous.empty() ? hash(previous) : ukv_key_unknown_k`: the start key *)
(* of each round.  The condition is as written, hash of the empty string *)
(* when `previous` is empty, the first key otherwise.                     *)
(***************************************************************************)
PreviousKey(prev) == IF prev = <<>> THEN hashEmpty ELSE Unknown

\* Mutation: the callback without its `found_paths >= max_count` return.
VisitNoLimit(st, m) ==
    IF ~IsPrefix(prefix, m) THEN st
    ELSE IF m = st.previous THEN [st EXCEPT !.reached = TRUE]
    ELSE IF ~st.reached THEN st
    ELSE [found |-> Append(st.found, m), previous |-> m, reached |-> st.reached]

(***************************************************************************)
(* The for_each_in_bucket callback on member `m`, over the loop state    *)
(* st = [found, previous, reached]: skip a path without the prefix; mark *)
(* `previous` reached; skip paths before it; stop at max_count; else     *)
(* export the path and make it the new `previous`.                        *)
(***************************************************************************)
Visit(st, m) ==
    IF ~IsPrefix(prefix, m) THEN st
    ELSE IF m = st.previous THEN [st EXCEPT !.reached = TRUE]
    ELSE IF ~st.reached THEN st
    ELSE IF Len(st.found) >= maxCount THEN st
    ELSE [found |-> Append(st.found, m), previous |-> m, reached |-> st.reached]

\* The members of the buckets `ks`, as ukv_read returns them, in order.
MembersOf(ks) == FlattenSeq([i \in 1 .. Len(ks) |-> coll[ks[i]]])

\* What the spec (section 6, Match) says the call returns.
Matching == SelectSeq(MembersOf(SetToSortSeq(DOMAIN coll, LAMBDA a, b : a < b)),
                      LAMBDA m : IsPrefix(prefix, m))
After == IF prev0 = <<>> THEN Matching
         ELSE SubSeq(Matching, SelectInSeq(Matching, LAMBDA m : m = prev0) + 1, Len(Matching))
Expected == SubSeq(After, 1, IF maxCount < Len(After) THEN maxCount ELSE Len(After))

\* The output holds paths of the collection, never more than the caller's
\* limit c_scan_limits[0] (the loop test and the callback's own test).
TypeOK ==
    /\ found \in Seq(Names(coll))
    /\ Len(found) <= maxCount
    /\ pc \in {"loop", "done"}

(***************************************************************************)
(* The caller's inputs: a collection, a prefix, a `previous` that is      *)
(* empty or one of the matching paths, and a limit of at least 1.         *)
(***************************************************************************)
Init ==
    /\ coll \in Layouts
    /\ hashEmpty \in HashValues
    /\ prefix \in PrefixArgs
    /\ prev0 \in {<<>>} \cup {m \in Names(coll) : IsPrefix(prefix, m)}
    /\ maxCount \in 1 .. MaxLimit
    /\ found = <<>>
    /\ previous = prev0
    /\ reached = (prev0 = <<>>)
    /\ pc = "loop"

\* `while (found_paths < max_count)` fails: the loop ends.
LimitReached ==
    /\ pc = "loop"
    /\ Len(found) >= maxCount
    /\ pc' = "done"
    /\ UNCHANGED <<inputs, found, previous, reached>>

\* `if (found_buckets_count[0] <= 1) break;`
EndOfCollection ==
    /\ pc = "loop"
    /\ Len(found) < maxCount
    /\ Len(ScanKeys(coll, PreviousKey(previous), maxCount)) <= 1
    /\ pc' = "done"
    /\ UNCHANGED <<inputs, found, previous, reached>>

\* One round: ukv_scan, ukv_read of the buckets, the callback on each member.
Round ==
    /\ pc = "loop"
    /\ Len(found) < maxCount
    /\ LET ks == ScanKeys(coll, PreviousKey(previous), maxCount)
           st == FoldLeft(Visit, [found |-> found, previous |-> previous, reached |-> reached],
                          MembersOf(ks))
       IN  /\ Len(ks) > 1
           /\ found' = st.found
           /\ previous' = st.previous
           /\ reached' = st.reached
    /\ UNCHANGED <<inputs, pc>>

Next == LimitReached \/ EndOfCollection \/ Round

\* The call runs on the caller's thread and waits on nothing but the store
\* calls, which return: each enabled step is eventually taken.
Spec == Init /\ [][Next]_vars /\ WF_vars(Next)

-----------------------------------------------------------------------------
(* No path is returned twice by one call: the rounds after the first    *)
(* must not export again the paths an earlier round exported.             *)
NoDuplicatePaths == \A i, j \in 1 .. Len(found) : i < j => found[i] # found[j]

(* The paging loop of scan_one_collection_one_range terminates: every    *)
(* call of ukv_paths_match returns.                                        *)
Terminates == <>(pc = "done")

(* When the call returns, it has returned exactly the matching paths     *)
(* after `previous`, in store order, up to the limit (spec section 6).   *)
ReturnsExpected == pc = "done" => found = Expected
=============================================================================
