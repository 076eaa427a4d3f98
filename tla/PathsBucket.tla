---------------------------- MODULE PathsBucket ----------------------------
(***************************************************************************)
(* One collision bucket of src/src/modality_paths.cpp, at the level of    *)
(* its bytes.  All paths whose hash is equal share one value in the       *)
(* store, laid out as                                                      *)
(*     N | N key lengths | N value lengths | key bytes | value bytes      *)
(* A bucket is a sequence of cells: a counter (`ukv_length_t`, 4 bytes in *)
(* the code) is one cell, and so is a byte of a path or of a value; both *)
(* are naturals.  Offsets are those of the code with `counter_size_k` = 1. *)
(*                                                                         *)
(* The variable is the bucket bytes one `ukv_paths_write` task leaves;    *)
(* the module checks that, decoded, they behave as the map of PathsMap.  *)
(***************************************************************************)
EXTENDS Integers, Sequences, SequencesExt

CONSTANTS
    Names,       \* path strings hashed to this bucket (tuples of byte values)
    Values,      \* values written to them (tuples of byte values)
    NoVal,       \* "no such member"
    Corrupt,     \* what a bucket decodes to when its counters are not coherent
    Garbage,     \* contents a counter cell of fresh arena memory may hold
    MaxMembers   \* bound: members a bucket may reach

ASSUME MaxMembers \in Nat \ {0}

VARIABLES
    bucket,  \* the bucket's bytes
    task     \* history: the last task, its path and value (NoVal: remove)

BytesFor(lens) == FoldLeft(LAMBDA a, b : a + b, 0, lens)

\* get_bucket_size: the first counter, if there is more than a header.
GetBucketSize(b) == IF Len(b) > 1 THEN b[1] ELSE 0

\* get_bucket_counters / get_bucket_keys / get_bucket_vals.
KeyLens(b) == [i \in 1 .. GetBucketSize(b) |-> b[1 + i]]
ValLens(b) == [i \in 1 .. GetBucketSize(b) |-> b[1 + GetBucketSize(b) + i]]
KeysStart(b) == 2 + 2 * GetBucketSize(b)
ValsStart(b) == KeysStart(b) + BytesFor(KeyLens(b))
KeyPos(b, i) == KeysStart(b) + BytesFor(SubSeq(KeyLens(b), 1, i - 1))
ValPos(b, i) == ValsStart(b) + BytesFor(SubSeq(ValLens(b), 1, i - 1))
KeyAt(b, i) == SubSeq(b, KeyPos(b, i), KeyPos(b, i) + KeyLens(b)[i] - 1)
ValAt(b, i) == SubSeq(b, ValPos(b, i), ValPos(b, i) + ValLens(b)[i] - 1)

\* Every member the counters describe lies within the bucket's bytes.
Readable(b) ==
    \/ GetBucketSize(b) = 0
    \/ /\ Len(b) >= 1 + 2 * GetBucketSize(b)
       /\ ValsStart(b) + BytesFor(ValLens(b)) - 1 <= Len(b)

(***************************************************************************)
(* find_in_bucket: for_each_in_bucket visits every member and keeps the   *)
(* last one whose key matches; 0 when none does.                           *)
(***************************************************************************)
FindInBucket(b, nm) ==
    LET hits == {i \in 1 .. GetBucketSize(b) : KeyAt(b, i) = nm}
    IN  IF hits = {} THEN 0 ELSE Max(hits)

\* remove_part, as seen through the returned view: `part` cut out of `full`.
RemovePart(full, from, len) ==
    SubSeq(full, 1, from - 1) \o SubSeq(full, from + len, Len(full))

\* Mutation: the first member is removed in place of the matched one.
RemoveFromBucketWrongMember(b, nm) ==
    LET i  == IF FindInBucket(b, nm) = 0 THEN 0 ELSE 1
        n  == GetBucketSize(b)
        b3 == RemovePart(RemovePart(RemovePart(b, ValPos(b, i), ValLens(b)[i]),
                                    KeyPos(b, i), KeyLens(b)[i]), 1 + n + i, 1)
    IN  IF i = 0 THEN b ELSE IF n = 1 THEN <<>>
        ELSE [RemovePart(b3, 1 + i, 1) EXCEPT ![1] = @ - 1]

\* Mutation: no special case for the last member, which leaves N = 0.
RemoveFromBucketNoEmpty(b, nm) ==
    LET i  == FindInBucket(b, nm)
        n  == GetBucketSize(b)
        b3 == RemovePart(RemovePart(RemovePart(b, ValPos(b, i), ValLens(b)[i]),
                                    KeyPos(b, i), KeyLens(b)[i]), 1 + n + i, 1)
    IN  IF i = 0 THEN b ELSE [RemovePart(b3, 1 + i, 1) EXCEPT ![1] = @ - 1]

(***************************************************************************)
(* remove_from_bucket: a missing member leaves the bucket as it is; the   *)
(* only member empties it; otherwise the value bytes, the key bytes, the  *)
(* value counter and the key counter are cut out, in that order, at       *)
(* offsets computed from the original bucket, and N is decremented.      *)
(***************************************************************************)
RemoveFromBucket(b, nm) ==
    LET i  == FindInBucket(b, nm)
        n  == GetBucketSize(b)
        b1 == RemovePart(b, ValPos(b, i), ValLens(b)[i])
        b2 == RemovePart(b1, KeyPos(b, i), KeyLens(b)[i])
        b3 == RemovePart(b2, 1 + n + i, 1)
        b4 == RemovePart(b3, 1 + i, 1)
    IN  IF i = 0 THEN b
        ELSE IF n = 1 THEN <<>>
        ELSE [b4 EXCEPT ![1] = @ - 1]

(***************************************************************************)
(* upsert_in_bucket: rebuilds the bucket in a fresh arena buffer.  The    *)
(* old members other than the matched one are copied in order, their     *)
(* counters written at their OLD index i; the new member is appended,     *)
(* its counters written at index new_size - 1.  A counter slot no write   *)
(* reaches keeps what the arena memory held (gk, gv).                     *)
(***************************************************************************)
UpsertInBucket(b, nm, v, gk, gv) ==
    LET n       == GetBucketSize(b)
        idx     == FindInBucket(b, nm)
        missing == idx = 0
        newSize == IF missing THEN n + 1 ELSE n
        kept    == SelectSeq([j \in 1 .. n |-> j], LAMBDA j : missing \/ j # idx)
        Written(j) == j <= n /\ (missing \/ j # idx)
        kLens   == [j \in 1 .. newSize |->
                        IF j = newSize THEN Len(nm)
                        ELSE IF Written(j) THEN KeyLens(b)[j] ELSE gk]
        vLens   == [j \in 1 .. newSize |->
                        IF j = newSize THEN Len(v)
                        ELSE IF Written(j) THEN ValLens(b)[j] ELSE gv]
        kBytes  == FlattenSeq([j \in 1 .. Len(kept) |-> KeyAt(b, kept[j])]) \o nm
        vBytes  == FlattenSeq([j \in 1 .. Len(kept) |-> ValAt(b, kept[j])]) \o v
    IN  <<newSize>> \o kLens \o vLens \o kBytes \o vBytes

(***************************************************************************)
(* The map a reader sees (ukv_paths_read: find_in_bucket per path), or    *)
(* Corrupt when the counters point outside the bytes or describe members *)
(* that were never written.                                                *)
(***************************************************************************)
Decode(b) ==
    LET n == GetBucketSize(b)
    IN  IF ~Readable(b) THEN Corrupt
        ELSE IF \E i \in 1 .. n : KeyAt(b, i) \notin Names \/ ValAt(b, i) \notin Values
             THEN Corrupt
        ELSE IF \E i, j \in 1 .. n : i # j /\ KeyAt(b, i) = KeyAt(b, j) THEN Corrupt
        ELSE [nm \in Names |->
                IF FindInBucket(b, nm) = 0 THEN NoVal ELSE ValAt(b, FindInBucket(b, nm))]

\* A bucket is absent (no bytes) or holds 1 .. MaxMembers members: an emptied
\* bucket is written back as zero bytes, never with N = 0.
TypeOK ==
    /\ bucket \in Seq(Nat)
    /\ task \in [name : Names \cup {NoVal}, val : Values \cup {NoVal}]
    /\ bucket # <<>> => bucket[1] \in 1 .. MaxMembers

Init ==
    /\ bucket = <<>>
    /\ task = [name |-> NoVal, val |-> NoVal]

(***************************************************************************)
(* One task of ukv_paths_write on the bucket its path hashes to: a       *)
(* present value is upserted, an absent one removes the path.             *)
(***************************************************************************)
UpsertPath(nm, v) ==
    /\ Readable(bucket)
    /\ FindInBucket(bucket, nm) = 0 => GetBucketSize(bucket) < MaxMembers
    /\ \E gk, gv \in Garbage : bucket' = UpsertInBucket(bucket, nm, v, gk, gv)
    /\ task' = [name |-> nm, val |-> v]

RemovePath(nm) ==
    /\ Readable(bucket)
    /\ bucket' = RemoveFromBucket(bucket, nm)
    /\ task' = [name |-> nm, val |-> NoVal]

Next ==
    \/ \E nm \in Names, v \in Values : UpsertPath(nm, v)
    \/ \E nm \in Names : RemovePath(nm)

Spec == Init /\ [][Next]_<<bucket, task>>

-----------------------------------------------------------------------------
Map == INSTANCE PathsMap WITH map <- Decode(bucket), last <- task

(* The bucket bytes implement a name -> value map: after every           *)
(* upsert_in_bucket or remove_from_bucket of a task's path, the decoded  *)
(* bucket is the map with exactly the task's name set to the task's     *)
(* value, or cleared (spec 8: bucket_read(bucket_upsert(B, n, v), n) = v, *)
(* the other members unchanged, and the same for bucket_remove).          *)
RefinesPathsMap == Map!Spec
=============================================================================
