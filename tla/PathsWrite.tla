----------------------------- MODULE PathsWrite -----------------------------
(***************************************************************************)
(* Concurrent callers of ukv_paths_write (src/src/modality_paths.cpp) on *)
(* paths that hash to the same bucket, over HEAD.  Each call reads the   *)
(* buckets with one ukv_read (shared lock, released on return), updates  *)
(* them in its arena, and writes them back with one ukv_write (exclusive *)
(* lock).  The bucket bytes and their updates are those of PathsBucket. *)
(***************************************************************************)
EXTENDS Integers, Sequences, SequencesExt

CONSTANTS
    Names, Values, NoVal, Corrupt, Garbage, MaxMembers,  \* as in PathsBucket
    Writers,    \* caller threads
    Own,        \* Own[w]: the paths writer w writes (disjoint across writers)
    InitBuckets \* bucket bytes the store may hold when the calls start

ASSUME \A w1, w2 \in Writers : w1 # w2 => Own[w1] \cap Own[w2] = {}

VARIABLES
    stored,   \* the bucket's value in the store
    pc,       \* "idle" or "read": between ukv_read and ukv_write
    local,    \* updated_buckets[0] of the call in progress
    task,     \* the call's path and new value (NoVal: remove)
    effect    \* history: per own path, the value the last finished call set

vars == <<stored, pc, local, task, effect>>

B == INSTANCE PathsBucket WITH bucket <- stored, task <- <<>>

Init ==
    /\ stored \in InitBuckets
    /\ pc = [w \in Writers |-> "idle"]
    /\ local = [w \in Writers |-> <<>>]
    /\ task = [w \in Writers |-> [path |-> NoVal, val |-> NoVal]]
    /\ effect = [w \in Writers |-> [nm \in Own[w] |-> B!Decode(stored)[nm]]]

(***************************************************************************)
(* ukv_paths_write up to and including the update loop: ukv_read of the  *)
(* bucket, then upsert_in_bucket (a present value) or remove_from_bucket *)
(* (an absent one) on the copy.                                           *)
(***************************************************************************)
ReadAndUpdate(w, nm, v) ==
    /\ pc[w] = "idle"
    /\ v # NoVal => effect[w][nm] = NoVal
    /\ B!Readable(stored)
    /\ B!GetBucketSize(stored) < MaxMembers
    /\ \/ /\ v = NoVal
          /\ local' = [local EXCEPT ![w] = B!RemoveFromBucket(stored, nm)]
       \/ /\ v # NoVal
          /\ \E gk, gv \in Garbage :
                local' = [local EXCEPT ![w] = B!UpsertInBucket(stored, nm, v, gk, gv)]
    /\ pc' = [pc EXCEPT ![w] = "read"]
    /\ task' = [task EXCEPT ![w] = [path |-> nm, val |-> v]]
    /\ UNCHANGED <<stored, effect>>

\* The closing ukv_write of the call: the updated bucket replaces the value.
WriteBack(w) ==
    /\ pc[w] = "read"
    /\ stored' = local[w]
    /\ pc' = [pc EXCEPT ![w] = "idle"]
    /\ effect' = [effect EXCEPT ![w][task[w].path] = task[w].val]
    /\ UNCHANGED <<local, task>>

Next ==
    \/ \E w \in Writers, nm \in Names, v \in Values \cup {NoVal} :
          nm \in Own[w] /\ ReadAndUpdate(w, nm, v)
    \/ \E w \in Writers : WriteBack(w)

Spec == Init /\ [][Next]_vars

-----------------------------------------------------------------------------
(* A path a finished ukv_paths_write call set (or removed) keeps that     *)
(* value in the store until some call writes that path again: a call on  *)
(* another path of the same bucket must not undo it.                      *)
NoLostPathWrites ==
    \A w \in Writers :
        pc[w] = "idle" =>
            \A nm \in Own[w] : B!Decode(stored) # Corrupt => B!Decode(stored)[nm] = effect[w][nm]
=============================================================================
