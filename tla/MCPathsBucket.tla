--------------------------- MODULE MCPathsBucket ---------------------------
(* Instantiates PathsBucket for TLC: three paths of different lengths     *)
(* that collide into one bucket, three values of different lengths.         *)
EXTENDS PathsBucket

\* Paths "a", "bb", "c" and values "x", "yy", "z" as their byte values.
MCNames == {<<97>>, <<98, 98>>, <<99>>}
MCValues == {<<120>>, <<121, 121>>, <<122>>}
\* A stale counter may hold any small length, including the true one.
MCGarbage == 0 .. 2
MCMaxMembers == 3

\* ukv_paths_write tasks that insert a path not yet in the bucket, update
\* the bucket's last member, or remove a path.  The update of an earlier
\* member, which upsert_in_bucket gets wrong, is checked separately.
InsertOrRemove ==
    \/ \E nm \in Names, v \in Values :
          /\ FindInBucket(bucket, nm) \in {0, GetBucketSize(bucket)}
          /\ UpsertPath(nm, v)
    \/ \E nm \in Names : RemovePath(nm)

SpecInsertOrRemove == Init /\ [][InsertOrRemove]_<<bucket, task>>
=============================================================================
