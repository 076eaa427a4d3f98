----------------------------- MODULE PathsTape -----------------------------
(***************************************************************************)
(* The removals of one ukv_paths_write call (src/src/modality_paths.cpp)  *)
(* at the level of the arena tape they edit in place.                      *)
(*                                                                         *)
(* ukv_read exports the buckets the call touches one after another into a *)
(* single tape (as _ukv_read_head of src/src/ukv_stl_embedded.cpp does,   *)
(* `memcpy` at `arena + exported_into_arena`), and `updated_buckets[j]`   *)
(* starts as a view [b, l] into it.  remove_from_bucket shortens a view   *)
(* with four remove_part calls, each a `memmove` on the tape; upserts are *)
(* built in fresh arena memory and are left out here.  Past the exported  *)
(* bytes lies arena memory the call does not own, modelled as slack cells *)
(* holding one unknown value.  Cells are those of PathsBucket.            *)
(***************************************************************************)
EXTENDS Integers, Sequences, SequencesExt

CONSTANTS
    Names, Values, NoVal, Corrupt, Garbage, MaxMembers,  \* as in PathsBucket
    Layouts,   \* the stored buckets of the call, in key order: <<b1, b2, ...>>
    Hash,      \* Hash[nm]: the index, in the layout, of the bucket nm hashes to
    MaxTasks   \* bound: removal tasks in one call

VARIABLES
    layout,  \* the buckets as ukv_read returned them (unchanged)
    tasks,   \* the paths to remove, in the caller's order (unchanged)
    next,    \* index of the task being processed
    tape,    \* the arena tape ukv_read filled, followed by slack cells
    view,    \* updated_buckets: view[j] = [b |-> first cell, l |-> length]
    pc       \* "run", "done" (written back) or "ub" (read out of bounds)

vars == <<layout, tasks, next, tape, view, pc>>

Bk == INSTANCE PathsBucket WITH bucket <- <<>>, task <- <<>>

\* The cells a view shows.
Bytes(t, v) == SubSeq(t, v.b, v.b + v.l - 1)

\* std::memmove(dst, src, n): the cells [src, src+n) copied to [dst, dst+n),
\* as if through a temporary buffer.
Memmove(t, dst, src, n) ==
    [p \in DOMAIN t |-> IF dst <= p /\ p < dst + n THEN t[p - dst + src] ELSE t[p]]

(***************************************************************************)
(* remove_part(full, part): moves `full.size() - part.size()` cells from  *)
(* `part.end()` to `part.begin()` and returns the view `full` shortened  *)
(* by `part.size()`.  The count is the size of the whole view, not that   *)
(* of its tail after `part`.                                               *)
(***************************************************************************)
RemovePart(t, full, part) ==
    [tape |-> Memmove(t, part.b, part.b + part.l, full.l - part.l),
     view |-> [b |-> full.b, l |-> full.l - part.l]]

\* Mutation: the key counter cut before the value counter, which then sits
\* one cell earlier than the address computed from the original bucket.
RemoveFromBucketCountersSwapped(t, v, nm) ==
    LET bs == Bytes(t, v)
        i  == Bk!FindInBucket(bs, nm)
        n  == Bk!GetBucketSize(bs)
        s1 == RemovePart(t, v, [b |-> v.b + Bk!ValPos(bs, i) - 1, l |-> Bk!ValLens(bs)[i]])
        s2 == RemovePart(s1.tape, s1.view, [b |-> v.b + Bk!KeyPos(bs, i) - 1, l |-> Bk!KeyLens(bs)[i]])
        s3 == RemovePart(s2.tape, s2.view, [b |-> v.b + i, l |-> 1])
        s4 == RemovePart(s3.tape, s3.view, [b |-> v.b + n + i, l |-> 1])
    IN  IF i = 0 THEN [tape |-> t, view |-> v]
        ELSE IF n = 1 THEN [tape |-> t, view |-> [b |-> v.b, l |-> 0]]
        ELSE [tape |-> [s4.tape EXCEPT ![v.b] = @ - 1], view |-> s4.view]

(***************************************************************************)
(* remove_from_bucket on the view v: find_in_bucket; nothing for a        *)
(* missing path; an empty view for the only member; otherwise the value,  *)
(* the key, the value counter and the key counter cut out in that order,  *)
(* each at an address computed from the original bucket, and N lowered  *)
(* in place at `begin`.                                                    *)
(***************************************************************************)
RemoveFromBucket(t, v, nm) ==
    LET bs == Bytes(t, v)
        i  == Bk!FindInBucket(bs, nm)
        n  == Bk!GetBucketSize(bs)
        s1 == RemovePart(t, v, [b |-> v.b + Bk!ValPos(bs, i) - 1, l |-> Bk!ValLens(bs)[i]])
        s2 == RemovePart(s1.tape, s1.view, [b |-> v.b + Bk!KeyPos(bs, i) - 1, l |-> Bk!KeyLens(bs)[i]])
        s3 == RemovePart(s2.tape, s2.view, [b |-> v.b + n + i, l |-> 1])
        s4 == RemovePart(s3.tape, s3.view, [b |-> v.b + i, l |-> 1])
    IN  IF i = 0 THEN [tape |-> t, view |-> v]
        ELSE IF n = 1 THEN [tape |-> t, view |-> [b |-> v.b, l |-> 0]]
        ELSE [tape |-> [s4.tape EXCEPT ![v.b] = @ - 1], view |-> s4.view]

\* How many cells ukv_read exports for the buckets `lay`: total_bytes.
TapeLength(lay) == FoldLeft(LAMBDA a, c : a + Len(c), 0, lay)

\* Where ukv_read puts bucket j: after the buckets before it.
Start(lay, j) == 1 + TapeLength(SubSeq(lay, 1, j - 1))

TypeOK ==
    /\ next \in 1 .. Len(tasks) + 1
    /\ DOMAIN view = DOMAIN layout
    /\ \A j \in DOMAIN view : view[j].b >= 1 /\ view[j].b + view[j].l - 1 <= Len(tape)
    /\ pc \in {"run", "done", "ub"}

(***************************************************************************)
(* ukv_read of the buckets and `transform_n` into `updated_buckets`.  The *)
(* slack is as long as the exported bytes, enough for every overrun.      *)
(***************************************************************************)
Init ==
    /\ layout \in Layouts
    /\ tasks \in SeqOf(Names, MaxTasks) \ {<<>>}
    /\ next = 1
    /\ \E g \in Garbage :
          tape = FlattenSeq(layout) \o [p \in 1 .. TapeLength(layout) |-> g]
    /\ view = [j \in DOMAIN layout |-> [b |-> Start(layout, j), l |-> Len(layout[j])]]
    /\ pc = "run"

(* One task of the update loop: the path's bucket, by `offset_in_sorted`. *)
RemoveTask ==
    LET j == Hash[tasks[next]]
        r == RemoveFromBucket(tape, view[j], tasks[next])
    IN  /\ pc = "run"
        /\ next <= Len(tasks)
        /\ Bk!Readable(Bytes(tape, view[j]))
        /\ tape' = r.tape
        /\ view' = [view EXCEPT ![j] = r.view]
        /\ next' = next + 1
        /\ UNCHANGED <<layout, tasks, pc>>

\* find_in_bucket on counters that point past the view reads memory the
\* call does not own: the behaviour is undefined and the model stops.
ReadOutOfBounds ==
    /\ pc = "run"
    /\ next <= Len(tasks)
    /\ ~Bk!Readable(Bytes(tape, view[Hash[tasks[next]]]))
    /\ pc' = "ub"
    /\ UNCHANGED <<layout, tasks, next, tape, view>>

\* The closing ukv_write of every updated bucket.
WriteBack ==
    /\ pc = "run"
    /\ next = Len(tasks) + 1
    /\ pc' = "done"
    /\ UNCHANGED <<layout, tasks, next, tape, view>>

Next == RemoveTask \/ ReadOutOfBounds \/ WriteBack

\* One call, which returns (or has hit undefined behaviour): the model stops.
Spec == Init /\ [][Next]_vars

-----------------------------------------------------------------------------
\* The map bucket j should hold after the call: its paths minus the removed.
Expected(j) ==
    [nm \in Names |-> IF nm \in ToSet(tasks) THEN NoVal ELSE Bk!Decode(layout[j])[nm]]

(* Each removal leaves the bucket it edits right: if the view held an    *)
(* intact bucket, it now decodes to the same map without the path.  The *)
(* four remove_part calls and the counter decrement are correct within   *)
(* the view, whatever they do past it.                                    *)
RemovalCorrectInView ==
    [][RemoveTask =>
          LET j == Hash[tasks[next]]
              before == Bk!Decode(Bytes(tape, view[j]))
          IN  before # Corrupt =>
                  Bk!Decode(Bytes(tape', view'[j])) = [before EXCEPT ![tasks[next]] = NoVal]]_vars

(* Every bucket the call writes back holds what its own tasks made of it  *)
(* (spec 6, Write): removing a path from one bucket must not change the   *)
(* bytes of another bucket exported next to it on the same tape.          *)
WrittenBackAsExpected ==
    pc # "run" => pc = "done" /\ \A j \in DOMAIN layout : Bk!Decode(Bytes(tape, view[j])) = Expected(j)
=============================================================================
