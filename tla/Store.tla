------------------------------- MODULE Store -------------------------------
(***************************************************************************)
(* The embedded in-memory store of src/src/ukv_stl_embedded.cpp: one map   *)
(* of sequenced values, the atomic `youngest_sequence` counter, and        *)
(* transaction handles that buffer writes and commit them optimistically. *)
(*                                                                         *)
(* Every operation holds `db.mutex` (shared or exclusive) for its whole    *)
(* body, except `ukv_txn_begin`, which bumps the atomic counter without   *)
(* the lock.  Each operation is therefore one atomic step here.            *)
(*                                                                         *)
(* A located key (collection pointer, key) is abstracted to an element   *)
(* of Keys; value bytes to an element of Vals.  `sequence_t` is `ssize_t` *)
(* and is kept as a signed SeqBits-wide integer that wraps on increment.  *)
(***************************************************************************)
EXTENDS Integers, FiniteSets, SequencesExt

CONSTANTS
    Keys,          \* located keys {collection, key}
    Vals,          \* value contents a caller may write
    Empty,         \* the contents of a moved-from `value_t` (zero bytes)
    Txns,          \* transaction handles, one per caller thread
    Hints,         \* `c_sequence_number` arguments passed to ukv_txn_begin
    SeqBits,       \* width of `sequence_t`
    InitYoungest,  \* possible values of `youngest_sequence` at start
    MaxBumps,      \* bound: increments of `youngest_sequence` explored
    MaxBatch,      \* bound: rows in one HEAD write batch
    CommitOOM,     \* fault model: may a node allocation in commit step 4 fail
    NoEntry,       \* `pairs.find(key) == pairs.end()`
    NoValue,       \* key absent from `txn.new_values`
    NoTxn,         \* `*c_txn == NULL`: handle not yet allocated
    Unread         \* history: the transaction has not read the key yet

ASSUME Empty \notin Vals
ASSUME SeqBits \in Nat \ {0}
ASSUME MaxBumps \in Nat /\ MaxBatch \in Nat \ {0} /\ CommitOOM \in BOOLEAN

SeqMin == -(2 ^ (SeqBits - 1))
SeqMax == 2 ^ (SeqBits - 1) - 1
Seqs == SeqMin .. SeqMax
ASSUME InitYoungest \subseteq Seqs /\ Hints \subseteq Seqs

Data == Vals \cup {Empty}
Entry == [data : Data, seq : Seqs]

VARIABLES
    pairs,       \* collection.pairs : key -> sequenced_value_t
    youngest,    \* db.youngest_sequence
    bumps,       \* number of increments of youngest so far (bound only)
    txnSeq,      \* txn.sequence_number, or NoTxn
    newValues,   \* txn.new_values : key -> value_t, NoValue if absent
    \* history variables, used by the properties only:
    seen,        \* the value the last read of a key in the transaction returned
    missed,      \* keys others wrote since the transaction began
    headMissed,  \* keys HEAD writes wrote since the transaction began
    applied      \* keys the transaction's commits applied since its begin

vars == <<pairs, youngest, bumps, txnSeq, newValues, seen, missed, headMissed, applied>>

\* Mutation: an increment that does not wrap.
IncNoWrap(s) == s + 1

(***************************************************************************)
(* `++db.youngest_sequence` on std::atomic<ssize_t>: two's complement     *)
(* wrap-around.                                                            *)
(***************************************************************************)
Inc(s) == IF s = SeqMax THEN SeqMin ELSE s + 1

\* Mutation: the window test without its wrap-around branch.
EntryWasOverwrittenNoWrap(entry, txn, young) == entry >= txn /\ entry <= young

(***************************************************************************)
(* entry_was_overwritten: is `entry` in the window [txn, youngest], taken *)
(* as its complement when `youngest` has wrapped below `txn`.             *)
(***************************************************************************)
EntryWasOverwritten(entry, txn, young) ==
    IF txn <= young THEN entry >= txn /\ entry <= young
                    ELSE entry >= txn \/ entry <= young

Active(t) == txnSeq[t] # NoTxn
Buffered(t) == {k \in Keys : newValues[t][k] # NoValue}

\* Records that keys `ks` were written by someone other than each active txn
\* in `others`, for the history variables.
NoteWrites(ks, others, viaHead) ==
    /\ missed' = [o \in Txns |-> IF o \in others THEN missed[o] \cup ks ELSE missed[o]]
    /\ headMissed' = [o \in Txns |->
                        IF viaHead /\ o \in others THEN headMissed[o] \cup ks ELSE headMissed[o]]

TypeOK ==
    /\ pairs \in [Keys -> Entry \cup {NoEntry}]
    /\ youngest \in Seqs
    /\ bumps \in 0 .. MaxBumps
    /\ txnSeq \in [Txns -> Seqs \cup {NoTxn}]
    /\ newValues \in [Txns -> [Keys -> Data \cup {NoValue}]]
    /\ seen \in [Txns -> [Keys -> Data \cup {NoEntry, Unread}]]
    /\ missed \in [Txns -> SUBSET Keys]
    /\ headMissed \in [Txns -> SUBSET Keys]
    /\ applied \in [Txns -> SUBSET Keys]

Init ==
    /\ pairs = [k \in Keys |-> NoEntry]
    /\ youngest \in InitYoungest
    /\ bumps = 0
    /\ txnSeq = [t \in Txns |-> NoTxn]
    /\ newValues = [t \in Txns |-> [k \in Keys |-> NoValue]]
    /\ seen = [t \in Txns |-> [k \in Keys |-> Unread]]
    /\ missed = [t \in Txns |-> {}]
    /\ headMissed = [t \in Txns |-> {}]
    /\ applied = [t \in Txns |-> {}]

-----------------------------------------------------------------------------
\* One row {key, val} of a HEAD write batch.
Row == [key : Keys, val : Vals]

\* Mutation: the row stamped with `youngest + 1` without storing the increment.
ApplyRowNoStore(st, r) ==
    [pairs |-> [st.pairs EXCEPT ![r.key] = [data |-> r.val, seq |-> Inc(st.youngest)]],
     youngest |-> st.youngest]

(***************************************************************************)
(* One iteration of the _ukv_write_head loop that does not throw, over    *)
(* st = [pairs, youngest]: an existing entry gets a fresh sequence number *)
(* and the new bytes; a missing one is inserted with a fresh number.      *)
(***************************************************************************)
ApplyRow(st, r) ==
    [pairs |-> [st.pairs EXCEPT ![r.key] = [data |-> r.val, seq |-> Inc(st.youngest)]],
     youngest |-> Inc(st.youngest)]

(***************************************************************************)
(* The `catch (...)` of the row that throws, after which the loop breaks. *)
(* For an existing entry the fresh sequence number is already stored     *)
(* (line 192) while `data.assign` leaves the old bytes.  For a missing   *)
(* one the throw comes from building the value, before the increment     *)
(* (afterIncr = FALSE), or from inserting the node, after it.            *)
(***************************************************************************)
FailRow(st, r, afterIncr) ==
    IF st.pairs[r.key] # NoEntry
    THEN [pairs |-> [st.pairs EXCEPT ![r.key].seq = Inc(st.youngest)],
          youngest |-> Inc(st.youngest)]
    ELSE [pairs |-> st.pairs,
          youngest |-> IF afterIncr THEN Inc(st.youngest) ELSE st.youngest]

(***************************************************************************)
(* _ukv_write_head: the whole batch `rows` under the exclusive lock.      *)
(* fail = 0: every row succeeds; otherwise row `fail` throws, the rows    *)
(* before it stay applied and the rows after it are never reached.        *)
(***************************************************************************)
WriteHead(rows, fail, afterIncr) ==
    LET done == SubSeq(rows, 1, IF fail = 0 THEN Len(rows) ELSE fail - 1)
        st   == FoldLeft(ApplyRow, [pairs |-> pairs, youngest |-> youngest], done)
        end  == IF fail = 0 THEN st ELSE FailRow(st, rows[fail], afterIncr)
        incs == Len(done) + IF end.youngest # st.youngest THEN 1 ELSE 0
    IN  /\ bumps + incs <= MaxBumps
        /\ pairs' = end.pairs
        /\ youngest' = end.youngest
        /\ bumps' = bumps + incs
        /\ NoteWrites({done[i].key : i \in DOMAIN done}, {t \in Txns : Active(t)}, TRUE)
        /\ UNCHANGED <<txnSeq, newValues, seen, applied>>

(***************************************************************************)
(* ukv_txn_begin: allocates the handle if needed, takes the hint or a     *)
(* fresh `++youngest_sequence` (no lock held), clears both maps.          *)
(***************************************************************************)
BeginTxn(t, hint) ==
    /\ hint = 0 => bumps < MaxBumps
    /\ txnSeq' = [txnSeq EXCEPT ![t] = IF hint # 0 THEN hint ELSE Inc(youngest)]
    /\ youngest' = IF hint # 0 THEN youngest ELSE Inc(youngest)
    /\ bumps' = IF hint # 0 THEN bumps ELSE bumps + 1
    /\ newValues' = [newValues EXCEPT ![t] = [k \in Keys |-> NoValue]]
    /\ seen' = [seen EXCEPT ![t] = [k \in Keys |-> Unread]]
    /\ missed' = [missed EXCEPT ![t] = {}]
    /\ headMissed' = [headMissed EXCEPT ![t] = {}]
    /\ applied' = [applied EXCEPT ![t] = {}]
    /\ UNCHANGED pairs

(***************************************************************************)
(* _ukv_write_txn: `new_values.insert_or_assign`, a later write of the    *)
(* same key replacing the earlier one.                                     *)
(***************************************************************************)
WriteTxn(t, k, v) ==
    /\ Active(t)
    /\ newValues' = [newValues EXCEPT ![t][k] = v]
    /\ UNCHANGED <<pairs, youngest, bumps, txnSeq, seen, missed, headMissed, applied>>

(***************************************************************************)
(* What _ukv_read_txn / _ukv_measure_txn return for key k: the buffered   *)
(* value if any, else the stored entry unless it lies in the overwrite    *)
(* window (then the whole read fails), else "missing".                    *)
(***************************************************************************)
ReadFails(t, k) ==
    /\ newValues[t][k] = NoValue
    /\ pairs[k] # NoEntry
    /\ EntryWasOverwritten(pairs[k].seq, txnSeq[t], youngest)

TxnReadResult(t, k) ==
    IF newValues[t][k] # NoValue THEN newValues[t][k]
    ELSE IF pairs[k] # NoEntry THEN pairs[k].data
    ELSE NoEntry

(***************************************************************************)
(* A successful transactional read of a key the transaction has not       *)
(* written.  Only the history variable changes; the read records nothing  *)
(* in `txn.requested_keys` (no code path inserts into it).                 *)
(***************************************************************************)
ReadTxn(t, k) ==
    /\ Active(t)
    /\ newValues[t][k] = NoValue
    /\ ~ReadFails(t, k)
    /\ seen' = [seen EXCEPT ![t][k] = TxnReadResult(t, k)]
    /\ UNCHANGED <<pairs, youngest, bumps, txnSeq, newValues, missed, headMissed, applied>>

(***************************************************************************)
(* _ukv_read_head / _ukv_measure_head: under the shared lock, copies the  *)
(* stored bytes (or length 0 for a missing key) into the caller's arena.  *)
(* The store itself does not change.                                       *)
(***************************************************************************)
ReadHead(k) ==
    /\ UNCHANGED vars

-----------------------------------------------------------------------------
\* Mutation: an entry carrying the transaction's own sequence number taken
\* as "self" and not as a collision (the reading of spec 4.1, step 3).
CommitCollidesSelfOk(t) ==
    \E k \in Buffered(t) :
        /\ pairs[k] # NoEntry
        /\ pairs[k].seq # txnSeq[t]
        /\ EntryWasOverwritten(pairs[k].seq, txnSeq[t], youngest)

(***************************************************************************)
(* ukv_txn_commit, step 2: a buffered key whose entry carries this        *)
(* transaction's own sequence number, or one in the overwrite window,     *)
(* aborts the commit.  Step 1 iterates `requested_keys`, which is always  *)
(* empty, and so never aborts.                                             *)
(***************************************************************************)
CommitCollides(t) ==
    \E k \in Buffered(t) :
        /\ pairs[k] # NoEntry
        /\ \/ pairs[k].seq = txnSeq[t]
           \/ EntryWasOverwritten(pairs[k].seq, txnSeq[t], youngest)

\* Step 4 on the keys `ks`: each entry takes the buffered bytes and the
\* transaction's own sequence number.
Import(t, ks) ==
    [k \in Keys |-> IF k \in ks THEN [data |-> newValues[t][k], seq |-> txnSeq[t]]
                                 ELSE pairs[k]]

\* What step 4 leaves in `new_values` for the keys `ks`: the swapped-out old
\* bytes of an existing entry, an empty moved-from vector for a new one.
SwappedOut(t, ks) ==
    [k \in Keys |-> IF k \notin ks THEN newValues[t][k]
                   ELSE IF pairs[k] # NoEntry THEN pairs[k].data
                   ELSE Empty]

(***************************************************************************)
(* ukv_txn_commit, steps 1 to 4 without a throw: every buffered value is  *)
(* swapped into its entry with the transaction's own sequence number (not *)
(* a fresh one).  Step 3's `reserve_more` succeeds.  The maps are not     *)
(* cleared.                                                                *)
(***************************************************************************)
CommitTxn(t) ==
    /\ Active(t)
    /\ ~CommitCollides(t)
    /\ pairs' = Import(t, Buffered(t))
    /\ newValues' = [newValues EXCEPT ![t] = SwappedOut(t, Buffered(t))]
    /\ NoteWrites(Buffered(t), {o \in Txns \ {t} : Active(o)}, FALSE)
    /\ applied' = [applied EXCEPT ![t] = @ \cup Buffered(t)]
    /\ UNCHANGED <<youngest, bumps, txnSeq, seen>>

(***************************************************************************)
(* ukv_txn_commit when step 4 throws.  Step 3 reserved hash-table buckets *)
(* but not nodes: `insert_or_assign` of a new key `kf` allocates one and  *)
(* may throw `bad_alloc`, after `std::move` emptied the buffered value.   *)
(* Step 4 has no `catch`; the exception leaves the call (the lock is      *)
(* released by unwinding) with the keys `done` already imported.  The     *)
(* unordered_map iteration order is unspecified, so `done` is any subset *)
(* of the other buffered keys.  (A throw in step 3 returns before any     *)
(* change, as a stutter of the store.)                                     *)
(***************************************************************************)
CommitThrows(t, done, kf) ==
    /\ CommitOOM
    /\ Active(t)
    /\ ~CommitCollides(t)
    /\ kf \in Buffered(t)
    /\ pairs[kf] = NoEntry
    /\ done \subseteq Buffered(t) \ {kf}
    /\ pairs' = Import(t, done)
    /\ newValues' = [newValues EXCEPT ![t] = [SwappedOut(t, done) EXCEPT ![kf] = Empty]]
    /\ NoteWrites(done, {o \in Txns \ {t} : Active(o)}, FALSE)
    /\ applied' = [applied EXCEPT ![t] = @ \cup done]
    /\ UNCHANGED <<youngest, bumps, txnSeq, seen>>

Next ==
    \/ \E rows \in SeqOf(Row, MaxBatch) \ {<<>>}, afterIncr \in BOOLEAN :
          \E fail \in 0 .. Len(rows) : WriteHead(rows, fail, afterIncr)
    \/ \E t \in Txns, h \in Hints : BeginTxn(t, h)
    \/ \E t \in Txns, k \in Keys, v \in Vals : WriteTxn(t, k, v)
    \/ \E t \in Txns, k \in Keys : ReadTxn(t, k)
    \/ \E t \in Txns : CommitTxn(t)
    \/ \E t \in Txns, kf \in Keys, done \in SUBSET Keys : CommitThrows(t, done, kf)
    \/ \E k \in Keys : ReadHead(k)

Spec == Init /\ [][Next]_vars

-----------------------------------------------------------------------------
(***************************************************************************)
(* Properties.                                                             *)
(***************************************************************************)

(* A committed transaction never overwrites a value that a HEAD write     *)
(* (_ukv_write_head) stored after the transaction began: ukv_txn_commit's *)
(* overwrite-window test must catch it, on both sides of the sequence     *)
(* wrap-around.                                                            *)
HeadWritesNotLost ==
    [][\A t \in Txns : CommitTxn(t) => Buffered(t) \cap headMissed[t] = {}]_vars

(* First-committer-wins (spec 4.1, step 3): a transaction commits only if *)
(* no key it writes was written, by HEAD or by another transaction's      *)
(* commit, after it began.                                                 *)
FirstCommitterWins ==
    [][\A t \in Txns : CommitTxn(t) => Buffered(t) \cap missed[t] = {}]_vars

(* A buffered write is applied at most once: calling ukv_txn_commit again *)
(* on a handle before the next ukv_txn_begin must not re-apply the keys a *)
(* commit already applied.  That commit swapped the old bytes into        *)
(* `new_values`, so applying them again would write the overwritten      *)
(* values back.                                                            *)
CommitAtMostOnce ==
    [][\A t \in Txns : CommitTxn(t) => Buffered(t) \cap applied[t] = {}]_vars

(* Repeatable reads (spec 8): within one transaction, reads of a key the  *)
(* transaction has not written all return the same value.                 *)
RepeatableRead ==
    [][\A t \in Txns, k \in Keys :
          ReadTxn(t, k) /\ seen[t][k] # Unread => TxnReadResult(t, k) = seen[t][k]]_vars

\* The bytes an entry holds, NoEntry for a missing key.
DataOf(e) == IF e = NoEntry THEN NoEntry ELSE e.data

(* Batch atomicity (spec 7, partial batches): a HEAD write batch in which *)
(* some row fails leaves the stored values as they were before the batch *)
(* (_ukv_write_head's `catch` breaks out of the loop).                    *)
BatchAllOrNothing ==
    [][\A rows \in SeqOf(Row, MaxBatch) \ {<<>>}, afterIncr \in BOOLEAN, fail \in 1 .. MaxBatch :
          fail <= Len(rows) /\ WriteHead(rows, fail, afterIncr) =>
              \A k \in Keys : DataOf(pairs'[k]) = DataOf(pairs[k])]_vars

\* The sequence numbers `++youngest_sequence` has handed out so far: the
\* last `bumps` values before and including `youngest`, modulo 2^SeqBits.
Issued == {((youngest - i - SeqMin) % (2 ^ SeqBits)) + SeqMin : i \in 0 .. bumps - 1}

(* Every stored entry carries a sequence number the counter has already  *)
(* handed out, so none lies ahead of `youngest` (spec invariants: "its   *)
(* entry's sequence <= youngest_seq"): HEAD writes, a row that throws    *)
(* after its increment, and commits (which reuse the begin number) all   *)
(* stamp issued numbers, on both sides of the wrap.  The overwrite window *)
(* test relies on it.                                                      *)
EntrySeqIssued == \A k \in Keys : pairs[k] # NoEntry => pairs[k].seq \in Issued

(* Commit atomicity (spec invariants: "either all writes of a           *)
(* transaction apply atomically or none do"): a commit step of a         *)
(* transaction imports all of its buffered writes or none of them, also  *)
(* when ukv_txn_commit's step 4 throws part-way.                          *)
CommitAllOrNothing ==
    [][\A t \in Txns :
          LET stamped == {k \in Buffered(t) : pairs'[k] # pairs[k] /\ pairs'[k].seq = txnSeq[t]}
          IN  Active(t) => stamped = {} \/ stamped = Buffered(t)]_vars

(* A store entry only ever holds bytes some caller wrote (spec 4.1: a    *)
(* commit installs the transaction's buffered writes), also when the     *)
(* caller calls ukv_txn_commit again after one that threw: the retry     *)
(* must not install the vector that step 4's `std::move` emptied before  *)
(* `insert_or_assign` failed.                                             *)
StoresCallerBytes == \A k \in Keys : pairs[k] # NoEntry => pairs[k].data \in Vals
=============================================================================
