---------------------------- MODULE Collections ----------------------------
(***************************************************************************)
(* Named collections of src/src/ukv_stl_embedded.cpp and the raw pointers *)
(* that refer to them.  `db.named` owns each collection through a         *)
(* unique_ptr; a handle (`ukv_collection_t`) is the collection's address, *)
(* and a transaction buffers its writes under located keys                 *)
(* {collection_ptr, key} holding that same address.                        *)
(*                                                                         *)
(* The heap is a function from addresses to the incarnation living there  *)
(* (the count of the creation that allocated it) or 0 when free.  The     *)
(* allocator may hand out any free address, including one just freed.    *)
(* Keys and values are abstracted away: a located key is its collection   *)
(* pointer, remembered with the incarnation the caller meant.             *)
(***************************************************************************)
EXTENDS Integers, FiniteSets, Functions

Seqs == INSTANCE SequencesExt

CONSTANTS
    CNames,      \* collection names callers pass
    Addrs,       \* heap addresses a collection_t may be allocated at
    Txns,        \* transaction handles
    MaxCreates,  \* bound: collections created in a behaviour
    None,        \* name not in `db.named`
    Null,        \* a null ukv_collection_t
    MaxBatch     \* bound: rows in one write

VARIABLES
    named,     \* db.named : name -> address of the owned collection_t
    heap,      \* address -> incarnation living there, 0 if free
    created,   \* collections created so far
    handles,   \* handles upserts returned, as [addr, inc]
    wset,      \* txn.new_values, per transaction: its located keys [addr, inc]
    stale      \* history: located keys a commit dereferenced after their collection died

vars == <<named, heap, created, handles, wset, stale>>

Ref == [addr : Addrs, inc : 1 .. MaxCreates]

Free == {a \in Addrs : heap[a] = 0}

TypeOK ==
    /\ named \in [CNames -> Addrs \cup {None}]
    /\ heap \in [Addrs -> 0 .. MaxCreates]
    /\ created \in 0 .. MaxCreates
    /\ handles \subseteq Ref
    /\ wset \in [Txns -> SUBSET Ref]
    /\ stale \subseteq Ref

\* ukv_open: `new db_t {}` with no named collections.
Init ==
    /\ named = [nm \in CNames |-> None]
    /\ heap = [a \in Addrs |-> 0]
    /\ created = 0
    /\ handles = {}
    /\ wset = [t \in Txns |-> {}]
    /\ stale = {}

(***************************************************************************)
(* ukv_collection_upsert of an existing name: the handle is the owned     *)
(* collection's address.                                                   *)
(***************************************************************************)
UpsertExisting(nm) ==
    /\ named[nm] # None
    /\ handles' = handles \cup {[addr |-> named[nm], inc |-> heap[named[nm]]]}
    /\ UNCHANGED <<named, heap, created, wset, stale>>

(***************************************************************************)
(* ukv_collection_upsert of a new name: make_unique allocates at a free   *)
(* address, the name is copied, the handle is written, and the unique_ptr *)
(* is moved into `db.named`.                                               *)
(***************************************************************************)
UpsertNew(nm, a) ==
    /\ named[nm] = None
    /\ created < MaxCreates
    /\ a \in Free
    /\ named' = [named EXCEPT ![nm] = a]
    /\ heap' = [heap EXCEPT ![a] = created + 1]
    /\ created' = created + 1
    /\ handles' = handles \cup {[addr |-> a, inc |-> created + 1]}
    /\ UNCHANGED <<wset, stale>>

(***************************************************************************)
(* ukv_collection_upsert of a new name whose make_unique, name copy or    *)
(* insert_or_assign throws: the `catch` sets the error, and the local     *)
(* unique_ptr, if it still owns the collection, frees it on unwinding.   *)
(* `*c_collection` may already hold the freed address, but the caller    *)
(* sees the error and does not keep it.  Nothing else changes.           *)
(***************************************************************************)
UpsertFails(nm) ==
    /\ named[nm] = None
    /\ UNCHANGED vars

(***************************************************************************)
(* ukv_collection_remove: `db.named.erase` destroys the unique_ptr and    *)
(* with it the collection; an unknown name is ignored.  No handle and no  *)
(* transaction is told.                                                    *)
(***************************************************************************)
Remove(nm) ==
    /\ named[nm] # None
    /\ named' = [named EXCEPT ![nm] = None]
    /\ heap' = [heap EXCEPT ![named[nm]] = 0]
    /\ UNCHANGED <<created, handles, wset, stale>>

\* ukv_txn_begin clears `new_values`.
TxnBegin(t) ==
    /\ wset' = [wset EXCEPT ![t] = {}]
    /\ UNCHANGED <<named, heap, created, handles, stale>>

(***************************************************************************)
(* collection_at(db, c_collections, i, c_options): the collection of row  *)
(* i, which is `c_collections[0]` for every row when the colocated flag   *)
(* is set, and `db.unnamed` for a null array or a null handle.  The      *)
(* handle is turned into a reference without being read; `db.unnamed` is *)
(* part of the db and never freed, so it is left out of the located keys. *)
(***************************************************************************)
CollectionAt(hs, i, colocated) == hs[IF colocated THEN 1 ELSE i]

(***************************************************************************)
(* _ukv_write_txn of a batch whose rows name the handles hs (Null for a  *)
(* null one): each row's located key keeps its collection's address.     *)
(* No lock is taken.  The caller writes only through handles whose       *)
(* collections are still the ones it got (it has not removed them).      *)
(***************************************************************************)
TxnWrite(t, hs, colocated) ==
    /\ \A i \in DOMAIN hs : hs[i] = Null \/ (hs[i] \in handles /\ heap[hs[i].addr] = hs[i].inc)
    /\ wset' = [wset EXCEPT ![t] = @ \cup
                   ({CollectionAt(hs, i, colocated) : i \in DOMAIN hs} \ {Null})]
    /\ UNCHANGED <<named, heap, created, handles, stale>>

(***************************************************************************)
(* ukv_txn_commit: steps 2 and 4 dereference every located key's          *)
(* `collection_ptr` (`collection.pairs.find`).  A key whose collection    *)
(* was freed, or whose address now holds a later collection, is recorded *)
(* in the history.  `new_values` is not cleared.                          *)
(***************************************************************************)
TxnCommit(t) ==
    /\ wset[t] # {}
    /\ stale' = stale \cup {r \in wset[t] : heap[r.addr] # r.inc}
    /\ UNCHANGED <<named, heap, created, handles, wset>>

Next ==
    \/ \E nm \in CNames : UpsertExisting(nm) \/ UpsertFails(nm) \/ Remove(nm)
    \/ \E nm \in CNames, a \in Addrs : UpsertNew(nm, a)
    \/ \E t \in Txns : TxnBegin(t) \/ TxnCommit(t)
    \/ \E t \in Txns, hs \in Seqs!SeqOf(handles \cup {Null}, MaxBatch), colocated \in BOOLEAN :
          hs # <<>> /\ TxnWrite(t, hs, colocated)

Spec == Init /\ [][Next]_vars

-----------------------------------------------------------------------------
(* A commit reaches only the collections its writes were made to (spec:  *)
(* collection handles define identity, and a collection owns its         *)
(* entries): no buffered located key points at a collection that        *)
(* ukv_collection_remove freed meanwhile, or at another collection later *)
(* allocated at the same address.                                         *)
CommitReachesOwnCollections == stale = {}
=============================================================================
