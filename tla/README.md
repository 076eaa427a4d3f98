# TLA+ models of ukv

These TLA+ modules and TLC configurations model the embedded in-memory store
(`src/src/ukv_stl_embedded.cpp`), the paths modality
(`src/src/modality_paths.cpp`), the C++ table views
(`src/include/ukv/cpp/table_ref.hpp`) and the Python networkx binding
(`src/python/networkx.cpp`) of this repository. `PROJECT.json` lists:

- every component, with its status;
- every run and what it checks;
- the mutants that show each checked property can fail;
- the map from each TLA+ definition to the source lines it models;
- the findings;
- the hazards, each at its source line.

## The system and its parts

| Part | Source | State | Model |
|------|--------|-------|-------|
| Embedded store | `ukv_stl_embedded.cpp` | `db_t`: collections of `key -> {bytes, sequence}`, the atomic `youngest_sequence`, and a `shared_mutex` | `Store` |
| Transactions | same file | `txn_t`: a begin sequence number, buffered `new_values`, and `requested_keys` (which is never filled) | `Store` |
| Paths modality | `modality_paths.cpp` | none of its own. A path string is hashed to a key, and all paths with that hash share one *bucket* value in the store: `N, N key lengths, N value lengths, key bytes, value bytes` | `PathsBucket`, refining `PathsMap` |
| Path scans | `modality_paths.cpp` (`ukv_paths_match`) | a paging loop over `ukv_scan` and `ukv_read` | `PathsMatch` |
| Collections | `ukv_stl_embedded.cpp` (`ukv_open`, `ukv_collection_upsert/remove`) | `db.named`: name -> `unique_ptr<collection_t>`. A handle is the collection's address | `Collections` |
| Paths write over one read tape | `modality_paths.cpp` (`ukv_paths_write`, `remove_part`) | the arena tape `ukv_read` exports the buckets into, and views into it | `PathsTape` |
| Docs gather and table views | `include/ukv/cpp/table_ref.hpp`, `ukv_docs.h` | a caller's layout (`table_layout_gt` or `table_layout_punned_t`), the `table_view_gt` that `table_ref_t::gather` returns over the bitmaps of `ukv_docs_gather` (which has no body in this repository), and the column views read from it | `TableView`, with `ColumnView` |
| Python networkx binding | `python/networkx.cpp` | `py_graph_t`: a graph collection and its arena, the `vertices` documents collection, and the weak references of `DegreeView`. Memoryviews and arrays are returned to Python | `PyNetwork` |

How the parts interact:

- The paths modality is a client of the store. `ukv_paths_write` does three things:
  1. reads every touched bucket with `ukv_read`, which holds the shared lock for that call only;
  2. rewrites the buckets in an arena;
  3. writes them back with `ukv_write`, which takes the exclusive lock for that call only.

  The read and the write are separate critical sections.
- A transaction's `new_values` hold located keys whose `collection_ptr` is a raw address into `db.named`'s collections. `ukv_collection_remove` frees a collection without telling any transaction.
- The networkx binding returns memoryviews into the graph's arena. The next graph call reuses that arena. Node attributes live in a second collection that `remove_node` does not touch.
- A `table_view_gt` does not own what it shows: its names, types and keys point into the caller's layout, and its bitmaps into the arena the gather used.
- Every store operation holds `db.mutex` for its whole body, except that `ukv_txn_begin` increments the atomic `youngest_sequence` with no lock held. Each operation is therefore one atomic step in `Store`.

## Modules

### `Store` (and `MCStore`)

- **Data abstraction.** Located keys are abstracted to `Keys` and value bytes to `Vals`. `Empty` stands for a moved-from vector. `sequence_t` (`ssize_t`) is a signed `SeqBits`-wide integer, and `Inc` wraps it as two's complement does.
- **Variables.** The code's state is `pairs`, `youngest`, `txnSeq` (with `NoTxn` before a handle exists) and `newValues`. The history variables are:
  - `seen`: the last value a transaction read for each key;
  - `missed` and `headMissed`: keys that others, or HEAD writes, wrote after the transaction began;
  - `applied`: keys the handle's commits already applied.
- **Actions.** Each one is a whole handler:
  - `WriteHead(rows, fail, afterIncr)`, a whole `_ukv_write_head` batch. `ApplyRow` is folded over the rows before `fail`. `FailRow` is the `catch` of the row that throws:
    - for an existing entry, the new sequence number is already stored while the bytes stay old;
    - for a new entry, `afterIncr` says whether the throw came before or after the increment.
  - `BeginTxn`;
  - `WriteTxn`;
  - `ReadTxn`, a successful `_ukv_read_txn`/`_ukv_measure_txn` of a key the transaction has not written. A read of a key it has written returns a pointer to the bytes buffered in `new_values`, changes no modelled state, and is left out. Recording it in `seen` took `MCStore.cfg` past 12 minutes.
  - `ReadHead`, the HEAD reads and measures, which change nothing;
  - `CommitTxn`, `ukv_txn_commit`. It applies its writes with the begin sequence number (`Import`). `std::swap` leaves the old bytes in `new_values`, which are not cleared (`SwappedOut`).
  - `CommitThrows(t, done, kf)`, the same commit whose step 4 throws `bad_alloc` from `insert_or_assign` on the new key `kf`. Step 3 reserved buckets but not nodes. The keys `done` that the loop visited before `kf` are imported and swapped out. `kf`'s buffered value was moved into the lost node and is left `Empty`. Step 4 has no `catch`, so nothing is rolled back. The out-of-memory exit of step 3 returns before any change and is a stutter.
- **Retries.** `StoresCallerBytes` says every stored value is one a caller wrote. It is checked on its own in `store_commit_retry`: after a `CommitThrows`, the caller calls `CommitTxn` again on the same handle.
- **Fault model.** `CommitOOM` enables `CommitThrows`. It is TRUE in `MCStore.cfg` and in `store_commit_atomic`, and FALSE in the other cfgs, which ask questions about conflicts rather than allocation failure.
- **Bounds.** `bumps` counts increments of `youngest` and stops at `MaxBumps`: 3 in the passing run, enough for two begins and one HEAD write, or one begin and two writes. `MaxBatch` limits rows per batch. It is 1 in the passing run: a longer batch runs under one lock, so it only removes interleavings of single rows. It is 2 in `MCStore_BatchAllOrNothing.cfg`.
- **Starting states.** `InitYoungest = {0, 2}`. A start at 2 with an empty map is a real state: two begins on handles that were later freed. With `SeqBits = 3`, a start at 2 puts the wrap from 3 to -4 within the first two increments, so every run crosses the wrap-around branch of `entry_was_overwritten`.
- **Constants.** `Keys = {k1, k2}`, `Vals = {v1}`, `Txns = {t1, t2}`, with symmetry over keys, values and transactions.

### `PathsMap` and `PathsBucket` (and `MCPathsBucket`)

- **`PathsMap`** is the abstract promise (spec section 8): a map from names to values, with `Put` and `Del`. Its variable `last` records the operation a step performs: the name, and the value set (`NoVal` for a removal).
- **`PathsBucket`** holds one bucket as a sequence of naturals. A counter is one cell (`counter_size_k = 1`), and so is each byte.
  - The layout operators are `GetBucketSize`, `KeyLens`/`ValLens`, `KeyPos`/`ValPos` and `KeyAt`/`ValAt`. They follow `get_bucket_*` and `for_each_in_bucket`.
  - `FindInBucket` keeps the *last* match, as the callback does.
  - `RemoveFromBucket` cuts parts at offsets computed from the original bucket, in the code's order.
  - `UpsertInBucket` rebuilds the bucket as the code does. Kept members' counters are written at their old index, and the new member's at `new_size - 1`. A slot no write reaches keeps arena garbage, which is chosen from `Garbage`.
  - `Decode` is what `ukv_paths_read` returns for each name, or `Corrupt`.
  - The history variable `task` is the path and value of the last `ukv_paths_write` task on the bucket.
  - `RefinesPathsMap` is `PathsMap!Spec` under the mapping `map <- Decode(bucket), last <- task`. Every step must therefore set or clear exactly the task's name, to the task's value, and leave the other members alone. A removal that cleanly drops some other member violates it.
  - The passing run (`SpecInsertOrRemove`) inserts new paths, updates the bucket's last member and removes any path. Updating an earlier member is the bug at line 198, which `MCPathsBucket_Overwrite.cfg` shows.
- **Model-side guards.** Both actions are guarded by `Readable(bucket)`, which stops exploration after a corruption. They are not code.
- **Bounds.** Three colliding paths of lengths 1, 2 and 1, three values of lengths 1, 2 and 1, at most 3 members, and garbage counters `0..2`. With these, every member position (first, middle, last) is inserted and removed.

### `PathsWrite` (and `MCPathsWrite`)

`PathsWrite` runs two writer threads against one store bucket (`stored`), with the bucket operators taken from `PathsBucket` through `B == INSTANCE PathsBucket WITH bucket <- stored`. Each call of `ukv_paths_write` is two steps:

- `ReadAndUpdate` is the `ukv_read` of the bucket and the local update loop. The loop computes `upsert_in_bucket` for a value and `remove_from_bucket` for an absent one.
- `WriteBack` is the closing `ukv_write`.

Between the two steps the lock is released, as it is in the code.

- **Tasks.** Each writer owns its own paths: w1 "a", w2 "c". A third path, "bb", may already be in the bucket. An upsert is only of a path the writer has not set, which keeps `upsert_in_bucket`'s overwrite bug (`MCPathsBucket_Overwrite.cfg`) out of this question.
- **History.** `effect` records, per own path, what the writer's last finished call set.

### `PathsTape` (and `MCPathsTape`)

`PathsTape` runs the removals of one `ukv_paths_write` call at the level of memory. `ukv_read` exports the touched buckets one after another into one arena tape (`_ukv_read_head`, `memcpy` at `arena + exported_into_arena`). `updated_buckets[j]` starts as a view `[b, l]` into that tape.

- **Tape operators.**
  - `Memmove` is `std::memmove` on the tape.
  - `RemovePart` is `remove_part`. It moves `full.size() - part.size()` cells, which is the size of the whole view, not of its tail after `part`.
  - `RemoveFromBucket` is `remove_from_bucket` on a view: four `remove_part` calls at offsets from the original bucket, then `N` lowered in place.
  - The bucket layout operators come from `PathsBucket` through `Bk == INSTANCE PathsBucket WITH bucket <- <<>>`.
- **Slack.** Past the exported bytes the tape holds arena memory the call does not own. It is modelled as slack cells of one unknown value, `Garbage`.
- **Actions.**
  - `RemoveTask` is one pass of the update loop.
  - `ReadOutOfBounds`: `find_in_bucket` reads through counters that point past the view. This is undefined behaviour, and the model stops.
  - `WriteBack` is the closing `ukv_write`.
- **Deadlock.** It is not checked, because a returned call is a final state.
- **Inputs.** Two buckets, from three layouts: `{a, bb}` then `{c}`; `{a, bb}` then `{c, d}`; `{a}` then `{c, d}`. The tasks are up to two removals.

### `Collections` (and `MCCollections`)

`Collections` models `db.named` and the raw addresses that refer to its collections.

- **Heap.** `heap` maps each address to the incarnation that lives there (the number of the creation that allocated it), or 0 when free. The allocator may reuse an address just freed.
- **Actions.**
  - `Init` is `ukv_open`.
  - `UpsertExisting`, `UpsertNew` and `UpsertFails` are the three ends of `ukv_collection_upsert`. In `UpsertFails` the `unique_ptr` frees the collection on unwinding, and nothing changes.
  - `Remove` is `ukv_collection_remove`.
  - `TxnBegin`, `TxnWrite` and `TxnCommit` keep only what matters for collections. `TxnWrite(t, hs, colocated)` is a batch of up to `MaxBatch` rows that `_ukv_write_txn` buffers as located keys. `CollectionAt` is `collection_at`: with the colocated flag every row goes to `c_collections[0]`, and a null handle (`Null`) means `db.unnamed`, which is never freed. `TxnCommit` is the dereference of every buffered `collection_ptr` in commit steps 2 and 4.
- **Caller assumption.** A caller writes only through a handle whose collection it has not itself removed.
- **No passing run.** That `db.named` owns exactly the live collections holds by construction of `unique_ptr`, so the project states no property for it. The one Collections run, `collections_commit_after_remove`, is a violation.
- **Bounds.** Two names, two addresses, two transactions and three creations, so that an address is reused. Symmetry is over names, addresses and transactions.

### `TableView` (with `ColumnView`)

`TableView` models the caller's side of the tabular read path of `table_ref.hpp`. `ColumnView` holds the bit operators of `column_view_gt::operator[]` that it uses.

- **Variables.** `kind` is the layout class, `rows` its `rows_info_` and `heads` its `columns_info_` (one `{field, type}` per column). `order` is the tuple layout of the build. `table` is the `table_view_gt` the gather returned, and `cell` the last cell read from it.
- **Actions.**
  - `Init`: `table_layout()`, `table_layout_gt(n)` or `table_layout_punned_t(n, m)`.
  - `With`, `AddRows` (which covers `add_row`), `For`, `Clear` and `SetIndex` for the typed layout; `SetHeader`, `SetIndex` and `Clear` for the punned one. The typed `clear()` keeps the headers; the punned one drops both.
  - `Gather`: `table_ref_t::gather` over `view()`. `ViewHeads` is what `view()` hands on. The punned layout hands on its vector. The typed layout reinterprets `&get<0>` as an array of `cols_count` headers. That is right only when the tuple is laid out in order (libc++), not in reverse (libstdc++, MSVC). `ukv_docs_gather` has no body here, so its bitmaps are any bytes of the right size in which no cell is both valid and collided (spec 4.3).
  - `ReadCell(c, r)`: `table.column<T>(c)[r]`. This is `column(i)` (`Column`), `as<T>()` (`As`) and then `operator[]` (`CV!Flag`). The cell's value comes from the scalars or from the tape. `T` is the type given to `with<T>` for a typed table (`ReadAs`), and the column's `type()` for a punned one.
- **Caller assumption.** The caller gathers once and does not change the layout afterwards, while the table view points into it.
- **Bounds.** Up to 9 rows and 2 columns, with at most 9 cells (`MaxCells`). A 9-row column has a second bitmap byte. Layouts start with 0 or 8 rows. Bitmap bytes are 0, 85 or 170: an empty byte, and two bytes whose neighbouring bits differ. There is one key, since keys do not affect the flags.

### `PyNetwork`

`PyNetwork` is the Python `Network` as a Python program sees it.

- **Graph calls.** The graph calls (`g.ref()`) are not in this repository. `GraphCall` is modelled from the spec's arena contract: each call writes its result into the one arena, replacing the previous call's.
- **Actions.**
  - `AddNodesFrom(vs, a)` and its one-id form `AddNode(n, a)`: `upsert_vertices`, then the attribute documents when kwargs are given. Without a `vertices` collection (`hasAttrs` FALSE) the second step raises after the first.
  - `RemoveNodesFrom(vs)` and `RemoveNode(n)`: `remove_vertices` only.
  - `AddEdges(es)`: `add_edge` and `add_edges_from`, one graph call. Whether `upsert_edge` makes the endpoints vertices is up to the graph collection, so either outcome is allowed. No edge state is kept.
  - `RemoveEdges(es)`: `remove_edge` and `remove_edges_from`, one graph call.
  - `GraphQuery`: `has_node`, `__contains__`, `has_edge`, `number_of_edges` and `edges`. Each one changes no vertex, but its result replaces what the arena held.
  - `Clear`: the index and the attribute collection.
  - `NodesData`: iterating `G.nodes(data=True)` through `nodes_stream_t`.
  - `Neighbors`: `G[n]` and the other queries that return a memoryview from `wrap_into_buffer`.
  - `Degree` and `DegreeGet`: `G.degree`, which holds the graph by `weak_ptr`, and `degs[v]` / `degs[ids]`.
  - `NbunchIter`, with its filter `Bunch`.
  - `DropView` and `DropNetwork`: the Python program dropping a view or the graph.
- **History.** `given` is the attributes networkx would keep for each node: those of its `add_node` calls since it last joined the graph.
- **Bounds.** Two nodes, one attribute dict, three graph calls. `MCPyNetwork_TypeOK.cfg` explores this space without error (4,410 distinct states). No listed run checks the module, because each of its properties is violated; the cfgs are listed under "Further counterexamples".

### `PathsMatch` (and `MCPathsMatch`)

`scan_one_collection_one_range` runs against a snapshot `coll`: bucket key -> the sequence of names in that bucket. A name is a sequence of character codes, so that `starts_with` is `IsPrefix`.

- **Inputs.** They are chosen in `Init`:
  - the layout, from six that include single-bucket collections and colliding paths;
  - `hash("")`, which is some fixed but unknown key for a build: below, between or above the bucket keys;
  - the prefix;
  - the `previous` passed in, which is empty or a matching path;
  - the limit, from 1 to 3.
- **Loop state.** `found`, `previous` and `reached` are the loop's locals: the output tape, `previous` and `has_reached_previous`.
- **Actions.** Each is one exit or one pass of the `while` loop:
  - `LimitReached`, when the loop test fails;
  - `EndOfCollection`, the `<= 1` break;
  - `Round`: `ukv_scan` from `PreviousKey(previous)`, `ukv_read` of the keys, and the callback `Visit` folded over the members in order.
- **`ukv_scan`.** It is not under `src/`. `ScanKeys` is modelled from spec section 5: ascending keys, from `min_key` inclusive, up to the limit.
- **Fairness.** `WF_vars(Next)`. The loop runs on the caller's thread, and the store calls it makes return.
- **Deadlock.** It is not checked, because a returned call is a final state.


## Runs

These are the runs `PROJECT.json` lists.

| Run | Expect | Shows |
|-----|--------|-------|
| `store_head_conflicts` (`MCStore.cfg`) | pass, 548,478 distinct states, under 2 min | Conflicting HEAD batches run alongside transactions and commits whose step 4 may throw part-way. `EntrySeqIssued`: every stored sequence is one the store issued, so none is ahead of `youngest`. `HeadWritesNotLost`: no commit overwrites a key that a HEAD write stored after the transaction began, across the wrap-around. `CommitAtMostOnce`: a retried commit, after a full or a half-done one, never re-applies a key already applied. `TypeOK`: sequence numbers stay in `ssize_t` range. |
| `store_first_committer_wins` | violation | t1 begins (seq 1), then t2 begins (seq 2), and both write k. t1 commits, storing k with seq 1. t2 then commits with no collision, and t1's update is lost. This happens because commit reuses the begin sequence and never advances `youngest_sequence`. |
| `store_commit_atomic` | violation | t1 writes k1 and k2. Its commit imports k1 and then throws on the new key k2. k1 stays committed with t1's sequence number, and k2's buffered value is moved-from (`ukv_stl_embedded.cpp:678`). |
| `bucket_insert_remove` (`MCPathsBucket.cfg`) | pass, 301 distinct states, about 30 s | Inserting a new path, updating the last member or removing any path changes the decoded bucket by exactly the task's name and value (`RefinesPathsMap`). An emptied bucket is written as zero bytes (`TypeOK`). |
| `match_terminates` | violation | The call never returns. With buckets {1: [b/a], 2: [a/a, a/b]}, prefix "b" and limit 2, the first round exports b/a. Every later round scans from the first key (the condition at line 484 is inverted), exports nothing new, and leaves the state unchanged. |
| `match_one_bucket` (`MCPathsMatch_ReturnsExpected.cfg`) | violation | `ReturnsExpected`: a collection with one bucket returns no paths. The `<= 1` test at line 507 breaks out of the loop before the bucket is read. |
| `paths_concurrent_writers` | violation | Both writers read the absent bucket. w2 writes {c}. w1, which removed "a", then writes back its empty copy, and "c" is gone. The read and the write-back of `ukv_paths_write` are separate critical sections. |
| `tape_removal_in_view` (`MCPathsTape.cfg`) | pass, 666 distinct states | `RemovalCorrectInView`: within the view it edits, each `remove_from_bucket` (four `remove_part` calls and the decrement) removes exactly its path. |
| `tape_neighbour_bucket` | violation | Removing "a" from `{a, bb}` moves bytes of the next bucket `{c}` over its own header, because `remove_part` moves the whole view's length (`modality_paths.cpp:126`). The call writes back a corrupt `{c}` bucket that it was never asked to change. |
| `collections_commit_after_remove` | violation | A collection is created, a transaction writes to it, and the collection is removed. The commit then dereferences the freed collection. A new collection at the same address is reached the same way. |
| `table_cells` (`TableView`, `MCTableView.cfg`) | pass, 385,444 distinct states, about 90 s | `CellsMatchGather`: over every typed and punned layout the caller can build within the bounds, and both tuple layouts, every cell read through `table.column(c)[r]` carries the bits the gather set for row r of column c, in both bitmap bytes. |
| `store_commit_retry` | violation | t1 writes k1, and its commit throws on inserting k1, after `std::move` emptied the buffered value (`ukv_stl_embedded.cpp:675`). The caller retries `ukv_txn_commit`. `new_values` was not cleared, so the retry stores k1 with the empty value, which nobody wrote. |

Each property of a passing run has a mutant in `PROJECT.json`: a plausible bug that TLC catches. The mutants are:

- an increment without wrap;
- the window test without its wrap branch;
- an own-sequence entry treated as "self";
- a row whose sequence number is not stored;
- removal without the single-member case;
- the first member removed in place of the matched one;
- the two counters cut in swapped order;
- an MSB-first bit mask;
- `column(i)` passing the collision bitmap as the conversion one.

### Further counterexamples

The modules state further properties that TLC finds violated. Each has its own cfg but is not one of the listed runs:

| Cfg | Property | Shows |
|-----|----------|-------|
| `MCStore_RepeatableRead.cfg` | `RepeatableRead` | t2 reads k as missing. Then t1, which began earlier, commits k. t2's next read returns v1 with no error. Reads are not recorded in `requested_keys` and are only checked against the window `[begin, youngest]`. |
| `MCStore_BatchAllOrNothing.cfg` | `BatchAllOrNothing` | The batch <<k1 -> v1, k?>>, whose second row throws, leaves k1 = v1. Spec 7 says a failed batch leaves the store unchanged, but the `catch` at line 203 only breaks the loop. |
| `MCPathsBucket_Overwrite.cfg` | `RefinesPathsMap` | After a->x and c->x, upserting a again gives the counters `<<garbage, 1>>` over the bytes "ca". The bucket is corrupt (line 198). |
| `MCPathsMatch.cfg` | `TypeOK` | This one passes: 1,956 distinct states. The exported paths are paths of the collection and never more than the limit. |
| `MCPathsMatch_NoDuplicates.cfg` | `NoDuplicatePaths` | Prefix "a/" with limit 3 returns a/a, a/b, a/a, because `has_reached_previous` stays true and the rounds restart at the first key. |
| `MCTableView_Headers.cfg` | `HeadersAsDeclared` | Under the reverse tuple layout, a typed layout with two columns gathers with its second field name and type read from past the end of the tuple (`table_ref.hpp:437`). |
| `MCPyNetwork_Nbunch.cfg` | `NbunchReturnsMembers` | Node 1 is added. `nbunch_iter([1])` returns an empty array, because the result is resized to `max(j, 1) - 1` (`networkx.cpp:341`). |
| `MCPyNetwork_NodeData.cfg` | `NodeDataAsGiven` | `add_node(1, a=...)`, `remove_node(1)`, `add_node(1)`: `G.nodes(data=True)` shows node 1 with the old attributes, because `remove_node` leaves its document (line 377). |
| `MCPyNetwork_Degree.cfg` | `NoNullGraph` | `d = G.degree`, then the Network is dropped. `d[1]` dereferences the null pointer that the expired `weak_ptr` gives (line 111). |
| `MCPyNetwork_Views.cfg` | `ViewsStayValid` | A memoryview from `G[n]` shows another call's result after the next graph call, because `obj = NULL` keeps no reference (line 89). |

## Fairness

`Store`, `PathsBucket`, `PathsTape`, `Collections`, `TableView` and `PyNetwork` state no fairness, and none of their runs checks a liveness property. Every store operation blocks on the mutex and runs to completion in one step. Every Python method runs under the GIL.

`PathsMatch` assumes weak fairness of its own steps. The loop runs on the caller's thread and calls only `ukv_scan` and `ukv_read`, which return. Under that assumption `Terminates` can fail only by the loop taking steps that change nothing, and the counterexample shows exactly that.

## Not modelled, and why

- **`free` calls.** `ukv_txn_free`, `ukv_free` and `ukv_collection_free` are not modelled. The last of these does nothing. The other two delete memory that no modelled property reads afterwards.
- **`ukv_control`.** It only sets an error.
- **Paths calls inside a transaction.** `ukv_paths_write` with `c_txn` is not modelled.
- **Docs.** `ukv_docs.h` declares `ukv_docs_write` and `ukv_docs_read` and has no bodies. `ukv_docs_gather` is not in this repository. `docs.hpp` is empty.
- **Table views.** `row(i)` is a TODO that returns `{}`. Re-gathering into the same arena, and changing the layout after a gather, are left out, because the view's pointers into both are not checked. The scalar and tape payloads of a cell are left out, since the properties are about its flags.
- **networkx.** Edge state is not modelled. It lives in the graph collection, which is not under `src/`, and no property reads it. `add_edge`, `remove_edge` and their `*_from` batches are modelled only by their graph call. `clear_edges` does not go through `g.ref()`, and it keeps the index keys, so it changes nothing the model tracks. `NodesStream` paging runs over `keys_stream_t`, which is not in this repository. The counters and flag getters only read. `copy`, `subgraph`, `density`, `write_adjlist` and the other stubs raise or do nothing.
- **Runs.** The project keeps at most twelve runs. The PyNetwork properties, two store properties and two scan properties have only the cfgs under "Further counterexamples".

## Plan (in order)

1. **`PathsWrite` in transactions.** Run the same callers inside `Store` transactions (`c_txn`).
2. **`PathsMatch` and concurrent writers.** Let HEAD writes change the collection between rounds of the scan.
3. **`KVStore`.** Write an abstract serialisable key-value store refined by `Store`, with HEAD-only behaviour as the first refinement.
4. **`Collections` and `Store`.** Compose them, so that commits reach real entries.
5. **Sequence hints.** Check `EntrySeqIssued` with nonzero `c_sequence_number` hints.
6. **Table views over time.** Let the caller change the layout, or gather again into the same arena, while a table view is held.
7. **Reads of a transaction's own writes.** Give the caller's held read buffers a variable of their own, so that a later `WriteTxn` or `CommitTxn` that changes the bytes under a buffer `_ukv_read_txn` returned from `new_values` (line 423) can be checked. This needs a smaller `MCStore` instance to stay within the time bound.
