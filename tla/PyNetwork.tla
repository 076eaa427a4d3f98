----------------------------- MODULE PyNetwork -----------------------------
(***************************************************************************)
(* The Python `Network` of src/python/networkx.cpp, as a Python program   *)
(* sees it: a graph whose vertex set lives in the store, and the results  *)
(* its methods return.  Every method runs under the GIL, one at a time.   *)
(*                                                                         *)
(* The graph calls (`g.ref()`, a graph_collection_t) are not under src/:  *)
(* modelled from the spec's arena contract (section 6: returned buffers   *)
(* "remain valid until the next call using the same arena"), each one     *)
(* writes its result into the graph's one arena, replacing the previous  *)
(* call's.  A result is named by the number of the call that made it.     *)
(***************************************************************************)
EXTENDS Integers, Sequences, SequencesExt

CONSTANTS
    Nodes,     \* vertex ids a Python caller passes
    Attrs,     \* attribute dicts a caller passes as add_node(v, **attrs)
    NoAttrs,   \* no kwargs, or no document stored for the vertex
    MaxArg,    \* bound: ids in one nbunch_iter argument
    MaxCalls   \* bound: graph calls in a behaviour

VARIABLES
    nodes,     \* the vertices the graph collection holds
    alive,     \* the py_graph_t (and its arena) is not yet destroyed
    arena,     \* number of the call whose result the arena holds, 0 if none
    calls,     \* graph calls made so far
    views,     \* memoryviews the Python program holds, by the call they wrap
    lastBunch, \* the array the last nbunch_iter returned
    hasAttrs,  \* the Network was opened with a `vertices` collection
    attrs,     \* vertices_attrs: the document stored under each id
    given,     \* history: the attrs of the node's add_node calls since it
               \* last joined the graph, as networkx keeps them
    shown,     \* what the last nodes(data=True) iteration yielded
    degViews,  \* DegreeViews the Python program holds
    crashed    \* a call dereferenced a null py_graph_t

vars == <<nodes, alive, arena, calls, views, lastBunch, hasAttrs, attrs,
          given, shown, degViews, crashed>>

TypeOK ==
    /\ nodes \subseteq Nodes
    /\ alive \in BOOLEAN
    /\ arena \in 0 .. MaxCalls
    /\ views \subseteq 1 .. MaxCalls
    /\ lastBunch \in Seq(Nodes)
    /\ attrs \in [Nodes -> Attrs \cup {NoAttrs}]
    /\ given \in [Nodes -> Attrs \cup {NoAttrs}]
    /\ shown \subseteq Nodes \X (Attrs \cup {NoAttrs})
    /\ degViews \in BOOLEAN

Init ==
    /\ nodes = {}
    /\ alive = TRUE
    /\ arena = 0
    /\ calls = 0
    /\ views = {}
    /\ lastBunch = <<>>
    /\ hasAttrs \in BOOLEAN
    /\ attrs = [n \in Nodes |-> NoAttrs]
    /\ given = [n \in Nodes |-> NoAttrs]
    /\ shown = {}
    /\ degViews = FALSE
    /\ crashed = FALSE

Graph == <<nodes, alive, views, lastBunch>>
Docs == <<hasAttrs, attrs, given, shown, degViews, crashed>>

\* A call through `g.ref()`: its result replaces what the arena held.
GraphCall ==
    /\ alive
    /\ calls < MaxCalls
    /\ calls' = calls + 1
    /\ arena' = calls + 1

(***************************************************************************)
(* add_nodes_from(vs, **attrs): `upsert_vertices(vs)`, then, when kwargs  *)
(* were given, `vertices_attrs[vs].assign(json)`.  Without a `vertices`   *)
(* collection that assign raises, after the vertices were added.          *)
(* networkx keeps a node's data when it is re-added without kwargs.  An   *)
(* argument that is neither a buffer of keys nor a sequence raises before *)
(* any call.                                                               *)
(***************************************************************************)
AddNodesFrom(vs, a) ==
    /\ GraphCall
    /\ nodes' = nodes \cup vs
    /\ attrs' = [n \in Nodes |-> IF n \in vs /\ a # NoAttrs /\ hasAttrs THEN a
                                 ELSE attrs[n]]
    /\ given' = [n \in Nodes |-> IF n \notin vs THEN given[n]
                                 ELSE IF a # NoAttrs /\ hasAttrs THEN a
                                 ELSE IF n \in nodes THEN given[n] ELSE NoAttrs]
    /\ UNCHANGED <<alive, views, lastBunch, hasAttrs, shown, degViews, crashed>>

\* add_node(v, **attrs): the same with the one id, through upsert_vertex.
AddNode(n, a) == AddNodesFrom({n}, a)

\* remove_nodes_from(vs): `remove_vertices(vs)` only; vertices_attrs is
\* left alone.  networkx drops a removed node's data with it.
RemoveNodesFrom(vs) ==
    /\ GraphCall
    /\ nodes' = nodes \ vs
    /\ given' = [n \in Nodes |-> IF n \in vs THEN NoAttrs ELSE given[n]]
    /\ UNCHANGED <<alive, views, lastBunch, hasAttrs, attrs, shown, degViews,
                   crashed>>

\* remove_node(v): the same with the one id, through remove_vertex.
RemoveNode(n) == RemoveNodesFrom({n})

(***************************************************************************)
(* add_edge(u, v[, key]) and add_edges_from: one `upsert_edge(s)` call.    *)
(* Whether it makes the endpoints vertices of the index is the business  *)
(* of graph_collection_t, which is not under src/: either.  No edge       *)
(* state is kept, since no property reads it.                             *)
(***************************************************************************)
AddEdges(es) ==
    /\ GraphCall
    /\ nodes' \in {nodes, nodes \cup {e[1] : e \in es} \cup {e[2] : e \in es}}
    /\ UNCHANGED <<alive, views, lastBunch>> /\ UNCHANGED Docs

\* remove_edge(u, v[, key]) and remove_edges_from: one `remove_edge(s)`
\* call; the vertices stay.
RemoveEdges(es) ==
    /\ GraphCall
    /\ UNCHANGED <<nodes, alive, views, lastBunch>> /\ UNCHANGED Docs

(***************************************************************************)
(* The queries through `g.ref()`: has_node, __contains__, has_edge (with  *)
(* and without a key), number_of_edges and the `edges` property.  Each    *)
(* one changes no vertex and still writes its result into the arena.      *)
(***************************************************************************)
GraphQuery ==
    /\ GraphCall
    /\ UNCHANGED <<nodes, alive, views, lastBunch>> /\ UNCHANGED Docs

\* clear(): `index.clear()`, and `vertices_attrs.clear()` when it exists.
\* Neither goes through `g.ref()`.
Clear ==
    /\ alive
    /\ nodes' = {}
    /\ attrs' = IF hasAttrs THEN [n \in Nodes |-> NoAttrs] ELSE attrs
    /\ given' = [n \in Nodes |-> NoAttrs]
    /\ UNCHANGED <<alive, arena, calls, views, lastBunch, hasAttrs, shown,
                   degViews, crashed>>

(***************************************************************************)
(* `G.nodes(data=True)` iterated to the end: nodes_stream_t walks the     *)
(* index keys and read_attributes fetches each one's document, shown as   *)
(* "{}" when none is stored.  Without a `vertices` collection the         *)
(* ukv_docs_read on the default collection raises.                        *)
(***************************************************************************)
NodesData ==
    /\ alive /\ hasAttrs
    /\ shown' = {<<n, attrs[n]>> : n \in nodes}
    /\ UNCHANGED <<nodes, alive, arena, calls, views, lastBunch, hasAttrs,
                   attrs, given, degViews, crashed>>

(***************************************************************************)
(* `G[n]`, successors, predecessors, `degree[ids]`: wrap_into_buffer      *)
(* fills `g.last_buffer` with the range's address and shape and returns   *)
(* PyMemoryView_FromBuffer of it, with `obj = NULL`: the view points into *)
(* the arena and keeps neither the graph nor the arena alive.  (CPython   *)
(* copies the shape and strides, so reusing `last_buffer` is harmless.)   *)
(***************************************************************************)
Neighbors(n) ==
    /\ GraphCall
    /\ views' = views \cup {calls + 1}
    /\ UNCHANGED <<nodes, alive, lastBunch>> /\ UNCHANGED Docs

\* `G.degree` (in_degree, out_degree): a degree_view_t holding a weak_ptr
\* to the py_graph_t.
Degree ==
    /\ alive
    /\ degViews' = TRUE
    /\ UNCHANGED <<nodes, alive, arena, calls, views, lastBunch, hasAttrs,
                   attrs, given, shown, crashed>>

(***************************************************************************)
(* `degs[v]` and `degs[ids]`: `*degs.net_ptr.lock().get()`.  Once the     *)
(* Network is gone lock() is empty and this dereferences null.  Otherwise *)
(* `degree(v)` returns a number and `degrees(ids)` a memoryview through   *)
(* wrap_into_buffer.                                                       *)
(***************************************************************************)
DegreeGet(many) ==
    /\ degViews
    /\ \/ /\ ~alive
          /\ crashed' = TRUE
          /\ UNCHANGED <<nodes, alive, arena, calls, views, lastBunch>>
       \/ /\ GraphCall
          /\ views' = IF many THEN views \cup {calls + 1} ELSE views
          /\ UNCHANGED <<nodes, alive, lastBunch, crashed>>
    /\ UNCHANGED <<hasAttrs, attrs, given, shown, degViews>>

(***************************************************************************)
(* nbunch_iter's filter over the `contains` flags: matches are copied to  *)
(* the front of an array of size ids.size(), which is then resized to     *)
(* `max(j, 1) - 1`.                                                        *)
(***************************************************************************)
Bunch(ids, present) ==
    LET matched == SelectSeq(ids, LAMBDA x : x \in present)
        j == Len(matched)
    IN  SubSeq(matched, 1, (IF j > 1 THEN j ELSE 1) - 1)

NbunchIter(ids) ==
    /\ GraphCall
    /\ lastBunch' = Bunch(ids, nodes)
    /\ UNCHANGED <<nodes, alive, views>> /\ UNCHANGED Docs

\* The Python program drops a memoryview.
DropView(c) ==
    /\ c \in views
    /\ views' = views \ {c}
    /\ UNCHANGED <<nodes, alive, arena, calls, lastBunch>> /\ UNCHANGED Docs

\* The last reference to the Network goes: py_graph_t and its arena are
\* freed.  Memoryviews and DegreeViews do not hold it.
DropNetwork ==
    /\ alive
    /\ alive' = FALSE
    /\ arena' = 0
    /\ UNCHANGED <<nodes, calls, views, lastBunch>> /\ UNCHANGED Docs

\* A segfault ends the process.
Next ==
    /\ ~crashed
    /\ \/ \E n \in Nodes, a \in Attrs \cup {NoAttrs} : AddNode(n, a)
       \/ \E vs \in SUBSET Nodes, a \in Attrs \cup {NoAttrs} : AddNodesFrom(vs, a)
       \/ \E n \in Nodes : RemoveNode(n) \/ Neighbors(n)
       \/ \E vs \in SUBSET Nodes : RemoveNodesFrom(vs)
       \/ \E es \in SUBSET (Nodes \X Nodes) : AddEdges(es)
       \/ \E es \in SUBSET (Nodes \X Nodes) : RemoveEdges(es)
       \/ GraphQuery
       \/ Clear \/ NodesData \/ Degree
       \/ \E many \in BOOLEAN : DegreeGet(many)
       \/ \E ids \in SeqOf(Nodes, MaxArg) : NbunchIter(ids)
       \/ \E c \in views : DropView(c)
       \/ DropNetwork

Spec == Init /\ [][Next]_vars

-----------------------------------------------------------------------------
(* nbunch_iter returns the given nodes that are in the graph (networkx:   *)
(* "Filters given nodes which are also in the graph"), all of them, in    *)
(* the order given.                                                        *)
NbunchReturnsMembers ==
    [][\A ids \in SeqOf(Nodes, MaxArg) :
          NbunchIter(ids) => lastBunch' = SelectSeq(ids, LAMBDA x : x \in nodes)]_vars

(* A memoryview a method returned keeps showing that method's result for *)
(* as long as Python holds it: neither a later call on the graph nor the *)
(* graph's destruction may change or free the memory under it.           *)
ViewsStayValid == \A c \in views : alive /\ arena = c

(* G.nodes(data=True) shows each node with the attributes networkx keeps *)
(* for it: those of its add_node calls since it last joined the graph,   *)
(* so none for a node that was removed and added again without kwargs    *)
(* (remove_node leaves the vertex's document in vertices_attrs).         *)
NodeDataAsGiven ==
    [][NodesData => \A p \in shown' : p[2] = given[p[1]]]_vars

(* A DegreeView may outlive its Network, which holds it only by weak_ptr: *)
(* using it then must raise, never dereference a null py_graph_t.         *)
NoNullGraph == ~crashed
=============================================================================
