----------------------------- MODULE TableView ------------------------------
(***************************************************************************)
(* The tabular read path of src/include/ukv/cpp/table_ref.hpp: a caller    *)
(* builds a layout (table_layout_gt, statically typed, or                  *)
(* table_layout_punned_t), passes its view() to table_ref_t::gather, and   *)
(* reads cells out of the returned table_view_gt through                   *)
(* column(i).as<T>()[r].                                                   *)
(*                                                                         *)
(* ukv_docs_gather itself has no body in this repository (ukv_docs.h only *)
(* declares it): its outputs are any bitmaps of the right size, which the  *)
(* view must then report cell by cell.                                     *)
(*                                                                         *)
(* table_layout_gt keeps its headers in a std::tuple and view() reads them *)
(* as cols_count consecutive field_type_t starting at &get<0>.  Whether   *)
(* get<1> follows get<0> in memory depends on the standard library: libc++ *)
(* lays tuple elements out in order, libstdc++ and MSVC in reverse, where  *)
(* the slots after get<0> are past the end of the tuple.  The constant     *)
(* Orders lists the layouts the build may have.                            *)
(***************************************************************************)
EXTENDS Integers, Sequences, Bitwise

CONSTANTS
    Keys,        \* ukv_key_t values a row may name
    DefaultKey,  \* col_key_t{} : the key of a value-initialised row
    Fields,      \* field names a header may carry
    Types,       \* ukv_type_t values of the header's scalar types
    BinType,     \* ukv_type<value_view_t>() : cells read off the tape
    AnyType,     \* ukv_type_any_k : the type of a default field_type_t
    NoField,     \* the nullptr name of a default field_type_t
    Garbage,     \* a name or type read from past the end of the tuple
    Orders,      \* tuple layouts of the build: "forward", "reverse"
    InitRows,    \* docs_count values the layouts are constructed with
    MaxRows, MaxCols, MaxCells,  \* bounds on the layout the caller builds
    ByteVals,    \* byte values a gathered bitmap byte may hold
    None

ASSUME DefaultKey \in Keys /\ BinType \in Types /\ AnyType \notin Types

CV == INSTANCE ColumnView

VARIABLES
    kind,    \* "typed" (table_layout_gt) or "punned" (table_layout_punned_t)
    order,   \* the tuple layout of this build
    rows,    \* rows_info_ : the index column
    heads,   \* columns_info_ : the header row, one field_type per column
    table,   \* the table_view_gt gather returned, or None
    cell     \* the last cell the caller read from it, or None

vars == <<kind, order, rows, heads, table, cell>>

FieldType == [field : Fields \cup {NoField}, type : Types \cup {AnyType}]
DefaultHead == [field |-> NoField, type |-> AnyType]
Defaults(n, x) == [i \in 1 .. n |-> x]

\* The caller keeps the layout within the model's bounds.
Fits(r, c) == r <= MaxRows /\ c <= MaxCols /\ r * c <= MaxCells

NBytes(n) == (n + 7) \div 8
Bitmaps(nc, nr) == [1 .. nc -> [1 .. NBytes(nr) -> ByteVals]]

\* Spec 4.3: a collided cell is not valid, bit for bit.
NoneBoth(a, b) ==
    \A j \in DOMAIN a : \A i \in DOMAIN a[j] : (a[j][i] & b[j][i]) = 0

TypeOK ==
    /\ kind \in {"typed", "punned"}
    /\ order \in Orders
    /\ rows \in Seq(Keys)
    /\ heads \in Seq(FieldType)
    /\ Fits(Len(rows), Len(heads))
    /\ table = None \/ table.keys \in Seq(Keys)
    /\ cell \in {None} \cup
            [col : Nat, row : Nat, values : {"tape", "scalars"},
             valid : BOOLEAN, converted : BOOLEAN, collides : BOOLEAN]

\* table_layout() and table_layout_gt(docs_count): docs_count
\* value-initialised rows and no columns; table_layout_punned_t(n, m):
\* n rows and m default headers.
Init ==
    /\ order \in Orders
    /\ \/ /\ kind = "typed"
          /\ \E n \in InitRows : Fits(n, 0) /\ rows = Defaults(n, DefaultKey)
          /\ heads = <<>>
       \/ /\ kind = "punned"
          /\ \E n \in InitRows, m \in 1 .. MaxCols :
                /\ Fits(n, m)
                /\ rows = Defaults(n, DefaultKey)
                /\ heads = Defaults(m, DefaultHead)
    /\ table = None
    /\ cell = None

Building == table = None /\ UNCHANGED <<kind, order, table, cell>>

\* with<T>(name): a new layout with the rows moved over and the header
\* {name, ukv_type<T>()} appended to the tuple.
With(f, ty) ==
    /\ kind = "typed"
    /\ Fits(Len(rows), Len(heads) + 1)
    /\ heads' = Append(heads, [field |-> f, type |-> ty])
    /\ Building /\ UNCHANGED rows

\* add_rows(row_keys): add_row of each key in turn; add_row is a
\* one-key add_rows.
AddRows(ks) ==
    /\ kind = "typed"
    /\ Fits(Len(rows) + Len(ks), Len(heads))
    /\ rows' = rows \o ks
    /\ Building /\ UNCHANGED heads

\* for_(row_keys): clear() of the rows, then add_rows.
For(ks) ==
    /\ kind = "typed"
    /\ rows' = ks
    /\ Building /\ UNCHANGED heads

\* table_layout_gt::clear() drops the rows and keeps the headers;
\* table_layout_punned_t::clear() drops both.
Clear ==
    /\ rows' = <<>>
    /\ heads' = IF kind = "punned" THEN <<>> ELSE heads
    /\ Building

\* index(i) = key: both layouts hand out a reference to row i.
SetIndex(i, k) ==
    /\ i \in 1 .. Len(rows)
    /\ rows' = [rows EXCEPT ![i] = k]
    /\ Building /\ UNCHANGED heads

\* table_layout_punned_t::header(i) = {field, type}.
SetHeader(i, h) ==
    /\ kind = "punned"
    /\ i \in 1 .. Len(heads)
    /\ heads' = [heads EXCEPT ![i] = h]
    /\ Building /\ UNCHANGED rows

\* view(): the headers as the gather sees them.  The punned layout hands
\* out its vector; the typed one reinterprets &get<0> as an array of
\* cols_count field_type_t, which are the tuple's elements only when the
\* tuple is laid out in order.
ViewHeads ==
    [j \in 1 .. Len(heads) |->
        IF kind = "punned" \/ order = "forward" \/ j = 1 THEN heads[j]
        ELSE [field |-> Garbage, type |-> Garbage]]

\* table_ref_t::gather(layout): a table_view_gt over the layout's keys,
\* fields and types, whose per-column bitmaps ukv_docs_gather fills.  The
\* typed view() needs header<0>, so a typed layout has a column.
Gather ==
    /\ table = None
    /\ kind = "typed" => Len(heads) >= 1
    /\ LET hs == ViewHeads
           nc == Len(hs)
           nr == Len(rows)
       IN \E val, conv, coll \in Bitmaps(nc, nr) :
          /\ NoneBoth(val, coll)
          /\ table' = [keys |-> rows,
                      fields |-> [j \in 1 .. nc |-> hs[j].field],
                      types |-> [j \in 1 .. nc |-> hs[j].type],
                      validities |-> val, conversions |-> conv,
                       collisions |-> coll]
    /\ UNCHANGED <<kind, order, rows, heads, cell>>

\* Mutation: column(i) hands the collisions as the conversions.
ColumnSwapped(c) ==
    [validities |-> table.validities[c], conversions |-> table.collisions[c],
     collisions |-> table.conversions[c], count |-> Len(table.keys),
     name |-> table.fields[c], type |-> table.types[c]]

\* table_view_gt::column(i), then as<T>(): the i-th bitmaps, docs_count_
\* rows, fields_[i] and types_[i].  as<T> passes the three bitmaps on in
\* the same order for scalar and value_view_t columns.
Column(c) ==
    [validities |-> table.validities[c], conversions |-> table.conversions[c],
     collisions |-> table.collisions[c], count |-> Len(table.keys),
     name |-> table.fields[c], type |-> table.types[c]]

\* column_view_gt<void>::as<T>(): for value_view_t a view over the tape,
\* offsets and lengths, otherwise over the scalars reinterpreted as T;
\* both keep the three bitmaps, the count and the name, and drop the type.
As(col, t) ==
    [validities |-> col.validities, conversions |-> col.conversions,
     collisions |-> col.collisions, count |-> col.count, name |-> col.name,
     values |-> IF t = BinType THEN "tape" ELSE "scalars"]

\* The T the caller reads column c as: column<idx>() of a typed table uses
\* the type given to with<T>; a punned table's caller reads it as its
\* type().
ReadAs(c) == IF kind = "typed" THEN heads[c].type ELSE Column(c).type

\* table.column<T>(c)[r]: operator[] of the typed column view, whose value
\* is `scalars_[i]` or `{tape_ + offsets_[i], lengths_[i]}`.
ReadCell(c, r) ==
    /\ table # None
    /\ c \in 1 .. Len(table.fields)
    /\ LET v == As(Column(c), ReadAs(c)) IN
       /\ r \in 1 .. v.count
       /\ cell' = [col |-> c, row |-> r, values |-> v.values,
                   valid |-> CV!Flag(v.validities, r - 1),
                   converted |-> CV!Flag(v.conversions, r - 1),
                   collides |-> CV!Flag(v.collisions, r - 1)]
    /\ UNCHANGED <<kind, order, rows, heads, table>>

KeySeqs == UNION {[1 .. n -> Keys] : n \in 1 .. 2}

Next ==
    \/ \E f \in Fields, ty \in Types : With(f, ty)
    \/ \E ks \in KeySeqs : AddRows(ks)
    \/ \E ks \in KeySeqs : For(ks)
    \/ Clear
    \/ \E i \in 1 .. MaxRows, k \in Keys : SetIndex(i, k)
    \/ \E i \in 1 .. MaxCols, h \in FieldType : SetHeader(i, h)
    \/ Gather
    \/ \E c \in 1 .. MaxCols, r \in 1 .. MaxRows : ReadCell(c, r)

Spec == Init /\ [][Next]_vars

-----------------------------------------------------------------------------
(* Every cell read through table.column(c)[r] carries the bits            *)
(* ukv_docs_gather set for row r of column c, in that column's own three  *)
(* bitmaps: column(i) must pick the i-th bitmap of each output array and  *)
(* pass them to the column view in order, and operator[] must find bit    *)
(* r - 1 in LSB-first order, also past the first byte.                    *)
CellsMatchGather ==
    cell # None =>
        /\ cell.valid = CV!BitOf(table.validities[cell.col], cell.row - 1)
        /\ cell.converted = CV!BitOf(table.conversions[cell.col], cell.row - 1)
        /\ cell.collides = CV!BitOf(table.collisions[cell.col], cell.row - 1)

(* The table gather returns names, in order, the fields the caller        *)
(* declared with with<T>(name) (or set with header(i)), and asks for the  *)
(* types they declared: view() must pass the headers on as they are.      *)
HeadersAsDeclared ==
    table # None => table.fields = [j \in 1 .. Len(heads) |-> heads[j].field]
=============================================================================
