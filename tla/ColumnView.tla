----------------------------- MODULE ColumnView -----------------------------
(***************************************************************************)
(* column_view_gt<scalar_at>::operator[] of                               *)
(* src/include/ukv/cpp/table_ref.hpp: the flags of row i of a gathered    *)
(* column are read from the three bitmaps ukv_docs_gather fills           *)
(* (validities, conversions, collisions).  A bitmap is a sequence of      *)
(* bytes (`ukv_1x8_t`).  TableView reads its cells with these operators.  *)
(***************************************************************************)
EXTENDS Integers, Bitwise

CharBit == 8

\* Mutation: the mask counted from the most significant bit of the byte.
MaskMsbFirst(i) == 2 ^ (CharBit - 1 - (i % CharBit))

\* `static_cast<ukv_1x8_t>(1 << (i % CHAR_BIT))`.
Mask(i) == 2 ^ (i % CharBit)

\* `bitmap[i / CHAR_BIT] & mask_bitmap`, converted to bool.
Flag(bitmap, i) == (bitmap[i \div CharBit + 1] & Mask(i)) # 0

\* The gather output convention (spec 6: "LSB-first within each byte (bit
\* `i & 7` of byte `i >> 3`)"): is row i set in `bitmap`?
BitOf(bitmap, i) == (bitmap[(i \div 8) + 1] \div (2 ^ (i % 8))) % 2 = 1
=============================================================================
