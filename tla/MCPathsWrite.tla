---------------------------- MODULE MCPathsWrite ----------------------------
(* Two callers: w1 writes path "a", w2 writes path "c"; path "bb", in the *)
(* same bucket, belongs to neither.  Bytes are their character codes.     *)
EXTENDS PathsWrite, TLC

CONSTANTS w1, w2

MCNames == {<<97>>, <<98, 98>>, <<99>>}
MCValues == {<<120>>}
MCGarbage == 0 .. 1
MCMaxMembers == 3
MCOwn == (w1 :> {<<97>>}) @@ (w2 :> {<<99>>})
\* The bucket absent, or holding "bb" -> "x".
MCInitBuckets == {<<>>, <<1, 2, 1, 98, 98, 120>>}
=============================================================================
