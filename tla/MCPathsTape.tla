---------------------------- MODULE MCPathsTape ----------------------------
(* Instantiates PathsTape for TLC: paths "a" and "bb" hash to the first   *)
(* bucket of the tape, "c" and "d" to the second; values "x", "yy", "z".  *)
EXTENDS PathsTape

MCNames == {<<97>>, <<98, 98>>, <<99>>, <<100>>}
MCValues == {<<120>>, <<121, 121>>, <<122>>}
MCHash == [nm \in MCNames |-> IF nm \in {<<97>>, <<98, 98>>} THEN 1 ELSE 2]
\* Bucket bytes: N, key lengths, value lengths, key bytes, value bytes.
AOnly == <<1, 1, 1, 97, 120>>                        \* {a: x}
ABb   == <<2, 1, 2, 1, 2, 97, 98, 98, 120, 121, 121>> \* {a: x, bb: yy}
COnly == <<1, 1, 1, 99, 122>>                        \* {c: z}
CD    == <<2, 1, 1, 1, 1, 99, 100, 122, 120>>        \* {c: z, d: x}
MCLayouts == {<<ABb, COnly>>, <<ABb, CD>>, <<AOnly, CD>>}
\* What the arena holds past the exported bytes.
MCGarbage == 0 .. 2
MCMaxMembers == 2
MCMaxTasks == 2
=============================================================================
