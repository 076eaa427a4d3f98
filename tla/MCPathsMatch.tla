---------------------------- MODULE MCPathsMatch ----------------------------
(* Instantiates PathsMatch for TLC.  Characters: 1 = "a", 2 = "b",        *)
(* 3 = "/".  Paths "a/a", "a/b", "b/a" and "a" spread over buckets 1..3, *)
(* with a collision in some layouts.                                       *)
EXTENDS PathsMatch

AA == <<1, 3, 1>>
AB == <<1, 3, 2>>
BA == <<2, 3, 1>>
A  == <<1>>

MCLayouts ==
    { (1 :> <<AA>>) @@ (2 :> <<BA>>) @@ (3 :> <<AB>>),
      (1 :> <<AA, BA>>) @@ (3 :> <<AB>>),
      (1 :> <<BA>>) @@ (2 :> <<AA, AB>>),
      (2 :> <<A, AA>>) @@ (3 :> <<AB>>),
      (1 :> <<AA>>),
      (1 :> <<BA>>) @@ (2 :> <<AB>>) @@ (3 :> <<AA>>) }
\* hash("") below, between and above the bucket keys.
MCHashValues == 0 .. 4
MCPrefixes == {<<>>, <<1, 3>>, <<2>>}
MCMaxLimit == 3
=============================================================================
