------------------------------ MODULE MCReceiptRef ------------------------------
(* Two branches whose names give different slugs, three writers in two     *)
(* clones, and one check run.  The two writers of one clone are alike, and *)
(* so are the branches, each with its slug.                                *)
EXTENDS ReceiptRef, TLC

CONSTANTS feat, fix, s1, s2, here, there, w1, w2, w3, c1

OwnSlugs == feat :> s1 @@ fix :> s2
TwoClones == w1 :> here @@ w2 :> here @@ w3 :> there

Exchange(v, w) == v :> w @@ w :> v
Keep(v, w) == v :> v @@ w :> w
Alike ==
    {p @@ q : p \in {Exchange(w1, w2), Keep(w1, w2)},
              q \in {Exchange(feat, fix) @@ Exchange(s1, s2), Keep(feat, fix) @@ Keep(s1, s2)}}
================================================================================
