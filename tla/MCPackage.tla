------------------------------- MODULE MCPackage ------------------------------
(* Small certificate graphs for Package: certificate 1 is the leaf.        *)
EXTENDS Package, FiniteSetsExt

MCNode == 1 .. 6

(* Certificates 7 and 8 do not parse; they are named like the issuers of   *)
(* two certificates, of which the search may come to m first.              *)
NoneRefused == [n \in MCNode |-> {}]
RefusedAt(n, m) == [NoneRefused EXCEPT ![n] = @ \cup {7}, ![m] = @ \cup {8}]

(* Every graph in which CAs 2 to 4 may cross-certify each other; up are    *)
(* the issuers of CA 4 beyond them, and 6 is the issuer of 5.              *)
Graphs(up) == {[n \in MCNode |-> CASE n = 4 -> g[4] \cup up
                                   [] n = 5 -> {6}
                                   [] n = 6 -> {}
                                   [] OTHER -> g[n]] :
                 g \in {h \in [1 .. 4 -> SUBSET (2 .. 4)] :
                          \A n \in 2 .. 4 : n \notin h[n]}}

(* The paths of two to four certificates from the leaf.                    *)
LeafPaths == {<<1, x>> : x \in 2 .. 4}
             \cup {<<1, p[1], p[2]>> : p \in (2 .. 4) \X {3, 4}}
             \cup {<<1, 2, 3, 4>>, <<1, 3, 2, 4>>}

(* One anchor or two, and up to one path refused.                          *)
GateInput ==
    [cand : Graphs({}), misnamed : {{}}, missigned : {{}}, unfit : {{}},
     anchors : {{4}, {2, 3}}, leaf : {1}, expired : {FALSE},
     refused : {{}} \cup {{p} : p \in LeafPaths},
     refusedCand : {NoneRefused}, refusedCrls : {{}},
     refusedOcsps : {{}}, indexed : {TRUE}, forged : {FALSE}]

(* Signatures and names that fail, a certificate that may not issue; CRLs  *)
(* and OCSP responses that do not parse.                                   *)
FaultInput ==
    [cand : Graphs({}), misnamed : {{}, {<<1, 2>>}},
     missigned : {{<<2, 3>>}, {<<3, 4>>}}, unfit : {{}, {2}},
     anchors : {{4}}, leaf : {1}, expired : BOOLEAN, refused : {{}},
     refusedCand : {RefusedAt(3, 2)}, refusedCrls : {{7, 9}},
     refusedOcsps : {{8}}, indexed : {TRUE}, forged : {FALSE}]

(* Anchor 6 is beyond CA 4, too far for a path that visits every CA.  The  *)
(* set may lack its name index.                                            *)
FarInput ==
    [cand : Graphs({5}), misnamed : {{}}, missigned : {{}}, unfit : {{}},
     anchors : {{6}}, leaf : {1}, expired : {FALSE}, refused : {{}},
     refusedCand : {RefusedAt(1, 1)}, refusedCrls : {{}},
     refusedOcsps : {{}}, indexed : BOOLEAN, forged : {FALSE}]

(* The leaf is an anchor, self-signed or not.                              *)
LeafInput ==
    [cand : Graphs({}), misnamed : {{}}, missigned : {{}}, unfit : {{}},
     anchors : {{1}, {1, 3}}, leaf : {1}, expired : {FALSE}, refused : {{}},
     refusedCand : {RefusedAt(2, 3)}, refusedCrls : {{9}},
     refusedOcsps : {{}}, indexed : {TRUE}, forged : BOOLEAN]

SealedInput == GateInput \cup FaultInput \cup FarInput \cup LeafInput

(* For the finding: an anchor that is not self-signed, and another leaf.   *)
ForgedInput ==
    [cand : Graphs({}), misnamed : {{}}, missigned : {{}}, unfit : {{}},
     anchors : {{4}}, leaf : {1}, expired : {FALSE}, refused : {{}},
     refusedCand : {NoneRefused}, refusedCrls : {{}},
     refusedOcsps : {{}}, indexed : {TRUE}, forged : {TRUE}]
===============================================================================
