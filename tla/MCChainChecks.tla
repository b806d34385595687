---------------------------- MODULE MCChainChecks ----------------------------
(* Small certificate paths for ChainChecks, from the root to the leaf.     *)
EXTENDS ChainChecks, TLC

CONSTANTS a, b, c

MCPolicy == {a, b, c}
MCName == {"inside", "outside"}
NoNames == [k \in {"dns", "uri"} |-> {}]

Plain == [selfIssued |-> FALSE, ca |-> TRUE, pathLen |-> {},
          excluded |-> NoNames, permitted |-> NoNames, eku |-> "absent",
          policies |-> {AnyPolicy}, mappings |-> << >>,
          requireExplicit |-> {}, inhibitMapping |-> {}, inhibitAny |-> {}]

Root == [Plain EXCEPT !.selfIssued = TRUE]
Signer == [Plain EXCEPT !.ca = FALSE, !.eku = "codeSigning"]

Asked(paths, users) ==
    [path : paths, names : {[NoNames EXCEPT !["dns"] = {"inside"}]}, user : users]

(* Five certificates, three of them issuers of issuers; with the leaf a CA *)
(* or not.                                                                 *)
LengthInput ==
    Asked({<<[Root EXCEPT !.pathLen = l[1], !.selfIssued = s[1]],
             [Plain EXCEPT !.pathLen = l[2], !.selfIssued = s[2]],
             [Plain EXCEPT !.pathLen = l[3], !.selfIssued = s[3]],
             [Plain EXCEPT !.pathLen = l[4]],
             [Signer EXCEPT !.ca = leafCa]>> :
               l \in [1 .. 4 -> {{}, {0}, {1}, {2}}], s \in [1 .. 3 -> BOOLEAN],
               leafCa \in BOOLEAN},
          {{AnyPolicy}})

(* Names of the leaf of either kind or none, subtrees on root and CA.      *)
SubtreeSets == {{}, {{"inside"}}, {{"outside"}}}
NameInput ==
    [path : {<<[Root EXCEPT !.excluded["dns"] = x],
               [Plain EXCEPT !.permitted["dns"] = p, !.permitted["uri"] = q,
                             !.eku = e],
               [Signer EXCEPT !.eku = f]>> :
                x \in SubtreeSets, p \in SubtreeSets, q \in SubtreeSets,
                e \in {"absent", "other"}, f \in {"absent", "codeSigning"}},
     names : [{"dns", "uri"} -> SUBSET MCName],
     user : {{AnyPolicy}}]

(* Four certificates without mappings.                                     *)
Asserts == {{}, {a}, {AnyPolicy}, {a, b}, {a, AnyPolicy}}
PlainInput ==
    Asked({<<[Root EXCEPT !.policies = p[1], !.inhibitAny = x[1],
                          !.requireExplicit = x[2], !.selfIssued = s[1]],
             [Plain EXCEPT !.policies = p[2], !.inhibitAny = x[3],
                           !.selfIssued = s[2]],
             [Plain EXCEPT !.policies = p[3], !.selfIssued = s[3]],
             [Signer EXCEPT !.policies = p[4]]>> :
               p \in [1 .. 4 -> Asserts],
               x \in ({{}, {1}, {2}} \X {{}, {1}} \X {{}}) \cup {<<{}, {}, {0}>>},
               s \in {<<TRUE, FALSE, FALSE>>, <<TRUE, FALSE, TRUE>>,
                      <<FALSE, FALSE, FALSE>>}},
          {{AnyPolicy}, {b}})

(* Three certificates with mappings, inhibited or not.                     *)
Maps == {<< >>, <<<<a, b>>>>, <<<<a, b>>, <<a, c>>>>, <<<<a, b>>, <<b, c>>>>,
         <<<<b, a>>>>, <<<<c, b>>>>}
MapInput ==
    Asked({<<[Root EXCEPT !.policies = p[1], !.mappings = m[1],
                          !.inhibitMapping = x[1]],
             [Plain EXCEPT !.policies = p[2], !.mappings = m[2],
                           !.inhibitMapping = x[2], !.selfIssued = s],
             [Plain EXCEPT !.policies = p[3], !.mappings = m[3]],
             [Signer EXCEPT !.policies = p[4]]>> :
               p \in [1 .. 4 -> {{a}, {b}, {AnyPolicy}}],
               m \in Maps \X Maps \X {<< >>, <<<<b, a>>>>},
               x \in {<<{}, {}>>, <<{0}, {}>>, <<{1}, {}>>, <<{1}, {1}>>},
               s \in BOOLEAN},
          {{AnyPolicy}})

(* Every limit on every certificate, for the counters.                     *)
LimitInput ==
    Asked({<<[Root EXCEPT !.requireExplicit = x[1], !.inhibitAny = y[1]],
             [Plain EXCEPT !.requireExplicit = x[2], !.inhibitAny = y[2],
                           !.inhibitMapping = z[1], !.selfIssued = s],
             [Plain EXCEPT !.requireExplicit = x[3], !.inhibitMapping = z[2]],
             Signer>> :
               x \in [1 .. 3 -> {{}, {0}, {2}}], y \in [1 .. 2 -> {{}, {0}, {1}}],
               z \in [1 .. 2 -> {{}, {0}, {1}}], s \in BOOLEAN},
          {{AnyPolicy}, {a}})

GateInput ==
    LengthInput \cup NameInput \cup PlainInput \cup MapInput \cup LimitInput

===============================================================================
