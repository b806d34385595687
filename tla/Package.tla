-------------------------------- MODULE Package --------------------------------
(***************************************************************************)
(* The evidence package of a result (app/package.py) and its offline       *)
(* verifier (verify/verify_package.py): the path search of run_core over a *)
(* sealed set, the certificates its result refers to, and the same search  *)
(* over those certificates alone, whose result must be the same.           *)
(*                                                                         *)
(* The gates refuse the same paths both times: a gate looks at the path    *)
(* and at revocation evidence, all of which is bundled, and the signers it *)
(* looks up are candidate issuers of certificates of the path.             *)
(*                                                                         *)
(* The anchors are nodes: they parse.                                      *)
(***************************************************************************)
EXTENDS PathFinder, Problems

CONSTANT Unparsable     \* certificates the parser refuses, numbered like nodes

(* indexed: whether the set has its name index; forged: whether an anchor  *)
(* is not signed by its own key; refusedCand: the certificates named like  *)
(* an issuer that the parser refuses; refusedCrls, refusedOcsps: the CRLs  *)
(* and OCSP responses it refuses.                                          *)
ASSUME PackageType ==
    /\ Unparsable \subseteq Nat \ Node
    /\ Input \subseteq
          [cand : [Node -> SUBSET Node], misnamed : SUBSET (Node \X Node),
           missigned : SUBSET (Node \X Node), unfit : SUBSET Node,
           anchors : SUBSET Node, leaf : Node, expired : BOOLEAN,
           refused : SUBSET Seq(Node),
           refusedCand : [Node -> SUBSET Unparsable],
           refusedCrls : SUBSET Nat, refusedOcsps : SUBSET Nat,
           indexed : BOOLEAN, forged : BOOLEAN]

VARIABLES
    mode,       \* service, offline, or the verdict: same, different, error
    early,      \* the result is that of an anchor that is not self-signed
    problems,   \* parse_problems, a list as in Problems.tla
    result,     \* the result of the service, or None
    bundle      \* the certificates in the package

packageVars == <<vars, mode, early, problems, result, bundle>>

(* A number is the rank of a fingerprint. *)
Number == [n \in Nat |-> n]

PackageInit ==
    /\ Init
    /\ mode = "service"
    /\ early = FALSE
    /\ problems = IF in.indexed THEN {}
                  ELSE Noting({}, "certificate", Unparsable, Number)
    /\ result = None
    /\ bundle = {}

(* load_revocation, before the search: all CRLs and OCSP responses of the  *)
(* set are parsed.                                                         *)
Loaded ==
    Noting(Noting(problems, "crl", in.refusedCrls, Number),
           "ocsp", in.refusedOcsps, Number)

(* candidate_issuers parses what it finds by name, and keeps the problems. *)
Search ==
    /\ mode \in {"service", "offline"}
    /\ status = "start" => ~ in.forged
    /\ Next
    /\ LET before == IF status = "start" THEN Loaded ELSE problems IN
         problems' = IF stack' = << >> THEN before
                     ELSE Noting(before, "certificate",
                                 in.refusedCand[Last(stack')], Number)
    /\ UNCHANGED <<mode, early, result, bundle>>

(* The early result of run_core, before the search.                        *)
EarlyReject ==
    /\ mode \in {"service", "offline"}
    /\ status = "start" /\ in.forged /\ ~ early
    /\ early' = TRUE
    /\ UNCHANGED <<vars, mode, problems, result, bundle>>

Decided == early \/ status \in {"accepted", "rejected"}

(* An accepted result lists the explored edges without their failures; a   *)
(* rejected one has them in its proof, with the refused paths; an early    *)
(* one has neither.                                                        *)
Outcome ==
    [status |-> status, early |-> early, winner |-> winner,
     problems |-> problems, edges |-> edges,
     outcomes |-> IF status = "rejected" THEN outcomes ELSE << >>,
     failure |-> IF status = "rejected" THEN failure ELSE [e \in Edge |-> None]]

RefusedCerts(list) == {c \in Unparsable : <<"certificate", c>> \in Listed(list)}

(* _collect_references; every CRL and OCSP response is bundled anyway.     *)
(* Mutant: of an accepted result, only the path.                           *)
ReferencesOfPath ==
    in.anchors \cup Range(winner) \cup RefusedCerts(problems)
    \cup (IF status = "rejected"
            THEN {in.leaf} \cup UNION {{e[1], e[2]} : e \in edges} ELSE {})
References ==
    in.anchors \cup Range(winner) \cup RefusedCerts(problems)
    \cup (IF status = "rejected" THEN {in.leaf} ELSE {})
    \cup UNION {{e[1], e[2]} : e \in edges}

(* The verifier builds the index from the certificates of the package.     *)
Within(C) ==
    [in EXCEPT !.cand = [n \in Node |-> @[n] \cap C],
               !.refusedCand = [n \in Node |-> @[n] \cap C],
               !.indexed = TRUE]

(* The package is built, and the verifier starts over.                     *)
Export ==
    /\ mode = "service"
    /\ Decided
    /\ result' = Outcome
    /\ bundle' = References
    /\ in' = Within(References)
    /\ status' = "start" /\ depth' = 0 /\ stack' = << >> /\ todo' = << >>
    /\ winner' = << >> /\ outcomes' = << >> /\ edges' = {}
    /\ early' = FALSE /\ problems' = {}
    /\ failure' = [e \in Edge |-> None]
    /\ mode' = IF in.leaf \in References THEN "offline" ELSE "error"

(* The new result is compared byte by byte with the bundled one.           *)
Compare ==
    /\ mode = "offline"
    /\ Decided
    /\ mode' = IF Outcome = result THEN "same" ELSE "different"
    /\ UNCHANGED <<vars, early, problems, result, bundle>>

PackageNext == Search \/ EarlyReject \/ Export \/ Compare

PackageSpec ==
    PackageInit /\ [][PackageNext]_packageVars /\ WF_packageVars(PackageNext)

------------------------------------------------------------------------------
(* README section 7: the verifier rebuilds the certificate graph from the  *)
(* bundled certificates, runs the same core and finds the same result;     *)
(* "path search only reaches bundled certificates".                        *)
PackageVerifies == mode \notin {"different", "error"}

(* The verification ends, however the certificates refer to each other.    *)
VerifierEnds == <>(mode \in {"same", "different", "error"})
================================================================================
