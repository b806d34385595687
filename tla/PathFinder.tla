------------------------------ MODULE PathFinder ------------------------------
(***************************************************************************)
(* The path search of app/pathfinder.py: iterative deepening from the leaf *)
(* over the edges that name, key and signature admit, parents in ascending *)
(* fingerprint order, until a path to an anchor passes every whole-path    *)
(* gate; and the rejection proof when none does.                           *)
(*                                                                         *)
(* A node stands for a certificate and is the rank of its fingerprint.     *)
(* What the cryptography and the whole-path gates say is an input, chosen  *)
(* in the initial state: the modules of the single gates say what they     *)
(* compute.                                                                *)
(***************************************************************************)
EXTENDS Integers, Sequences, FiniteSets, SequencesExt

CONSTANTS
    Node,       \* certificates, numbered in the order of their fingerprints
    MaxDepth,   \* MAX_PATH_DEPTH, 20 in the code
    Input,      \* the evidence sets and requests to search
    None        \* no failure

ASSUME SearchType == Node \subseteq Nat /\ MaxDepth \in Nat \ {0}

(* A sealed set has finitely many certificates.                            *)
ASSUME NodesFinite == IsFiniteSet(Node)

(* No failure is none of the rules an edge can fail by.                    *)
ASSUME NoneIsNoRule ==
    None \notin {"ISSUER_NAME_KEY", "SIGNATURE", "LOOP", "INTRINSIC",
                 "PATH_LEVEL", "NO_PATH_TO_ANCHOR"}

(* cand: certificates whose subject is the issuer of a certificate.        *)
(* misnamed, missigned: edges whose key identifiers or signature fail.     *)
(* unfit: certificates that may not issue (validity, CA bit, key usage);   *)
(* expired: whether the leaf itself is outside its validity.               *)
(* refused: the paths some whole-path gate refuses.                        *)
ASSUME InputType ==
    \A i \in Input :
       /\ i.cand \in [Node -> SUBSET Node]
       /\ i.misnamed \subseteq Node \X Node
       /\ i.missigned \subseteq Node \X Node
       /\ i.unfit \subseteq Node
       /\ i.anchors \subseteq Node
       /\ i.leaf \in Node
       /\ i.expired \in BOOLEAN
       /\ i.refused \subseteq Seq(Node)

VARIABLES
    in,         \* the input
    status,     \* start, search, accepted or rejected
    depth,      \* the bound of the present iteration
    stack,      \* the certificates on the path, leaf first
    todo,       \* for each of them, the parents not yet visited
    winner,     \* the selected path, or << >>
    outcomes,   \* path_outcomes: the complete paths that were refused
    edges,      \* edges_seen
    failure     \* edge_failures: edge -> the first rule recorded, or None

vars == <<in, status, depth, stack, todo, winner, outcomes, edges, failure>>

Edge == Node \X Node

------------------------------------------------------------------------------
(* _static_parents *)

EdgeRule(e) ==
    IF e \in in.misnamed THEN "ISSUER_NAME_KEY"
    ELSE IF e \in in.missigned THEN "SIGNATURE"
    ELSE None

Parents(fp) == {ip \in in.cand[fp] : EdgeRule(<<fp, ip>>) = None}

(* setdefault: the first failure of an edge stays.                         *)
Note(e, rule) == failure' = [failure EXCEPT ![e] = IF @ = None THEN rule ELSE @]

(* Mutant: only the admitted parents are noted as seen.                    *)
ScanAdmitted(fp) ==
    /\ edges' = edges \cup ({fp} \X Parents(fp))
    /\ failure' = [e \in Edge |->
                     IF failure[e] = None /\ e \in {fp} \X in.cand[fp]
                       THEN EdgeRule(e) ELSE failure[e]]

(* A call of _dfs for fp first looks at every candidate issuer of fp.      *)
Scan(fp) ==
    /\ edges' = edges \cup ({fp} \X in.cand[fp])
    /\ failure' = [e \in Edge |->
                     IF failure[e] = None /\ e \in {fp} \X in.cand[fp]
                       THEN EdgeRule(e) ELSE failure[e]]

------------------------------------------------------------------------------
Init ==
    /\ in \in Input
    /\ status = "start"
    /\ depth = 0
    /\ stack = << >>
    /\ todo = << >>
    /\ winner = << >>
    /\ outcomes = << >>
    /\ edges = {}
    /\ failure = [e \in Edge |-> None]

(* find, before the loop: a leaf out of validity is rejected, a leaf that  *)
(* is itself an anchor is accepted, and otherwise the first iteration      *)
(* starts.                                                                 *)
Begin(d) ==
    /\ depth' = d
    /\ stack' = <<in.leaf>>
    /\ todo' = <<Parents(in.leaf)>>
    /\ Scan(in.leaf)

Start ==
    /\ status = "start"
    /\ \/ /\ in.expired
          /\ status' = "rejected"
          /\ UNCHANGED <<depth, stack, todo, winner, edges, failure>>
       \/ /\ ~ in.expired
          /\ in.leaf \in in.anchors
          /\ status' = "accepted"
          /\ winner' = <<in.leaf>>
          /\ UNCHANGED <<depth, stack, todo, edges, failure>>
       \/ /\ ~ in.expired
          /\ in.leaf \notin in.anchors
          /\ status' = "search"
          /\ Begin(1)
          /\ UNCHANGED winner
    /\ UNCHANGED <<in, outcomes>>

(* The loop of _dfs takes the parents in ascending order.                  *)
(* Mutant: in descending order.                                            *)
Largest(S) == CHOOSE ip \in S : \A x \in S : x <= ip
Smallest(S) == CHOOSE ip \in S : \A x \in S : ip <= x

Here == Last(stack)
Parent == Smallest(Last(todo))
Step == <<Here, Parent>>
Path == Append(stack, Parent)

Visiting == status = "search" /\ Last(todo) # {}

(* Mutant: the loop over the parents does not advance.                     *)
StuckRest(t) == t
Rest(t) == Front(t) \o <<Last(t) \ {Smallest(Last(t))}>>

(* The loop goes on with the next parent.                                  *)
Skip ==
    /\ todo' = Rest(todo)
    /\ UNCHANGED <<in, status, depth, stack, winner, edges>>

(* Mutant: no test for cycles, the bound alone ends the recursion.         *)
NeverOnPath(ip) == FALSE
OnPath(ip) == ip \in Range(stack)

Loop ==
    /\ Visiting
    /\ OnPath(Parent)
    /\ Note(Step, "LOOP")
    /\ Skip
    /\ UNCHANGED outcomes

Unfit ==
    /\ Visiting
    /\ ~ OnPath(Parent)
    /\ Parent \in in.unfit
    /\ Note(Step, "INTRINSIC")
    /\ Skip
    /\ UNCHANGED outcomes

MayFollow == Visiting /\ ~ OnPath(Parent) /\ Parent \notin in.unfit

(* _complete_path: the gates decide; a refused path is recorded, and the   *)
(* search does not go on behind an anchor.                                 *)
Refuse ==
    /\ MayFollow
    /\ Parent \in in.anchors
    /\ Path \in in.refused
    /\ outcomes' = Append(outcomes, Path)
    /\ Note(Step, "PATH_LEVEL")
    /\ Skip

Accept ==
    /\ MayFollow
    /\ Parent \in in.anchors
    /\ Path \notin in.refused
    /\ winner' = Path
    /\ status' = "accepted"
    /\ UNCHANGED <<in, depth, stack, todo, outcomes, edges, failure>>

(* Mutant: the bound of the iteration is off by one.                       *)
OneTooFew == depth - (Len(stack) - 1) > 2
(* remaining > 1, where remaining counts down from depth along the stack.  *)
Remaining == depth - (Len(stack) - 1) > 1

Descend ==
    /\ MayFollow
    /\ Parent \notin in.anchors
    /\ Remaining
    /\ stack' = Path
    /\ todo' = Append(Rest(todo), Parents(Parent))
    /\ Scan(Parent)
    /\ UNCHANGED <<in, status, depth, winner, outcomes>>

CutOff ==
    /\ MayFollow
    /\ Parent \notin in.anchors
    /\ ~ Remaining
    /\ Skip
    /\ UNCHANGED <<outcomes, failure>>

(* A call of _dfs has visited its parents and returns False.               *)
Exhausted == status = "search" /\ Last(todo) = {}

Return ==
    /\ Exhausted
    /\ Len(stack) > 1
    /\ stack' = Front(stack)
    /\ todo' = Front(todo)
    /\ UNCHANGED <<in, status, depth, winner, outcomes, edges, failure>>

Deepen ==
    /\ Exhausted
    /\ Len(stack) = 1
    /\ depth < MaxDepth
    /\ Begin(depth + 1)
    /\ UNCHANGED <<in, status, winner, outcomes>>

------------------------------------------------------------------------------
(* _annotate_dead_frontiers *)

(* The nodes from which explored edges lead to an anchor.  (The code walks *)
(* the edges of edges_seen, whatever their failures.)                      *)
Upward(E, n) == {e[2] : e \in {f \in E : f[1] = n}}

(* Mutant: only the anchors themselves.                                    *)
ReachingAtOnce(E) == in.anchors

Reaching(E) ==
    LET Within[n \in 0 .. Cardinality(Node)] ==
          IF n = 0 THEN in.anchors
          ELSE LET nearer == Within[n - 1]
               IN nearer \cup {c \in Node : Upward(E, c) \cap nearer # {}}
    IN Within[Cardinality(Node)]

GiveUp ==
    /\ Exhausted
    /\ Len(stack) = 1
    /\ depth = MaxDepth
    /\ status' = "rejected"
    /\ LET alive == Reaching(edges) IN
         failure' = [e \in Edge |->
           IF /\ e \in edges
              /\ failure[e] = None
              /\ EdgeRule(e) = None
              /\ e[2] \notin alive
             THEN "NO_PATH_TO_ANCHOR" ELSE failure[e]]
    /\ UNCHANGED <<in, depth, stack, todo, winner, outcomes, edges>>

Next == \/ Start \/ Loop \/ Unfit \/ Refuse \/ Accept
        \/ Descend \/ CutOff \/ Return \/ Deepen \/ GiveUp

Spec == Init /\ [][Next]_vars

------------------------------------------------------------------------------
(* What the search is meant to find *)

(* The complete candidate paths: from the leaf over admitted edges to an   *)
(* anchor, no certificate twice, issuers fit, no anchor on the way, no     *)
(* longer than the last iteration reaches.                                 *)
Simple(p) == \A i, j \in DOMAIN p : p[i] = p[j] => i = j

Extensions(p) ==
    {Append(p, ip) : ip \in Parents(Last(p)) \ (in.unfit \cup Range(p))}

CompletePaths ==
    LET Of[n \in 1 .. MaxDepth + 1] ==
          IF n = 1 THEN {<<in.leaf>>}
          ELSE UNION {Extensions(p) : p \in {q \in Of[n - 1] :
                                               Last(q) \notin in.anchors}}
    IN {p \in UNION {Of[n] : n \in 2 .. MaxDepth + 1} : Last(p) \in in.anchors}

(* Fewest certificates first, then the lexicographic order.                *)
Before(p, q) ==
    \/ Len(p) < Len(q)
    \/ /\ Len(p) = Len(q)
       /\ \E i \in DOMAIN p : /\ p[i] < q[i]
                              /\ \A j \in 1 .. i - 1 : p[j] = q[j]

(* The nodes a search of at most MaxDepth calls enters.                    *)
Entered ==
    LET Open(S) == {n \in UNION {Parents(c) : c \in S} :
                       n \notin in.unfit \cup in.anchors}
        Within[n \in 1 .. MaxDepth] ==
          IF n = 1 THEN {in.leaf}
          ELSE LET entered == Within[n - 1] IN entered \cup Open(entered)
    IN Within[MaxDepth]

------------------------------------------------------------------------------
(* Properties *)

(* The stack is a simple path of admitted edges, and each call on it still *)
(* has only admitted parents to visit.                                     *)
TypeOK ==
    /\ status \in {"start", "search", "accepted", "rejected"}
    /\ depth \in 0 .. MaxDepth
    /\ stack \in Seq(Node) /\ Simple(stack)
    /\ Len(todo) = Len(stack)
    /\ \A i \in DOMAIN todo : todo[i] \subseteq Parents(stack[i])
    /\ Len(stack) <= depth
    /\ winner \in Seq(Node) /\ outcomes \in Seq(Seq(Node))
    /\ edges \subseteq Edge

(* The selected path passes every gate and no other path that does comes   *)
(* before it: fewest certificates, then the smallest sequence of           *)
(* fingerprints (README section 5), although the search stops at the first *)
(* path it finds.                                                          *)
WinnerIsLeast ==
    (status = "accepted" /\ in.leaf \notin in.anchors) =>
        /\ winner \in CompletePaths \ in.refused
        /\ \A p \in CompletePaths \ in.refused : ~ Before(p, winner)

(* A rejection after a search has refused every complete path: none is     *)
(* cut off by a loop, a bound or the order of the visits.                  *)
EveryPathRefused ==
    (status = "rejected" /\ ~ in.expired) =>
        Range(outcomes) = CompletePaths /\ CompletePaths \subseteq in.refused

(* The rejection proof lists the candidate issuers of every certificate    *)
(* the leaf can be traced to.                                              *)
ProofCoversBranches ==
    (status = "rejected" /\ ~ in.expired) =>
        edges = UNION {{c} \X in.cand[c] : c \in Entered}

(* An edge the proof marks with NO_PATH_TO_ANCHOR is on no complete path:  *)
(* what a later candidate path ran over is never called a dead end.        *)
MarkedBranchesAreDead ==
    status = "rejected" =>
        \A p \in CompletePaths, i \in 1 .. MaxDepth :
            i < Len(p) => failure[<<p[i], p[i + 1]>>] # "NO_PATH_TO_ANCHOR"
==============================================================================
