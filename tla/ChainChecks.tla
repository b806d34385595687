------------------------------ MODULE ChainChecks ------------------------------
(***************************************************************************)
(* The whole-path gates of app/chain.py over one complete path: path       *)
(* length, name constraints, extended key usage and, certificate by        *)
(* certificate, the policy tree with its three counters.                   *)
(*                                                                         *)
(* A policy node of the code has an expected set, but it always is the     *)
(* node's own policy: every node is made that way, and the mappings change *)
(* the expected sets of parents only after the kids are made.  (An         *)
(* anyPolicy node expects anyPolicy alone, so no mapping expands it.)  So  *)
(* a node is its policy and its lineage.  Duplicates are merged here at    *)
(* once; the code does it when there are mappings.                         *)
(***************************************************************************)
EXTENDS Integers, Sequences, FiniteSets, FiniteSetsExt

CONSTANTS
    Policy,     \* concrete policies
    AnyPolicy,  \* anyPolicy, 2.5.29.32.0
    Kind,       \* kinds of names: dns, uri
    Name,       \* names; a subtree is the set of the names it covers
    Input       \* paths, from the root to the leaf, with what was asked

(* A limit an extension may set: the set of its value, or empty.           *)
Limit == {S \in SUBSET Nat : \A x, y \in S : x = y}

Cert == [selfIssued : BOOLEAN, ca : BOOLEAN, pathLen : Limit,
         excluded : [Kind -> SUBSET SUBSET Name],
         permitted : [Kind -> SUBSET SUBSET Name],
         eku : {"absent", "codeSigning", "other"},
         policies : SUBSET (Policy \cup {AnyPolicy}),
         mappings : Seq(Policy \X Policy),
         requireExplicit : Limit, inhibitMapping : Limit, inhibitAny : Limit]

(* names are those of the leaf, its common names in place of a missing     *)
(* subject alternative name; user are the initial policies.                *)
ASSUME ChainType ==
    /\ AnyPolicy \notin Policy
    /\ Input \subseteq [path : Seq(Cert) \ {<< >>},
                        names : [Kind -> SUBSET Name],
                        user : SUBSET (Policy \cup {AnyPolicy})]

VARIABLES
    in,           \* the input
    stage,        \* the next thing to do, accepted, or the rule of the refusal
    level,        \* certificates whose policies are processed
    mapped,       \* mappings of the next certificate that are applied
    nodes,        \* the last level of the policy tree
    explicit, inhibitAny, inhibitMap,   \* the counters
    answer        \* user_constrained_policy_set, or {}

vars == <<in, stage, level, mapped, nodes, explicit, inhibitAny, inhibitMap,
          answer>>

tree == <<level, mapped, nodes, explicit, inhibitAny, inhibitMap, answer>>

Size == Len(in.path)
Leaf == in.path[Size]
Node == [policy : Policy \cup {AnyPolicy}, lineage : SUBSET Policy]

------------------------------------------------------------------------------
Init ==
    /\ in \in Input
    /\ stage = "pathLen"
    /\ level = 0
    /\ mapped = 0
    /\ nodes = {[policy |-> AnyPolicy, lineage |-> {}]}
    /\ explicit = Size
    /\ inhibitAny = Size
    /\ inhibitMap = Size + 1
    /\ answer = {}

(* A gate passes the path on or ends with its rule.                        *)
Gate(here, ok, next, rule) ==
    /\ stage = here
    /\ stage' = IF ok THEN next ELSE rule
    /\ UNCHANGED <<in, tree>>

(* Mutant: self-issued certificates are counted too.                       *)
BelowCountingAll(k) == {j \in k + 1 .. Size : in.path[j].ca}
(* The certificates below the k-th that its path length limits.            *)
Below(k) == {j \in k + 1 .. Size : in.path[j].ca /\ ~ in.path[j].selfIssued}

CheckPathLen ==
    Gate("pathLen",
         \A k \in 1 .. Size - 1 :
            \A limit \in in.path[k].pathLen : Cardinality(Below(k)) <= limit,
         "names", "PATH_LEN")

(* Only the names of the leaf are tested, against every issuer.            *)
Outside(ca) ==
    \/ \E k \in Kind, n \in Name :
          /\ n \in in.names[k]
          /\ \/ n \in UNION ca.excluded[k]
             \/ ca.permitted[k] # {} /\ n \notin UNION ca.permitted[k]
    \/ /\ \A k \in Kind : in.names[k] = {}
       /\ \E k \in Kind : ca.permitted[k] # {}

CheckNames ==
    Gate("names", \A k \in 1 .. Size - 1 : ~ Outside(in.path[k]),
         "eku", "NAME_CONSTRAINTS")

CheckEku ==
    Gate("eku",
         /\ Leaf.eku = "codeSigning"
         /\ \A k \in 1 .. Size - 1 : in.path[k].eku # "other",
         "match", "EKU")

------------------------------------------------------------------------------
(* process_policies: an iteration of the loop is Match, a Map for each     *)
(* mapping and Adopt, or it ends the processing.                           *)

Cur == in.path[level + 1]

MappingInhibited ==
    /\ stage = "match"
    /\ inhibitMap = 0 /\ Cur.mappings # << >>
    /\ Gate("match", FALSE, "map", "MAPPING_INHIBITED")

(* Mutant: self-issued certificates are held to inhibitAnyPolicy too.      *)
AnyAdmittedStrictly == level = 0 \/ inhibitAny > 0
AnyAdmitted == level = 0 \/ Cur.selfIssued \/ inhibitAny > 0

(* Mutant: the lineage lags behind the policy.                             *)
NamedLagging(p) ==
    {[policy |-> p, lineage |-> nd.lineage] :
        nd \in {x \in nodes : x.policy \in {AnyPolicy, p}}}
(* A policy extends the nodes that stand for it or for any policy.         *)
Named(p) ==
    {[policy |-> p, lineage |-> nd.lineage \cup {p}] :
        nd \in {x \in nodes : x.policy \in {AnyPolicy, p}}}

(* anyPolicy keeps the concrete nodes, and an anyPolicy node if admitted.  *)
Kept ==
    IF AnyPolicy \in Cur.policies
      THEN {nd \in nodes : nd.policy = AnyPolicy => AnyAdmitted} ELSE {}

(* Mutant: the tree outlasts a certificate that says nothing of it.        *)
KidsOutlasting == nodes \cup UNION {Named(p) : p \in Cur.policies \ {AnyPolicy}}
Kids == Kept \cup UNION {Named(p) : p \in Cur.policies \ {AnyPolicy}}

Match ==
    /\ stage = "match"
    /\ inhibitMap = 0 => Cur.mappings = << >>
    /\ stage' = "map"
    /\ nodes' = Kids
    /\ mapped' = 0
    /\ UNCHANGED <<in, level, explicit, inhibitAny, inhibitMap, answer>>

(* Mappings move nodes one after the other, in sorted order.               *)
Moved(nd, m) ==
    IF nd.policy = m[1]
      THEN [policy |-> m[2], lineage |-> nd.lineage \cup {m[1], m[2]}]
      ELSE nd

Map ==
    /\ stage = "map"
    /\ mapped < Len(Cur.mappings)
    /\ mapped' = mapped + 1
    /\ nodes' = {Moved(nd, Cur.mappings[mapped + 1]) : nd \in nodes}
    /\ UNCHANGED <<in, stage, level, explicit, inhibitAny, inhibitMap, answer>>

(* anyPolicy is suppressed once more after the mappings.                   *)
Surviving == {nd \in nodes : nd.policy = AnyPolicy => AnyAdmitted}

Processed == stage = "map" /\ mapped = Len(Cur.mappings)

TreeEmpty ==
    /\ Processed
    /\ Surviving = {}
    /\ Gate("map", FALSE, "match", "TREE_EMPTY")

(* Mutant: the certificate's own limit is adopted, then consumed.          *)
AfterAdopting(counter, limit) ==
    LET least == Min({counter} \cup limit)
    IN IF Cur.selfIssued \/ least = 0 THEN least ELSE least - 1
(* Mutant: a later limit replaces an earlier one.                          *)
AfterReplacing(counter, limit) ==
    LET left == IF Cur.selfIssued \/ counter = 0 THEN counter ELSE counter - 1
    IN IF limit = {} THEN left ELSE Min(limit)
(* A level is consumed, then the certificate's own limit adopted.          *)
After(counter, limit) ==
    LET left == IF Cur.selfIssued \/ counter = 0 THEN counter ELSE counter - 1
    IN Min({left} \cup limit)

Adopt ==
    /\ Processed
    /\ Surviving # {}
    /\ nodes' = Surviving
    /\ explicit' = After(explicit, Cur.requireExplicit)
    /\ inhibitAny' = After(inhibitAny, Cur.inhibitAny)
    /\ inhibitMap' = After(inhibitMap, Cur.inhibitMapping)
    /\ level' = level + 1
    /\ stage' = IF level + 1 = Size THEN "wrapUp" ELSE "match"
    /\ UNCHANGED <<in, mapped, answer>>

(* The union of all lineages answers for what was asked; an anyPolicy leaf *)
(* does for everything unless a policy must be explicit.                   *)
Acceptable ==
    LET concrete == UNION {nd.lineage : nd \in nodes}
        anyLeaf == \E nd \in nodes : nd.policy = AnyPolicy
    IN IF in.user = {AnyPolicy}
         THEN concrete \cup (IF anyLeaf THEN {AnyPolicy} ELSE {})
         ELSE (concrete \cap in.user)
              \cup (IF anyLeaf /\ explicit > 0 THEN in.user ELSE {})

WrapUp ==
    /\ stage = "wrapUp"
    /\ answer' = Acceptable
    /\ stage' = IF answer' = {} THEN "NO_POLICY" ELSE "accepted"
    /\ UNCHANGED <<in, level, mapped, nodes, explicit, inhibitAny, inhibitMap>>

Next == \/ CheckPathLen \/ CheckNames \/ CheckEku
        \/ MappingInhibited \/ Match \/ Map \/ TreeEmpty \/ Adopt \/ WrapUp

Spec == Init /\ [][Next]_vars

------------------------------------------------------------------------------
(* What the gates are meant to say *)

Gates == {"pathLen", "names", "eku"}
Verdicts == {"accepted", "PATH_LEN", "NAME_CONSTRAINTS", "EKU",
             "MAPPING_INHIBITED", "TREE_EMPTY", "NO_POLICY"}

Floor(n) == IF n < 0 THEN 0 ELSE n

(* Levels the certificates a .. b consume.                                 *)
Consumed(a, b) == Cardinality({j \in a .. b : ~ in.path[j].selfIssued})

(* The limits that the certificates set, per counter.                      *)
ExplicitLimits == [h \in 1 .. Size |-> in.path[h].requireExplicit]
AnyLimits == [h \in 1 .. Size |-> in.path[h].inhibitAny]
MapLimits == [h \in 1 .. Size |-> in.path[h].inhibitMapping]

(* A limit set by an earlier certificate is used up before the i-th.       *)
DueBefore(i, limits) ==
    \E h \in 1 .. i - 1 : \E k \in limits[h] : k <= Consumed(h + 1, i - 1)

(* RFC 5280 6.1.4 (l), (m): what is left of the path length below the      *)
(* first i certificates, and the path is too long if it runs out.          *)
RoomBelow[i \in 0 .. Size] ==
    IF i = 0 THEN Size
    ELSE Min({IF in.path[i].selfIssued THEN RoomBelow[i - 1]
              ELSE RoomBelow[i - 1] - 1} \cup in.path[i].pathLen)

TooLong == \E i \in 1 .. Size - 1 :
              ~ in.path[i].selfIssued /\ RoomBelow[i - 1] <= 0

(* The first i certificates all assert anyPolicy, and none of them after   *)
(* it was inhibited.                                                       *)
AnyOpenTo(i) ==
    \A j \in 1 .. i :
       /\ AnyPolicy \in in.path[j].policies
       /\ j = 1 \/ in.path[j].selfIssued \/ ~ DueBefore(j, AnyLimits)

(* Without mappings: one certificate asserts p where any policy was still  *)
(* open, every later one asserts p or anyPolicy.                           *)
ChainWide(p) ==
    \E i \in 1 .. Size :
       /\ AnyOpenTo(i - 1)
       /\ p \in in.path[i].policies
       /\ \A j \in i + 1 .. Size : in.path[j].policies \cap {p, AnyPolicy} # {}

MustBeExplicit ==
    DueBefore(Size + 1, ExplicitLimits) \/ Consumed(1, Size) = Size

Granted ==
    IF in.user = {AnyPolicy}
      THEN {p \in Policy : ChainWide(p)}
           \cup {p \in {AnyPolicy} : AnyOpenTo(Size)}
      ELSE {p \in in.user : \/ p # AnyPolicy /\ ChainWide(p)
                            \/ AnyOpenTo(Size) /\ ~ MustBeExplicit}

(* Policies no mapping on the path leads out of or into.                   *)
Closed(S) ==
    \A i \in 1 .. Size : \A k \in DOMAIN in.path[i].mappings :
       LET m == in.path[i].mappings[k] IN m[1] \in S <=> m[2] \in S

------------------------------------------------------------------------------
(* Properties *)

TypeOK ==
    /\ in \in Input
    /\ stage \in Gates \cup {"match", "map", "wrapUp"} \cup Verdicts
    /\ level \in 0 .. Size
    /\ stage \in Gates \cup {"match", "map"} => level < Size
    /\ stage = "wrapUp" => level = Size
    /\ mapped \in Nat
    /\ stage = "map" => mapped <= Len(Cur.mappings)
    /\ nodes \subseteq Node
    /\ \A nd \in nodes : nd.policy # AnyPolicy => nd.policy \in nd.lineage
    /\ explicit \in Nat /\ inhibitAny \in Nat /\ inhibitMap \in Nat
    /\ answer \subseteq Policy \cup {AnyPolicy}

(* check_path_len, which counts below every CA anew, refuses the paths on  *)
(* which RFC 5280's single running count runs out - as long as the leaf is *)
(* not itself a CA: the code counts such a leaf, the RFC does not.         *)
PathLenAsRFC ==
    (/\ \A i \in 1 .. Size - 1 : in.path[i].ca
     /\ ~ Leaf.ca) =>
       /\ stage = "PATH_LEN" => TooLong
       /\ stage \notin {"pathLen", "PATH_LEN"} => ~ TooLong

(* Each counter is what the most pressing of the limits seen so far leaves *)
(* after the levels consumed since: no limit is lost, revived or shared    *)
(* between the counters, and a certificate does not consume its own.       *)
CountersAreDue ==
    LET Left(initial, limits) ==
          Min({Floor(initial - Consumed(1, level))} \cup
              UNION {{Floor(k - Consumed(h + 1, level)) : k \in limits[h]} :
                        h \in 1 .. level})
    IN /\ explicit = Left(Size, ExplicitLimits)
       /\ inhibitAny = Left(Size, AnyLimits)
       /\ inhibitMap = Left(Size + 1, MapLimits)

(* On a path without mappings the answer of the tree, with its nodes,      *)
(* lineages and counters, is the one that can be read off the certificates *)
(* without it.                                                             *)
PlainAnswer ==
    (/\ stage \in {"accepted", "TREE_EMPTY", "NO_POLICY"}
     /\ \A i \in 1 .. Size : in.path[i].mappings = << >>) =>
       answer = Granted

(* Every certificate of an accepted path stands for every policy of the    *)
(* answer: it asserts anyPolicy, or a policy that the mappings of the path *)
(* connect with it.                                                        *)
AnswerIsConnected ==
    stage = "accepted" =>
       \A p \in answer \ {AnyPolicy}, S \in SUBSET Policy :
          p \in S /\ Closed(S) =>
             \A i \in 1 .. Size :
                in.path[i].policies \cap (S \cup {AnyPolicy}) # {}

(* No mapping of an accepted path stands where an earlier certificate had  *)
(* inhibited it.                                                           *)
NoInhibitedMapping ==
    stage = "accepted" =>
       \A i \in 1 .. Size :
          DueBefore(i, MapLimits) => in.path[i].mappings = << >>

==============================================================================
