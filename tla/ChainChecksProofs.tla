-------------------------- MODULE ChainChecksProofs --------------------------
(***************************************************************************)
(* Proofs about ChainChecks, for paths of any length with any policies,    *)
(* mappings and limits.                                                    *)
(***************************************************************************)
EXTENDS ChainChecks, FiniteSetTheorems, WellFoundedInduction, TLAPS

(* The fields of the input that the proofs use.                            *)
LEMMA InputFields ==
    ASSUME in \in Input
    PROVE  /\ Size \in Nat \ {0}
           /\ in.user \subseteq Policy \cup {AnyPolicy}
           /\ \A i \in 1 .. Size :
                 /\ in.path[i].policies \subseteq Policy \cup {AnyPolicy}
                 /\ in.path[i].mappings \in Seq(Policy \X Policy)
                 /\ in.path[i].selfIssued \in BOOLEAN
                 /\ in.path[i].requireExplicit \in Limit
                 /\ in.path[i].inhibitMapping \in Limit
                 /\ in.path[i].inhibitAny \in Limit
  <1>1. in.path \in Seq(Cert) \ {<< >>} /\ in.user \subseteq Policy \cup {AnyPolicy}
    BY ChainType
  <1>2. Size \in Nat \ {0}
    BY <1>1 DEF Size
  <1>3. \A i \in 1 .. Size : in.path[i] \in Cert
    BY <1>1 DEF Size
  <1> QED
    BY <1>1, <1>2, <1>3 DEF Cert

(* The least of a counter and a limit.                                     *)
LEMMA LeastType ==
    ASSUME NEW n \in Nat, NEW L \in Limit
    PROVE  /\ Min({n} \cup L) \in Nat /\ Min({n} \cup L) \in {n} \cup L
           /\ Min({n} \cup L) <= n
           /\ \A k \in L : Min({n} \cup L) <= k
  <1>1. \E x \in {n} \cup L : \A y \in {n} \cup L : x <= y
    <2>1. CASE L = {}
      BY <2>1
    <2>2. CASE L # {}
      <3>1. PICK k \in Nat : L = {k}
        BY <2>2 DEF Limit
      <3>2. CASE k <= n
        BY <3>1, <3>2
      <3>3. CASE n <= k
        BY <3>1, <3>3
      <3> QED
        BY <3>1, <3>2, <3>3
    <2> QED
      BY <2>1, <2>2
  <1>2. Min({n} \cup L) \in {n} \cup L
        /\ \A y \in {n} \cup L : Min({n} \cup L) <= y
    BY <1>1 DEF Min
  <1> QED
    BY <1>2 DEF Limit

LEMMA AfterType ==
    ASSUME in \in Input, level \in Nat, level < Size,
           NEW n \in Nat, NEW L \in Limit
    PROVE  After(n, L) \in Nat
  <1>1. (IF Cur.selfIssued \/ n = 0 THEN n ELSE n - 1) \in Nat
    OBVIOUS
  <1> QED
    BY <1>1, LeastType DEF After

------------------------------------------------------------------------------
(* Types *)

LEMMA CurFields ==
    ASSUME in \in Input, level \in Nat, level < Size
    PROVE  /\ Cur.policies \subseteq Policy \cup {AnyPolicy}
           /\ Cur.mappings \in Seq(Policy \X Policy)
           /\ Cur.requireExplicit \in Limit
           /\ Cur.inhibitMapping \in Limit
           /\ Cur.inhibitAny \in Limit
           /\ Size \in Nat
  BY InputFields DEF Cur

LEMMA KidsType ==
    ASSUME in \in Input, level \in Nat, level < Size, nodes \subseteq Node,
           \A nd \in nodes : nd.policy # AnyPolicy => nd.policy \in nd.lineage
    PROVE  /\ Kids \subseteq Node
           /\ \A nd \in Kids : nd.policy # AnyPolicy => nd.policy \in nd.lineage
  <1>1. Kept \subseteq nodes
    BY DEF Kept
  <1>2. ASSUME NEW p \in Cur.policies \ {AnyPolicy}
        PROVE  \A nd \in Named(p) : nd \in Node /\ nd.policy \in nd.lineage
    BY <1>2, CurFields DEF Named, Node
  <1> QED
    BY <1>1, <1>2 DEF Kids

LEMMA MovedType ==
    ASSUME NEW nd \in Node, NEW m \in Policy \X Policy,
           nd.policy # AnyPolicy => nd.policy \in nd.lineage
    PROVE  /\ Moved(nd, m) \in Node
           /\ Moved(nd, m).policy # AnyPolicy =>
                 Moved(nd, m).policy \in Moved(nd, m).lineage
  BY DEF Moved, Node

LEMMA GateKeepsTypes ==
    ASSUME TypeOK, NEW here, NEW ok, NEW next, NEW rule,
           Gate(here, ok, next, rule),
           here \in Gates \cup {"match", "map"},
           next \in Gates \cup {"match"} \/ ok = FALSE, rule \in Verdicts
    PROVE  TypeOK'
  BY DEF TypeOK, Gate, tree, Gates, Verdicts, Size, Cur, Node

(* Every state is one of the types the variables are declared to have.     *)
THEOREM TypeCorrect == Spec => []TypeOK
  <1>1. Init => TypeOK
    <2> SUFFICES ASSUME Init PROVE TypeOK
      OBVIOUS
    <2> QED
      BY InputFields DEF Init, TypeOK, Gates, Verdicts, Node
  <1>2. TypeOK /\ [Next]_vars => TypeOK'
    <2> SUFFICES ASSUME TypeOK, [Next]_vars PROVE TypeOK'
      OBVIOUS
    <2>0. in \in Input /\ level \in Nat /\ Size \in Nat
      BY InputFields DEF TypeOK
    <2>1. CASE CheckPathLen \/ CheckNames \/ CheckEku
      BY <2>1, GateKeepsTypes DEF CheckPathLen, CheckNames, CheckEku, Gates, Verdicts
    <2>2. CASE MappingInhibited \/ TreeEmpty
      BY <2>2, GateKeepsTypes DEF MappingInhibited, TreeEmpty, Gates, Verdicts
    <2>3. CASE Match
      <3>1. level < Size /\ level' = level /\ in' = in /\ Size' = Size
        BY <2>3 DEF Match, TypeOK, Size
      <3>2. Cur.mappings \in Seq(Policy \X Policy) /\ Cur' = Cur
        BY <2>0, <3>1, CurFields DEF Cur
      <3>3. /\ nodes' \subseteq Node
            /\ \A nd \in nodes' : nd.policy # AnyPolicy => nd.policy \in nd.lineage
        BY <2>0, <2>3, <3>1, KidsType DEF TypeOK, Match
      <3> QED
        BY <2>3, <3>1, <3>2, <3>3 DEF Match, TypeOK, Gates, Verdicts
    <2>4. CASE Map
      <3>1. level < Size /\ level' = level /\ in' = in /\ Size' = Size
        BY <2>4 DEF Map, TypeOK, Size
      <3>2. Cur.mappings \in Seq(Policy \X Policy) /\ Cur' = Cur
        BY <2>0, <3>1, CurFields DEF Cur
      <3>3. mapped \in Nat /\ mapped + 1 \in 1 .. Len(Cur.mappings)
        BY <2>4, <3>2 DEF Map, TypeOK
      <3>4. Cur.mappings[mapped + 1] \in Policy \X Policy
        BY <3>2, <3>3
      <3>5. /\ nodes' \subseteq Node
            /\ \A nd \in nodes' : nd.policy # AnyPolicy => nd.policy \in nd.lineage
        BY <2>4, <3>4, MovedType DEF TypeOK, Map
      <3> QED
        BY <2>4, <3>1, <3>2, <3>3, <3>5 DEF Map, TypeOK, Gates, Verdicts
    <2>5. CASE Adopt
      <3>1. level < Size /\ in' = in /\ Size' = Size /\ level' = level + 1
        BY <2>5 DEF Adopt, Processed, TypeOK, Size
      <3>2. explicit' \in Nat /\ inhibitAny' \in Nat /\ inhibitMap' \in Nat
        BY <2>0, <2>5, <3>1, CurFields, AfterType DEF Adopt, TypeOK
      <3>3. nodes' \subseteq nodes
        BY <2>5 DEF Adopt, Surviving
      <3> QED
        BY <2>0, <2>5, <3>1, <3>2, <3>3 DEF Adopt, TypeOK, Gates, Verdicts
    <2>6. CASE WrapUp
      <3>1. Acceptable \subseteq Policy \cup {AnyPolicy}
        BY <2>0, InputFields DEF Acceptable, TypeOK, Node
      <3> QED
        BY <2>6, <3>1 DEF WrapUp, TypeOK, Gates, Verdicts, Size
    <2>7. CASE UNCHANGED vars
      BY <2>7 DEF vars, TypeOK, Size, Cur
    <2> QED
      BY <2>1, <2>2, <2>3, <2>4, <2>5, <2>6, <2>7 DEF Next
  <1> QED
    BY <1>1, <1>2, PTL DEF Spec

------------------------------------------------------------------------------
(* What a node of the policy tree says of the certificates it was made of  *)

Seen == IF stage = "map" THEN level + 1 ELSE level

(* An anyPolicy node has no lineage, and all certificates so far assert    *)
(* anyPolicy.                                                              *)
AnyIsAsserted(nd) ==
    nd.policy = AnyPolicy =>
       /\ nd.lineage = {}
       /\ \A i \in 1 .. Seen : AnyPolicy \in in.path[i].policies

(* The lineage of a node is connected with its policy, and the policy with *)
(* every certificate so far.                                               *)
Supported(nd, S) ==
    Closed(S) =>
       /\ nd.lineage \cap S # {} => nd.policy \in S
       /\ nd.policy \in S =>
            \A i \in 1 .. Seen : in.path[i].policies \cap (S \cup {AnyPolicy}) # {}

(* The inductive invariant behind AnswerIsConnected.                       *)
Rooted ==
    /\ \A nd \in nodes : AnyIsAsserted(nd) /\ \A S \in SUBSET Policy : Supported(nd, S)
    /\ AnswerIsConnected

LEMMA RootedInit == Init => Rooted
  <1> SUFFICES ASSUME Init PROVE Rooted
    OBVIOUS
  <1>1. Seen = 0 /\ answer = {} /\ stage # "accepted"
    BY DEF Init, Seen
  <1> QED
    BY <1>1, ChainType DEF Init, Rooted, AnyIsAsserted, Supported, AnswerIsConnected

(* Steps that change neither the tree nor what is seen of the path.        *)
LEMMA RootedStutter ==
    ASSUME Rooted, in' = in, 1 .. Seen' \subseteq 1 .. Seen,
           nodes' \subseteq nodes, stage' # "accepted"
    PROVE  Rooted'
  <1>1. \A S : Closed(S)' <=> Closed(S)
    BY DEF Closed, Size
  <1>2. ASSUME NEW nd \in nodes'
        PROVE  AnyIsAsserted(nd)' /\ \A S \in SUBSET Policy : Supported(nd, S)'
    BY <1>1, <1>2 DEF Rooted, AnyIsAsserted, Supported
  <1> QED
    BY <1>2 DEF Rooted, AnswerIsConnected

(* A kid is as well supported as its parent, and by one certificate more.  *)
LEMMA KidsRooted ==
    ASSUME TypeOK, Rooted, Match
    PROVE  Rooted'
  <1>1. /\ in' = in /\ level \in Nat /\ Seen = level /\ Seen' = level + 1
        /\ nodes' = Kids /\ Cur = in.path[level + 1]
        /\ Cur.policies \subseteq Policy \cup {AnyPolicy}
    <2>1. in \in Input /\ level \in Nat /\ level < Size
      BY InputFields DEF Match, TypeOK
    <2> QED
      BY <2>1, CurFields DEF Match, Seen, Cur
  <1>2. \A S : Closed(S)' <=> Closed(S)
    BY <1>1 DEF Closed, Size
  <1>3. \A i \in 1 .. Seen' : i \in 1 .. Seen \/ in.path[i] = Cur
    BY <1>1
  <1>4. ASSUME NEW nd \in Kept
        PROVE  AnyIsAsserted(nd)' /\ \A S \in SUBSET Policy : Supported(nd, S)'
    <2>1. nd \in nodes /\ AnyPolicy \in Cur.policies
      BY <1>4 DEF Kept
    <2> QED
      BY <2>1, <1>1, <1>2, <1>3 DEF Rooted, AnyIsAsserted, Supported
  <1>5. ASSUME NEW p \in Cur.policies \ {AnyPolicy}, NEW nd \in Named(p)
        PROVE  AnyIsAsserted(nd)' /\ \A S \in SUBSET Policy : Supported(nd, S)'
    <2>1. PICK x \in nodes : /\ x.policy \in {AnyPolicy, p}
                             /\ nd.policy = p /\ nd.lineage = x.lineage \cup {p}
      BY <1>5 DEF Named
    <2>2. AnyIsAsserted(nd)'
      BY <2>1 DEF AnyIsAsserted
    <2>3. ASSUME NEW S \in SUBSET Policy, Closed(S)
          PROVE  nd.lineage \cap S # {} => p \in S
      BY <2>1, <2>3 DEF Rooted, AnyIsAsserted, Supported
    <2>4. ASSUME NEW S \in SUBSET Policy, Closed(S), p \in S, NEW i \in 1 .. Seen'
          PROVE  in.path[i].policies \cap (S \cup {AnyPolicy}) # {}
      <3>1. CASE in.path[i] = Cur
        BY <1>5, <2>4, <3>1
      <3>2. CASE i \in 1 .. Seen
        BY <2>1, <2>4, <3>2 DEF Rooted, AnyIsAsserted, Supported
      <3> QED
        BY <1>3, <3>1, <3>2
    <2> QED
      BY <1>1, <1>2, <2>1, <2>2, <2>3, <2>4 DEF Supported
  <1>6. stage' # "accepted"
    BY DEF Match
  <1> QED
    BY <1>1, <1>4, <1>5, <1>6 DEF Kids, Rooted, AnswerIsConnected

(* A mapping moves a node within every set it does not lead out of.        *)
LEMMA MovedRooted ==
    ASSUME TypeOK, Rooted, Map
    PROVE  Rooted'
  <1> DEFINE m == Cur.mappings[mapped + 1]
  <1>1. /\ in \in Input /\ level \in Nat /\ level < Size
        /\ level + 1 \in 1 .. Size /\ mapped \in Nat
    BY InputFields DEF Map, TypeOK
  <1>2. Cur.mappings \in Seq(Policy \X Policy) /\ mapped + 1 \in DOMAIN Cur.mappings
    <2>1. Cur.mappings \in Seq(Policy \X Policy)
      BY <1>1, CurFields
    <2> QED
      BY <1>1, <2>1 DEF Map
  <1>3. m \in Policy \X Policy
    BY <1>2
  <1>4. \A S : Closed(S) => (m[1] \in S <=> m[2] \in S)
    BY <1>1, <1>2 DEF Closed, Cur
  <1>5. /\ in' = in /\ Seen' = Seen /\ stage' # "accepted"
        /\ nodes' = {Moved(nd, m) : nd \in nodes}
    BY DEF Map, Seen
  <1>6. \A S : Closed(S)' <=> Closed(S)
    BY <1>5 DEF Closed, Size
  <1>7. ASSUME NEW nd \in nodes, NEW y, y = Moved(nd, m)
        PROVE  AnyIsAsserted(y)' /\ \A S \in SUBSET Policy : Supported(y, S)'
    <2>1. AnyIsAsserted(nd) /\ \A S \in SUBSET Policy : Supported(nd, S)
      BY <1>7 DEF Rooted
    <2>2. CASE nd.policy # m[1]
      <3>1. y = nd
        BY <1>7, <2>2 DEF Moved
      <3> QED
        BY <1>5, <1>6, <2>1, <3>1 DEF AnyIsAsserted, Supported
    <2>3. CASE nd.policy = m[1]
      <3>1. /\ y.policy = m[2] /\ y.policy # AnyPolicy
            /\ y.lineage = nd.lineage \cup {m[1], m[2]}
        BY <1>3, <1>7, <2>3, ChainType DEF Moved
      <3>2. ASSUME NEW S \in SUBSET Policy, Closed(S)
            PROVE  /\ y.lineage \cap S # {} => y.policy \in S
                   /\ y.policy \in S => \A i \in 1 .. Seen :
                        in.path[i].policies \cap (S \cup {AnyPolicy}) # {}
        BY <1>4, <2>1, <2>3, <3>1, <3>2 DEF Supported
      <3> QED
        BY <1>5, <1>6, <3>1, <3>2 DEF AnyIsAsserted, Supported
    <2> QED
      BY <2>2, <2>3
  <1>8. ASSUME NEW y \in nodes'
        PROVE  AnyIsAsserted(y)' /\ \A S \in SUBSET Policy : Supported(y, S)'
    <2>1. PICK nd \in nodes : y = Moved(nd, m)
      BY <1>5, <1>8
    <2> QED
      BY <1>7, <2>1
  <1> QED
    BY <1>5, <1>8 DEF Rooted, AnswerIsConnected

(* The answer comes from lineages, or every certificate asserts anyPolicy. *)
LEMMA WrapUpRooted ==
    ASSUME TypeOK, Rooted, WrapUp
    PROVE  Rooted'
  <1>1. /\ in' = in /\ nodes' = nodes /\ Seen' = Seen /\ Seen = Size
        /\ answer' = Acceptable
    BY DEF WrapUp, TypeOK, Seen
  <1>2. \A S : Closed(S)' <=> Closed(S)
    BY <1>1 DEF Closed, Size
  <1>3. \A nd \in nodes' :
           AnyIsAsserted(nd)' /\ \A S \in SUBSET Policy : Supported(nd, S)'
    BY <1>1, <1>2 DEF Rooted, AnyIsAsserted, Supported
  <1>4. ASSUME NEW p \in Acceptable \ {AnyPolicy}, NEW S \in SUBSET Policy,
               p \in S, Closed(S), NEW i \in 1 .. Size
        PROVE  in.path[i].policies \cap (S \cup {AnyPolicy}) # {}
    <2>1. CASE \E nd \in nodes : p \in nd.lineage
      BY <1>1, <1>4, <2>1 DEF Rooted, Supported
    <2>2. CASE \E nd \in nodes : nd.policy = AnyPolicy
      BY <1>1, <1>4, <2>2 DEF Rooted, AnyIsAsserted
    <2> QED
      BY <1>4, <2>1, <2>2 DEF Acceptable
  <1>5. AnswerIsConnected'
    BY <1>1, <1>2, <1>4 DEF AnswerIsConnected, Size
  <1> QED
    BY <1>3, <1>5 DEF Rooted

(* Every certificate of an accepted path stands for every policy of the    *)
(* answer.                                                                 *)
THEOREM AnswersAreConnected == Spec => []AnswerIsConnected
  <1>1. TypeOK /\ Rooted /\ [Next]_vars => Rooted'
    <2> SUFFICES ASSUME TypeOK, Rooted, [Next]_vars PROVE Rooted'
      OBVIOUS
    <2>1. CASE CheckPathLen \/ CheckNames \/ CheckEku \/ MappingInhibited
      BY <2>1, RootedStutter
      DEF CheckPathLen, CheckNames, CheckEku, MappingInhibited, Gate, tree, Seen
    <2>2. CASE TreeEmpty
      <3>1. level \in Nat /\ nodes' = nodes /\ in' = in /\ stage' = "TREE_EMPTY"
            /\ Seen' = level /\ Seen = level + 1
        BY <2>2 DEF TreeEmpty, Processed, Gate, tree, TypeOK, Seen
      <3> QED
        BY <3>1, RootedStutter
    <2>3. CASE Adopt
      <3>1. nodes' \subseteq nodes /\ in' = in /\ Seen' = Seen /\ stage' # "accepted"
        BY <2>3 DEF Adopt, Surviving, Seen, Processed
      <3> QED
        BY <3>1, RootedStutter
    <2>4. CASE UNCHANGED vars
      BY <2>4 DEF vars, Rooted, AnyIsAsserted, Supported, Closed, Seen, Size,
         AnswerIsConnected
    <2> QED
      BY <2>1, <2>2, <2>3, <2>4, KidsRooted, MovedRooted, WrapUpRooted DEF Next
  <1>2. Rooted => AnswerIsConnected
    BY DEF Rooted
  <1> QED
    BY <1>1, <1>2, RootedInit, TypeCorrect, PTL DEF Spec

------------------------------------------------------------------------------
(* The counter of inhibited mappings *)

LEMMA ConsumedType ==
    ASSUME NEW a \in Nat, NEW b \in Nat
    PROVE  /\ Consumed(a, b) \in Nat
           /\ b < a => Consumed(a, b) = 0
  <1> DEFINE C == {j \in a .. b : ~ in.path[j].selfIssued}
  <1>1. IsFiniteSet(a .. b)
    BY FS_Interval
  <1>2. IsFiniteSet(C)
    BY <1>1, FS_Subset, C \subseteq a .. b
  <1>3. b < a => C = {}
    OBVIOUS
  <1>4. Cardinality(C) \in Nat
    BY <1>2, FS_CardinalityType
  <1> QED
    BY <1>3, <1>4, FS_EmptySet DEF Consumed

(* A certificate more consumes a level unless it is self-issued.           *)
LEMMA ConsumedNext ==
    ASSUME NEW a \in Nat, NEW b \in Nat, a <= b + 1
    PROVE  Consumed(a, b + 1) = IF in.path[b + 1].selfIssued THEN Consumed(a, b)
                                ELSE Consumed(a, b) + 1
  <1> DEFINE C == {j \in a .. b : ~ in.path[j].selfIssued}
             D == {j \in a .. b + 1 : ~ in.path[j].selfIssued}
  <1>1. IsFiniteSet(C)
    <2>1. IsFiniteSet(a .. b)
      BY FS_Interval
    <2> QED
      BY <2>1, FS_Subset, C \subseteq a .. b
  <1>2. a .. b + 1 = (a .. b) \cup {b + 1} /\ b + 1 \notin a .. b
    OBVIOUS
  <1>3. CASE in.path[b + 1].selfIssued
    <2>1. D = C
      BY <1>2, <1>3
    <2> QED
      BY <2>1, <1>3 DEF Consumed
  <1>4. CASE ~ in.path[b + 1].selfIssued
    <2>1. D = C \cup {b + 1} /\ b + 1 \notin C
      BY <1>2, <1>4
    <2>2. Cardinality(D) = Cardinality(C) + 1
      BY <1>1, <2>1, FS_AddElement
    <2> QED
      BY <2>2, <1>4 DEF Consumed
  <1> QED
    BY <1>3, <1>4

(* The counter runs out no later than any limit seen so far.               *)
Pressing ==
    \A h \in 1 .. level : \A k \in in.path[h].inhibitMapping :
       inhibitMap = 0 \/ inhibitMap + Consumed(h + 1, level) <= k

(* The inductive invariant behind NoInhibitedMapping.                      *)
Heeded ==
    /\ Pressing
    /\ \A i \in 1 .. Seen :
          DueBefore(i, MapLimits) => in.path[i].mappings = << >>

LEMMA HeededInit == Init => Heeded
  BY DEF Init, Heeded, Pressing, Seen

LEMMA HeededStutter ==
    ASSUME Heeded, in' = in, 1 .. Seen' \subseteq 1 .. Seen, level' = level,
           inhibitMap' = inhibitMap
    PROVE  Heeded'
  BY DEF Heeded, Pressing, DueBefore, Consumed, MapLimits, Size

(* A certificate with mappings is matched only while the counter runs.     *)
LEMMA HeededMatch ==
    ASSUME TypeOK, Heeded, Match
    PROVE  Heeded'
  <1>1. /\ in \in Input /\ level \in Nat /\ level < Size /\ Size \in Nat
        /\ inhibitMap \in Nat
    BY InputFields DEF Match, TypeOK
  <1>2. /\ in' = in /\ level' = level /\ inhibitMap' = inhibitMap
        /\ Seen = level /\ Seen' = level + 1
    BY DEF Match, Seen
  <1>3. ASSUME DueBefore(level + 1, MapLimits), Cur.mappings # << >>
        PROVE  FALSE
    <2>0. PICK h \in 1 .. level :
             \E k \in in.path[h].inhibitMapping : k <= Consumed(h + 1, level)
      <3>1. level + 1 - 1 = level
        BY <1>1
      <3>2. \E h \in 1 .. level + 1 - 1 :
               \E k \in in.path[h].inhibitMapping : k <= Consumed(h + 1, level + 1 - 1)
        BY <1>1, <1>3 DEF DueBefore, MapLimits
      <3> QED
        BY <3>1, <3>2, Zenon
    <2>1. PICK k \in in.path[h].inhibitMapping : k <= Consumed(h + 1, level)
      BY <2>0
    <2>2. k \in Nat /\ h \in Nat
      BY <1>1, InputFields DEF Limit
    <2>3. Consumed(h + 1, level) \in Nat
      BY <1>1, <2>2, ConsumedType
    <2>4. inhibitMap # 0
      BY <1>3 DEF Match
    <2>5. inhibitMap + Consumed(h + 1, level) <= k
      BY <2>4 DEF Heeded, Pressing
    <2> QED
      BY <1>1, <2>1, <2>2, <2>3, <2>4, <2>5
  <1>4. ASSUME NEW i \in 1 .. Seen', DueBefore(i, MapLimits)
        PROVE  in.path[i].mappings = << >>
    <2>1. CASE i \in 1 .. level
      BY <1>2, <1>4, <2>1 DEF Heeded
    <2>2. CASE i = level + 1
      BY <1>3, <1>4, <2>2 DEF Cur
    <2> QED
      BY <1>1, <1>2, <2>1, <2>2
  <1>5. Pressing'
    BY <1>2 DEF Heeded, Pressing, Consumed
  <1>6. \A i : DueBefore(i, MapLimits)' <=> DueBefore(i, MapLimits)
    BY <1>2 DEF DueBefore, Consumed, MapLimits, Size
  <1> QED
    BY <1>2, <1>4, <1>5, <1>6 DEF Heeded

(* The counter and what is consumed below a limit keep their sum.          *)
LEMMA HeededAdopt ==
    ASSUME TypeOK, Heeded, Adopt
    PROVE  Heeded'
  <1> DEFINE left == IF Cur.selfIssued \/ inhibitMap = 0
                       THEN inhibitMap ELSE inhibitMap - 1
  <1>1. /\ in \in Input /\ level \in Nat /\ level < Size /\ Size \in Nat
        /\ inhibitMap \in Nat /\ left \in Nat
    BY InputFields DEF Adopt, Processed, TypeOK
  <1>2. /\ in' = in /\ level' = level + 1 /\ Seen = level + 1 /\ Seen' = level + 1
        /\ Cur.inhibitMapping \in Limit
        /\ inhibitMap' = Min({left} \cup Cur.inhibitMapping)
    BY <1>1, CurFields DEF Adopt, Processed, Seen, After
  <1>3. /\ inhibitMap' \in Nat /\ inhibitMap' <= left
        /\ \A k \in Cur.inhibitMapping : inhibitMap' <= k
    BY <1>1, <1>2, LeastType
  <1>4. ASSUME NEW h \in 1 .. level + 1, NEW k \in in.path[h].inhibitMapping
        PROVE  inhibitMap' = 0 \/ inhibitMap' + Consumed(h + 1, level + 1) <= k
    <2>1. k \in Nat /\ h \in Nat
      BY <1>1, <1>4, InputFields DEF Limit
    <2>2. CASE h = level + 1
      <3>1. Consumed(level + 1 + 1, level + 1) = 0
        <4>1. level + 1 + 1 \in Nat /\ level + 1 \in Nat /\ level + 1 < level + 1 + 1
          BY <1>1
        <4> QED
          BY <4>1, ConsumedType
      <3>2. k \in Cur.inhibitMapping
        BY <1>4, <2>2 DEF Cur
      <3> QED
        BY <1>3, <2>1, <2>2, <3>1, <3>2
    <2>3. CASE h \in 1 .. level
      <3>1. inhibitMap = 0 \/ inhibitMap + Consumed(h + 1, level) <= k
        BY <1>4, <2>3 DEF Heeded, Pressing
      <3>2. Consumed(h + 1, level + 1) =
              IF Cur.selfIssued THEN Consumed(h + 1, level)
              ELSE Consumed(h + 1, level) + 1
        BY <1>1, <2>1, <2>3, ConsumedNext DEF Cur
      <3>3. Consumed(h + 1, level) \in Nat
        <4>1. h + 1 \in Nat
          BY <2>1
        <4> QED
          BY <1>1, <4>1, ConsumedType
      <3> QED
        BY <1>1, <1>3, <2>1, <3>1, <3>2, <3>3
    <2> QED
      BY <1>1, <2>2, <2>3
  <1>5. \A x, y : Consumed(x, y)' = Consumed(x, y)
    BY <1>2 DEF Consumed
  <1>6. Pressing'
    BY <1>2, <1>4, <1>5 DEF Pressing
  <1>7. \A i : DueBefore(i, MapLimits)' <=> DueBefore(i, MapLimits)
    BY <1>2, <1>5 DEF DueBefore, MapLimits, Size
  <1> QED
    BY <1>2, <1>6, <1>7 DEF Heeded

(* No mapping is accepted where an earlier certificate inhibited it.       *)
THEOREM InhibitionIsHeeded == Spec => []NoInhibitedMapping
  <1> DEFINE Reached == stage \in {"wrapUp", "accepted"} => level = Size
  <1>1. TypeOK /\ Heeded /\ [Next]_vars => Heeded'
    <2> SUFFICES ASSUME TypeOK, Heeded, [Next]_vars PROVE Heeded'
      OBVIOUS
    <2>1. CASE CheckPathLen \/ CheckNames \/ CheckEku \/ MappingInhibited
      BY <2>1, HeededStutter
      DEF CheckPathLen, CheckNames, CheckEku, MappingInhibited, Gate, tree, Seen
    <2>2. CASE TreeEmpty
      <3>1. level \in Nat /\ Seen' = level /\ Seen = level + 1
            /\ in' = in /\ level' = level /\ inhibitMap' = inhibitMap
        BY <2>2 DEF TreeEmpty, Processed, Gate, tree, TypeOK, Seen
      <3> QED
        BY <3>1, HeededStutter
    <2>3. CASE Map \/ WrapUp \/ UNCHANGED vars
      BY <2>3, HeededStutter DEF Map, WrapUp, vars, Seen
    <2> QED
      BY <2>1, <2>2, <2>3, HeededMatch, HeededAdopt DEF Next
  <1>2. TypeOK /\ Reached /\ [Next]_vars => Reached'
    BY DEF Reached, TypeOK, Next, vars, CheckPathLen, CheckNames, CheckEku,
       MappingInhibited, Match, Map, TreeEmpty, Adopt, WrapUp, Gate, tree,
       Gates, Verdicts, Size
  <1>3. Init => Reached
    BY DEF Init
  <1>4. Heeded /\ Reached => NoInhibitedMapping
    BY DEF Heeded, NoInhibitedMapping, Seen
  <1> QED
    BY <1>1, <1>2, <1>3, <1>4, HeededInit, TypeCorrect, PTL DEF Spec

------------------------------------------------------------------------------
(* The counters are what the limits leave; the answer can be read off a    *)
(* path without mappings; path lengths are refused as by a running count.  *)

(* What the limits of the first n certificates leave after them, and the   *)
(* least of it.                                                            *)
Dues(n, initial, limits) ==
    {Floor(initial - Consumed(1, n))} \cup
    UNION {{Floor(k - Consumed(h + 1, n)) : k \in limits[h]} : h \in 1 .. n}

Least(c, S) == c \in S /\ \A x \in S : c <= x

LEMMA LeastIsMin ==
    ASSUME NEW S \in SUBSET Int, NEW c, Least(c, S)
    PROVE  c = Min(S)
<1>1. c \in S /\ c \in Int /\ \A x \in S : c <= x
  BY DEF Least
<1>2. Min(S) \in S /\ \A x \in S : Min(S) <= x
  BY <1>1 DEF Min
<1>3. Min(S) \in Int /\ c <= Min(S) /\ Min(S) <= c
  BY <1>1, <1>2
<1> QED
  BY <1>1, <1>3

(* What a certificate takes off a counter.                                 *)
Taken(self, n) == IF self \/ n = 0 THEN n ELSE n - 1

LEMMA TakenFrom ==
    ASSUME NEW x \in Int, NEW d \in Nat, NEW self \in BOOLEAN
    PROVE  /\ Floor(x - d) \in Nat /\ Taken(self, Floor(x - d)) \in Nat
           /\ Floor(x - (IF self THEN d ELSE d + 1)) = Taken(self, Floor(x - d))
BY DEF Floor, Taken

LEMMA TakenOrder ==
    ASSUME NEW x \in Nat, NEW y \in Nat, NEW self \in BOOLEAN, x <= y
    PROVE  Taken(self, x) <= Taken(self, y)
BY DEF Taken

LEMMA LimitsAreNaturals ==
    ASSUME in \in Input
    PROVE  /\ Size \in Nat \ {0}
           /\ \A h \in 1 .. Size : /\ ExplicitLimits[h] \in Limit
                                   /\ AnyLimits[h] \in Limit
                                   /\ MapLimits[h] \in Limit
BY InputFields DEF ExplicitLimits, AnyLimits, MapLimits

LEMMA DuesType ==
    ASSUME in \in Input, NEW n \in 0 .. Size, NEW initial \in Nat, NEW limits,
           \A h \in 1 .. Size : limits[h] \in Limit
    PROVE  /\ Dues(n, initial, limits) \in SUBSET Nat
           /\ Consumed(1, n) \in Nat
           /\ \A h \in 1 .. n : \A k \in limits[h] :
                 k \in Nat /\ Consumed(h + 1, n) \in Nat
<1>1. n \in Nat /\ Size \in Nat
  BY InputFields
<1>2. Consumed(1, n) \in Nat
  BY <1>1, ConsumedType
<1>3. ASSUME NEW h \in 1 .. n, NEW k \in limits[h]
      PROVE  k \in Nat /\ Consumed(h + 1, n) \in Nat
  <2>1. h \in 1 .. Size /\ h + 1 \in Nat
    BY <1>1
  <2> QED BY <1>1, <1>3, <2>1, ConsumedType DEF Limit
<1>4. Floor(initial - Consumed(1, n)) \in Nat
  BY <1>2 DEF Floor
<1>5. \A h \in 1 .. n : \A k \in limits[h] : Floor(k - Consumed(h + 1, n)) \in Nat
  BY <1>3 DEF Floor
<1> QED
  BY <1>2, <1>3, <1>4, <1>5 DEF Dues

(* The limits after one certificate more: each one less, unless the        *)
(* certificate is self-issued, and its own limit whole.                    *)
LEMMA DuesNext ==
    ASSUME in \in Input, NEW n \in Nat, n < Size, NEW initial \in Nat, NEW limits,
           \A h \in 1 .. Size : limits[h] \in Limit
    PROVE  Dues(n + 1, initial, limits)
              = {Taken(in.path[n + 1].selfIssued, d) : d \in Dues(n, initial, limits)}
                \cup limits[n + 1]
<1> DEFINE self == in.path[n + 1].selfIssued
<1>1. /\ Size \in Nat /\ n \in 0 .. Size /\ n + 1 \in 1 .. Size /\ self \in BOOLEAN
      /\ n + 1 \in Nat
  BY InputFields
<1> HIDE DEF self
<1>2. /\ Consumed(1, n) \in Nat
      /\ \A h \in 1 .. n : \A k \in limits[h] :
            k \in Nat /\ Consumed(h + 1, n) \in Nat
  BY <1>1, DuesType
<1>3. ASSUME NEW a \in Nat, a <= n + 1
      PROVE  Consumed(a, n + 1) = IF self THEN Consumed(a, n) ELSE Consumed(a, n) + 1
  BY <1>3, ConsumedNext DEF self
<1>4. Floor(initial - Consumed(1, n + 1)) = Taken(self, Floor(initial - Consumed(1, n)))
  <2>1. 1 \in Nat /\ 1 <= n + 1
    OBVIOUS
  <2>2. Consumed(1, n + 1) = IF self THEN Consumed(1, n) ELSE Consumed(1, n) + 1
    BY <1>3, <2>1
  <2> QED BY <1>1, <1>2, <2>2, TakenFrom
<1>5. ASSUME NEW h \in 1 .. n, NEW k \in limits[h]
      PROVE  Floor(k - Consumed(h + 1, n + 1)) = Taken(self, Floor(k - Consumed(h + 1, n)))
  <2>1. h + 1 \in Nat /\ h + 1 <= n + 1
    OBVIOUS
  <2>2. Consumed(h + 1, n + 1)
          = IF self THEN Consumed(h + 1, n) ELSE Consumed(h + 1, n) + 1
    BY <1>3, <2>1
  <2>3. k \in Int /\ Consumed(h + 1, n) \in Nat
    BY <1>2
  <2> QED BY <1>1, <2>2, <2>3, TakenFrom
<1>6. ASSUME NEW k \in limits[n + 1]
      PROVE  Floor(k - Consumed(n + 1 + 1, n + 1)) = k
  <2>1. n + 1 + 1 \in Nat /\ n + 1 < n + 1 + 1
    OBVIOUS
  <2>2. Consumed(n + 1 + 1, n + 1) = 0
    BY <1>1, <2>1, ConsumedType
  <2>3. k \in Nat
    BY <1>1, <1>6 DEF Limit
  <2> QED BY <2>2, <2>3 DEF Floor
<1>7. \A h \in 1 .. n + 1 : h \in 1 .. n \/ h = n + 1
  OBVIOUS
<1>8. \A h \in 1 .. n : h \in 1 .. n + 1
  OBVIOUS
<1> DEFINE Old == Dues(n, initial, limits)
           New == Dues(n + 1, initial, limits)
<1>9. ASSUME NEW d \in New PROVE d \in {Taken(self, x) : x \in Old} \cup limits[n + 1]
  <2>1. CASE d = Floor(initial - Consumed(1, n + 1))
    BY <1>4, <2>1 DEF Dues
  <2>2. CASE \E h \in 1 .. n + 1 : \E k \in limits[h] : d = Floor(k - Consumed(h + 1, n + 1))
    <3>0. PICK h \in 1 .. n + 1 :
             \E k \in limits[h] : d = Floor(k - Consumed(h + 1, n + 1))
      BY <2>2
    <3>1. PICK k \in limits[h] : d = Floor(k - Consumed(h + 1, n + 1))
      BY <3>0
    <3>2. CASE h = n + 1
      BY <1>6, <3>1, <3>2
    <3>3. CASE h \in 1 .. n
      BY <1>5, <3>1, <3>3 DEF Dues
    <3> QED BY <1>7, <3>2, <3>3
  <2> QED BY <2>1, <2>2 DEF Dues
<1>10. ASSUME NEW x \in Old PROVE Taken(self, x) \in New
  <2>1. CASE x = Floor(initial - Consumed(1, n))
    BY <1>4, <2>1 DEF Dues
  <2>2. CASE \E h \in 1 .. n : \E k \in limits[h] : x = Floor(k - Consumed(h + 1, n))
    BY <1>5, <1>8, <2>2 DEF Dues
  <2> QED BY <2>1, <2>2 DEF Dues
<1>11. ASSUME NEW k \in limits[n + 1] PROVE k \in New
  <2>1. n + 1 \in 1 .. n + 1
    OBVIOUS
  <2> QED BY <1>6, <2>1 DEF Dues
<1> HIDE DEF Old, New
<1>12. New = {Taken(self, x) : x \in Old} \cup limits[n + 1]
  BY <1>9, <1>10, <1>11
<1> QED
  BY <1>12 DEF Old, New, self

(* After carries the least of the limits over a certificate.               *)
LEMMA LeastCarries ==
    ASSUME in \in Input, level \in Nat, level < Size, NEW initial \in Nat, NEW limits,
           \A h \in 1 .. Size : limits[h] \in Limit,
           NEW c \in Nat, Least(c, Dues(level, initial, limits))
    PROVE  Least(After(c, limits[level + 1]), Dues(level + 1, initial, limits))
<1> DEFINE self == in.path[level + 1].selfIssued
           L == limits[level + 1]
           Old == Dues(level, initial, limits)
           left == Taken(self, c)
           a == After(c, L)
<1>1. /\ Size \in Nat /\ level \in 0 .. Size /\ level + 1 \in 1 .. Size
      /\ self \in BOOLEAN /\ L \in Limit
  BY InputFields
<1>2. Dues(level + 1, initial, limits) = {Taken(self, d) : d \in Old} \cup L
  BY DuesNext
<1>3. Old \in SUBSET Nat
  BY <1>1, DuesType
<1>4. a = Min({left} \cup L)
  BY DEF After, Taken, Cur
<1>5. left \in Nat
  BY <1>1 DEF Taken
<1> HIDE DEF self, L, Old, left, a
<1>6. /\ a \in {left} \cup L /\ a \in Nat /\ a <= left /\ \A k \in L : a <= k
  BY <1>1, <1>4, <1>5, LeastType
<1>7. c \in Old /\ \A d \in Old : c <= d
  BY DEF Least, Old
<1>8. ASSUME NEW d \in Old PROVE a <= Taken(self, d)
  <2>1. d \in Nat /\ c <= d
    BY <1>3, <1>7
  <2>2. left <= Taken(self, d)
    BY <1>1, <2>1, TakenOrder DEF left
  <2>3. Taken(self, d) \in Nat
    BY <1>1, <2>1 DEF Taken
  <2> QED BY <1>5, <1>6, <2>2, <2>3
<1>9. a \in {Taken(self, d) : d \in Old} \cup L
  BY <1>6, <1>7 DEF left
<1>10. Least(a, {Taken(self, d) : d \in Old} \cup L)
  BY <1>6, <1>8, <1>9 DEF Least
<1> QED
  BY <1>2, <1>10 DEF a, L

(* The inductive invariant behind CountersAreDue.                          *)
Due == /\ Least(explicit, Dues(level, Size, ExplicitLimits))
       /\ Least(inhibitAny, Dues(level, Size, AnyLimits))
       /\ Least(inhibitMap, Dues(level, Size + 1, MapLimits))

LEMMA DueInit == Init => Due
<1> SUFFICES ASSUME Init PROVE Due
  OBVIOUS
<1>1. in \in Input /\ level = 0 /\ Size \in Nat
  BY InputFields DEF Init
<1>2. Consumed(1, 0) = 0
  BY ConsumedType
<1>3. \A x \in Nat : Floor(x - 0) = x
  BY DEF Floor
<1>4. \A x \in Nat : \A limits : Dues(0, x, limits) = {x}
  <2>1. 1 .. 0 = {}
    OBVIOUS
  <2> QED BY <1>2, <1>3, <2>1 DEF Dues
<1>5. \A x \in Nat : Least(x, {x})
  BY DEF Least
<1>6. Size + 1 \in Nat
  BY <1>1
<1>7. /\ Dues(0, Size, ExplicitLimits) = {Size}
      /\ Dues(0, Size, AnyLimits) = {Size}
      /\ Dues(0, Size + 1, MapLimits) = {Size + 1}
  BY <1>1, <1>4, <1>6
<1> QED
  BY <1>1, <1>5, <1>6, <1>7 DEF Init, Due

LEMMA DueStutter ==
    ASSUME Due, in' = in, level' = level,
           UNCHANGED <<explicit, inhibitAny, inhibitMap>>
    PROVE  Due'
<1>1. /\ Dues(level, Size, ExplicitLimits)' = Dues(level, Size, ExplicitLimits)
      /\ Dues(level, Size, AnyLimits)' = Dues(level, Size, AnyLimits)
      /\ Dues(level, Size + 1, MapLimits)' = Dues(level, Size + 1, MapLimits)
  BY DEF Dues, Consumed, ExplicitLimits, AnyLimits, MapLimits, Size
<1> QED
  BY <1>1 DEF Due, Least

LEMMA DueAdopt ==
    ASSUME TypeOK, Due, Adopt
    PROVE  Due'
<1>1. /\ in \in Input /\ level \in Nat /\ level < Size /\ Size \in Nat
      /\ level + 1 \in 1 .. Size
      /\ explicit \in Nat /\ inhibitAny \in Nat /\ inhibitMap \in Nat
  BY InputFields DEF Adopt, Processed, TypeOK
<1>2. /\ in' = in /\ level' = level + 1
      /\ explicit' = After(explicit, ExplicitLimits[level + 1])
      /\ inhibitAny' = After(inhibitAny, AnyLimits[level + 1])
      /\ inhibitMap' = After(inhibitMap, MapLimits[level + 1])
  BY <1>1 DEF Adopt, Cur, ExplicitLimits, AnyLimits, MapLimits
<1>3. /\ \A h \in 1 .. Size : ExplicitLimits[h] \in Limit
      /\ \A h \in 1 .. Size : AnyLimits[h] \in Limit
      /\ \A h \in 1 .. Size : MapLimits[h] \in Limit
  BY <1>1, LimitsAreNaturals
<1>4. Least(explicit', Dues(level + 1, Size, ExplicitLimits))
  BY <1>1, <1>2, <1>3, LeastCarries DEF Due
<1>5. Least(inhibitAny', Dues(level + 1, Size, AnyLimits))
  BY <1>1, <1>2, <1>3, LeastCarries DEF Due
<1>6. Least(inhibitMap', Dues(level + 1, Size + 1, MapLimits))
  <2>1. Size + 1 \in Nat
    BY <1>1
  <2> QED BY <1>1, <1>2, <1>3, <2>1, LeastCarries DEF Due
<1>7. /\ Dues(level, Size, ExplicitLimits)' = Dues(level + 1, Size, ExplicitLimits)
      /\ Dues(level, Size, AnyLimits)' = Dues(level + 1, Size, AnyLimits)
      /\ Dues(level, Size + 1, MapLimits)' = Dues(level + 1, Size + 1, MapLimits)
  BY <1>2 DEF Dues, Consumed, ExplicitLimits, AnyLimits, MapLimits, Size
<1> QED
  BY <1>4, <1>5, <1>6, <1>7 DEF Due, Least

LEMMA DueStep == TypeOK /\ Due /\ [Next]_vars => Due'
<1> SUFFICES ASSUME TypeOK, Due, [Next]_vars PROVE Due'
  OBVIOUS
<1>1. CASE Adopt
  BY <1>1, DueAdopt
<1>2. CASE ~ Adopt
  <2>1. in' = in /\ level' = level /\ UNCHANGED <<explicit, inhibitAny, inhibitMap>>
    BY <1>2 DEF Next, vars, CheckPathLen, CheckNames, CheckEku, MappingInhibited,
       Match, Map, TreeEmpty, WrapUp, Gate, tree
  <2> QED BY <2>1, DueStutter
<1> QED
  BY <1>1, <1>2

LEMMA DueAlways == Spec => []Due
BY DueInit, DueStep, TypeCorrect, PTL DEF Spec

(* CountersAreDue: each of the three counters is what the most pressing    *)
(* of the limits seen so far leaves after the levels consumed since.       *)
THEOREM CountersFollowLimits == Spec => []CountersAreDue
<1>1. ASSUME TypeOK, Due PROVE CountersAreDue
  <2>1. /\ in \in Input /\ level \in 0 .. Size /\ Size \in Nat /\ Size + 1 \in Nat
    BY <1>1, InputFields DEF TypeOK
  <2>2. /\ Dues(level, Size, ExplicitLimits) \in SUBSET Nat
        /\ Dues(level, Size, AnyLimits) \in SUBSET Nat
        /\ Dues(level, Size + 1, MapLimits) \in SUBSET Nat
    BY <2>1, DuesType, LimitsAreNaturals
  <2>3. Nat \subseteq Int
    OBVIOUS
  <2>4. /\ explicit = Min(Dues(level, Size, ExplicitLimits))
        /\ inhibitAny = Min(Dues(level, Size, AnyLimits))
        /\ inhibitMap = Min(Dues(level, Size + 1, MapLimits))
    BY <1>1, <2>2, <2>3, LeastIsMin DEF Due
  <2> QED BY <2>4 DEF CountersAreDue, Dues
<1> QED
  BY <1>1, DueAlways, TypeCorrect, PTL

------------------------------------------------------------------------------
(* The tree of a path without mappings *)

NoMappings == \A i \in 1 .. Size : in.path[i].mappings = << >>

(* ChainWide for the first n certificates.                                 *)
ChainTo(p, n) ==
    \E i \in 1 .. n :
       /\ AnyOpenTo(i - 1)
       /\ p \in in.path[i].policies
       /\ \A j \in i + 1 .. n : in.path[j].policies \cap {p, AnyPolicy} # {}

AnyNode == [policy |-> AnyPolicy, lineage |-> {}]
NodeOf(p) == [policy |-> p, lineage |-> {p}]

TreeOf(n) == {x \in {AnyNode} : AnyOpenTo(n)}
             \cup {NodeOf(p) : p \in {q \in Policy : ChainTo(q, n)}}

(* The inductive invariant behind PlainAnswer.                             *)
PlainTree ==
    NoMappings =>
       /\ stage \in Gates \cup {"match", "map", "wrapUp"} =>
             nodes = TreeOf(Seen) /\ answer = {}
       /\ PlainAnswer

LEMMA ConsumedBound ==
    ASSUME NEW n \in Nat
    PROVE  Consumed(1, n) \in Nat /\ Consumed(1, n) <= n
<1> DEFINE C == {j \in 1 .. n : ~ in.path[j].selfIssued}
<1>1. IsFiniteSet(1 .. n) /\ Cardinality(1 .. n) = n
  <2>1. /\ IsFiniteSet(1 .. n)
        /\ Cardinality(1 .. n) = IF 1 > n THEN 0 ELSE n - 1 + 1
    BY FS_Interval
  <2>2. (IF 1 > n THEN 0 ELSE n - 1 + 1) = n
    OBVIOUS
  <2> QED BY <2>1, <2>2
<1>2. C \in SUBSET (1 .. n)
  OBVIOUS
<1>3. Cardinality(C) <= n
  <2> HIDE DEF C
  <2> QED BY <1>1, <1>2, FS_Subset
<1> QED
  BY <1>3, ConsumedType DEF Consumed

(* A counter is used up when a limit is, or as many certificates as the    *)
(* path is long have consumed it.                                          *)
LEMMA UsedUp ==
    ASSUME in \in Input, NEW n \in 0 .. Size, NEW initial \in Nat, NEW limits,
           \A h \in 1 .. Size : limits[h] \in Limit,
           NEW c, Least(c, Dues(n, initial, limits))
    PROVE  c > 0 <=> /\ Consumed(1, n) < initial
                     /\ ~ DueBefore(n + 1, limits)
<1>1. /\ Dues(n, initial, limits) \in SUBSET Nat /\ Consumed(1, n) \in Nat
      /\ \A h \in 1 .. n : \A k \in limits[h] : k \in Nat /\ Consumed(h + 1, n) \in Nat
  BY DuesType
<1>2. c \in Nat /\ c \in Dues(n, initial, limits)
      /\ \A d \in Dues(n, initial, limits) : c <= d
  BY <1>1 DEF Least
<1>3. /\ Floor(initial - Consumed(1, n)) \in Dues(n, initial, limits)
      /\ \A h \in 1 .. n : \A k \in limits[h] :
            Floor(k - Consumed(h + 1, n)) \in Dues(n, initial, limits)
  BY DEF Dues
<1>4. \A x, y \in Nat : Floor(x - y) > 0 <=> y < x
  BY DEF Floor
<1>5. \A x, y \in Nat : x > 0 /\ x <= y => y > 0
  OBVIOUS
<1>6. ASSUME c > 0
      PROVE  Consumed(1, n) < initial /\ ~ DueBefore(n + 1, limits)
  <2>1. \A d \in Dues(n, initial, limits) : d > 0
    BY <1>1, <1>2, <1>5, <1>6
  <2>2. Consumed(1, n) < initial
    BY <1>1, <1>3, <1>4, <2>1
  <2>3. ASSUME NEW h \in 1 .. n, NEW k \in limits[h]
        PROVE  ~ (k <= Consumed(h + 1, n))
    <3>1. k \in Nat /\ Consumed(h + 1, n) \in Nat /\ Floor(k - Consumed(h + 1, n)) > 0
      BY <1>1, <1>3, <2>1
    <3>2. Consumed(h + 1, n) < k
      BY <1>4, <3>1
    <3> QED BY <3>1, <3>2
  <2>4. n + 1 - 1 = n
    OBVIOUS
  <2> QED BY <2>2, <2>3, <2>4 DEF DueBefore
<1>7. ASSUME Consumed(1, n) < initial, ~ DueBefore(n + 1, limits)
      PROVE  c > 0
  <2>1. n + 1 - 1 = n
    OBVIOUS
  <2>2. \A h \in 1 .. n : \A k \in limits[h] : ~ (k <= Consumed(h + 1, n))
    BY <1>7, <2>1 DEF DueBefore
  <2>3. CASE c = Floor(initial - Consumed(1, n))
    BY <1>1, <1>4, <1>7, <2>3
  <2>4. CASE \E h \in 1 .. n : \E k \in limits[h] : c = Floor(k - Consumed(h + 1, n))
    <3>1. PICK h \in 1 .. n : \E k \in limits[h] : c = Floor(k - Consumed(h + 1, n))
      BY <2>4
    <3>2. PICK k \in limits[h] : c = Floor(k - Consumed(h + 1, n))
      BY <3>1
    <3>3. k \in Nat /\ Consumed(h + 1, n) \in Nat /\ ~ (k <= Consumed(h + 1, n))
      BY <1>1, <2>2, <3>2
    <3>4. Consumed(h + 1, n) < k
      BY <3>3
    <3> QED BY <1>4, <3>2, <3>3, <3>4
  <2> QED BY <1>2, <2>3, <2>4 DEF Dues
<1> QED
  BY <1>6, <1>7

(* anyPolicy is suppressed when a limit on it is due, and not otherwise.   *)
LEMMA AnyAdmittedIs ==
    ASSUME TypeOK, Due, level < Size
    PROVE  AnyAdmitted <=> \/ level + 1 = 1 \/ in.path[level + 1].selfIssued
                           \/ ~ DueBefore(level + 1, AnyLimits)
<1>1. /\ in \in Input /\ level \in 0 .. Size /\ level \in Nat /\ Size \in Nat
      /\ \A h \in 1 .. Size : AnyLimits[h] \in Limit
  BY InputFields, LimitsAreNaturals DEF TypeOK
<1>2. Consumed(1, level) \in Nat /\ Consumed(1, level) <= level
  BY <1>1, ConsumedBound
<1>3. Consumed(1, level) < Size
  BY <1>1, <1>2
<1>4. inhibitAny > 0 <=> ~ DueBefore(level + 1, AnyLimits)
  BY <1>1, <1>3, UsedUp DEF Due
<1>5. level = 0 <=> level + 1 = 1
  BY <1>1
<1> QED
  BY <1>4, <1>5 DEF AnyAdmitted, Cur

LEMMA ExplicitIs ==
    ASSUME TypeOK, Due, level = Size
    PROVE  explicit > 0 <=> ~ MustBeExplicit
<1>1. /\ in \in Input /\ Size \in 0 .. Size /\ Size \in Nat
      /\ \A h \in 1 .. Size : ExplicitLimits[h] \in Limit
  BY InputFields, LimitsAreNaturals DEF TypeOK
<1>2. Consumed(1, Size) \in Nat /\ Consumed(1, Size) <= Size
  BY <1>1, ConsumedBound
<1>3. Consumed(1, Size) < Size <=> Consumed(1, Size) # Size
  BY <1>1, <1>2
<1>4. explicit > 0 <=> Consumed(1, Size) < Size /\ ~ DueBefore(Size + 1, ExplicitLimits)
  BY <1>1, UsedUp DEF Due
<1> QED
  BY <1>3, <1>4 DEF MustBeExplicit

(* Where anyPolicy is open, it was open before.                            *)
LEMMA AnyOpenNext ==
    ASSUME NEW n \in Nat
    PROVE  AnyOpenTo(n + 1) <=>
              /\ AnyOpenTo(n) /\ AnyPolicy \in in.path[n + 1].policies
              /\ \/ n + 1 = 1 \/ in.path[n + 1].selfIssued
                 \/ ~ DueBefore(n + 1, AnyLimits)
<1>1. 1 .. n + 1 = (1 .. n) \cup {n + 1}
  OBVIOUS
<1> QED
  BY <1>1 DEF AnyOpenTo

LEMMA ChainNext ==
    ASSUME NEW n \in Nat, NEW p
    PROVE  ChainTo(p, n + 1) <=>
              \/ AnyOpenTo(n) /\ p \in in.path[n + 1].policies
              \/ ChainTo(p, n) /\ in.path[n + 1].policies \cap {p, AnyPolicy} # {}
<1>1. n + 1 - 1 = n /\ n + 1 \in 1 .. n + 1 /\ n + 1 + 1 .. n + 1 = {}
  OBVIOUS
<1>2. \A i \in 1 .. n + 1 : i \in 1 .. n \/ i = n + 1
  OBVIOUS
<1>3. \A i \in 1 .. n : /\ i \in 1 .. n + 1
                        /\ i + 1 .. n + 1 = (i + 1 .. n) \cup {n + 1}
  OBVIOUS
<1>4. ASSUME ChainTo(p, n + 1)
      PROVE  \/ AnyOpenTo(n) /\ p \in in.path[n + 1].policies
             \/ ChainTo(p, n) /\ in.path[n + 1].policies \cap {p, AnyPolicy} # {}
  <2>1. PICK i \in 1 .. n + 1 :
           /\ AnyOpenTo(i - 1) /\ p \in in.path[i].policies
           /\ \A j \in i + 1 .. n + 1 : in.path[j].policies \cap {p, AnyPolicy} # {}
    BY <1>4 DEF ChainTo
  <2>2. CASE i = n + 1
    BY <1>1, <2>1, <2>2
  <2>3. CASE i \in 1 .. n
    BY <1>3, <2>1, <2>3 DEF ChainTo
  <2> QED BY <1>2, <2>2, <2>3
<1>5. ASSUME AnyOpenTo(n), p \in in.path[n + 1].policies
      PROVE  ChainTo(p, n + 1)
  BY <1>1, <1>5 DEF ChainTo
<1>6. ASSUME ChainTo(p, n), in.path[n + 1].policies \cap {p, AnyPolicy} # {}
      PROVE  ChainTo(p, n + 1)
  BY <1>3, <1>6 DEF ChainTo
<1> QED
  BY <1>4, <1>5, <1>6

(* What is open or chained to later certificates was open or chained to    *)
(* earlier ones.                                                           *)
LEMMA OpenBefore ==
    ASSUME NEW m \in Nat, NEW n \in Nat, m <= n
    PROVE  /\ AnyOpenTo(n) => AnyOpenTo(m)
           /\ \A p : ChainTo(p, n) => ChainTo(p, m) \/ AnyOpenTo(m)
<1>1. AnyOpenTo(n) => AnyOpenTo(m)
  <2>1. \A j \in 1 .. m : j \in 1 .. n
    OBVIOUS
  <2> QED BY <2>1 DEF AnyOpenTo
<1>2. ASSUME NEW p, ChainTo(p, n)
      PROVE  ChainTo(p, m) \/ AnyOpenTo(m)
  <2>1. PICK i \in 1 .. n :
           /\ AnyOpenTo(i - 1) /\ p \in in.path[i].policies
           /\ \A j \in i + 1 .. n : in.path[j].policies \cap {p, AnyPolicy} # {}
    BY <1>2 DEF ChainTo
  <2>2. CASE i <= m
    <3>1. i \in 1 .. m /\ \A j \in i + 1 .. m : j \in i + 1 .. n
      BY <2>1, <2>2
    <3> QED BY <2>1, <3>1 DEF ChainTo
  <2>3. CASE ~ (i <= m)
    <3>1. \A j \in 1 .. m : j \in 1 .. i - 1
      BY <2>1, <2>3
    <3> QED BY <2>1, <3>1 DEF AnyOpenTo
  <2> QED BY <2>2, <2>3
<1> QED
  BY <1>1, <1>2

LEMMA NodesOfTree ==
    ASSUME NEW n
    PROVE  /\ \A nd : nd \in TreeOf(n) <=>
                 \/ nd = AnyNode /\ AnyOpenTo(n)
                 \/ \E p \in Policy : ChainTo(p, n) /\ nd = NodeOf(p)
           /\ AnyNode.policy = AnyPolicy /\ AnyNode.lineage = {}
           /\ \A p : NodeOf(p).policy = p /\ NodeOf(p).lineage = {p}
BY DEF TreeOf, AnyNode, NodeOf

(* A policy is chained to a certificate more when it extends a node of the *)
(* tree; there is but one node for each policy.                            *)
LEMMA NamedPlain ==
    ASSUME NEW n, nodes = TreeOf(n), NEW p \in Policy
    PROVE  Named(p) = {x \in {NodeOf(p)} : AnyOpenTo(n) \/ ChainTo(p, n)}
<1>1. AnyPolicy \notin Policy
  BY ChainType
<1>2. NodeOf(p) = [policy |-> p, lineage |-> {} \cup {p}]
      /\ NodeOf(p) = [policy |-> p, lineage |-> {p} \cup {p}]
  <2>1. {} \cup {p} = {p} /\ {p} \cup {p} = {p}
    OBVIOUS
  <2> QED BY <2>1 DEF NodeOf
<1>3. ASSUME NEW nd \in Named(p)
      PROVE  nd = NodeOf(p) /\ (AnyOpenTo(n) \/ ChainTo(p, n))
  <2>1. PICK x \in nodes : /\ x.policy \in {AnyPolicy, p}
                           /\ nd = [policy |-> p, lineage |-> x.lineage \cup {p}]
    BY DEF Named
  <2>2. CASE x = AnyNode /\ AnyOpenTo(n)
    BY <1>2, <2>1, <2>2, NodesOfTree
  <2>3. CASE \E q \in Policy : ChainTo(q, n) /\ x = NodeOf(q)
    <3>1. PICK q \in Policy : ChainTo(q, n) /\ x = NodeOf(q)
      BY <2>3
    <3>2. x.policy = q /\ x.lineage = {q}
      BY <3>1, NodesOfTree
    <3>3. q = p
      BY <1>1, <2>1, <3>2
    <3> QED BY <1>2, <2>1, <3>1, <3>2, <3>3
  <2> QED BY <2>1, <2>2, <2>3, NodesOfTree
<1>4. ASSUME AnyOpenTo(n)
      PROVE  NodeOf(p) \in Named(p)
  BY <1>2, <1>4, NodesOfTree DEF Named
<1>5. ASSUME ChainTo(p, n)
      PROVE  NodeOf(p) \in Named(p)
  <2>1. NodeOf(p) \in nodes
    BY <1>5, NodesOfTree
  <2> QED BY <1>2, <2>1, NodesOfTree DEF Named
<1> QED
  BY <1>3, <1>4, <1>5

LEMMA KidsPlain ==
    ASSUME TypeOK, Due, level < Size, nodes = TreeOf(level)
    PROVE  Kids = TreeOf(level + 1)
<1>1. /\ level \in Nat /\ AnyPolicy \notin Policy
      /\ Cur.policies \subseteq Policy \cup {AnyPolicy}
  <2>1. in \in Input /\ level \in Nat
    BY InputFields DEF TypeOK
  <2> QED BY <2>1, CurFields, ChainType
<1>2. AnyOpenTo(level + 1) <=>
         AnyOpenTo(level) /\ AnyPolicy \in Cur.policies /\ AnyAdmitted
  BY <1>1, AnyAdmittedIs, AnyOpenNext DEF Cur
<1>3. \A p : ChainTo(p, level + 1) <=>
         \/ AnyOpenTo(level) /\ p \in Cur.policies
         \/ ChainTo(p, level) /\ (p \in Cur.policies \/ AnyPolicy \in Cur.policies)
  <2>1. \A p : Cur.policies \cap {p, AnyPolicy} # {} <=>
                  p \in Cur.policies \/ AnyPolicy \in Cur.policies
    OBVIOUS
  <2> QED BY <1>1, <2>1, ChainNext DEF Cur
<1>4. ASSUME NEW nd \in Kids
      PROVE  nd \in TreeOf(level + 1)
  <2>1. CASE nd \in Kept
    <3>1. nd \in nodes /\ AnyPolicy \in Cur.policies
          /\ (nd.policy = AnyPolicy => AnyAdmitted)
      BY <2>1 DEF Kept
    <3>2. CASE nd = AnyNode /\ AnyOpenTo(level)
      BY <1>2, <3>1, <3>2, NodesOfTree
    <3>3. CASE \E p \in Policy : ChainTo(p, level) /\ nd = NodeOf(p)
      BY <1>3, <3>1, <3>3, NodesOfTree
    <3> QED BY <3>1, <3>2, <3>3, NodesOfTree
  <2>2. CASE \E p \in Cur.policies \ {AnyPolicy} : nd \in Named(p)
    <3>1. PICK p \in Cur.policies \ {AnyPolicy} : nd \in Named(p)
      BY <2>2
    <3>2. p \in Policy
      BY <1>1, <3>1
    <3>3. nd = NodeOf(p) /\ (AnyOpenTo(level) \/ ChainTo(p, level))
      BY <3>1, <3>2, NamedPlain
    <3> QED BY <1>3, <3>1, <3>2, <3>3, NodesOfTree
  <2> QED BY <2>1, <2>2 DEF Kids
<1>5. ASSUME NEW nd \in TreeOf(level + 1)
      PROVE  nd \in Kids
  <2>1. CASE nd = AnyNode /\ AnyOpenTo(level + 1)
    <3>1. nd \in nodes
      BY <1>2, <2>1, NodesOfTree
    <3> QED BY <1>2, <2>1, <3>1 DEF Kept, Kids
  <2>2. CASE \E p \in Policy : ChainTo(p, level + 1) /\ nd = NodeOf(p)
    <3>1. PICK p \in Policy : ChainTo(p, level + 1) /\ nd = NodeOf(p)
      BY <2>2
    <3>2. CASE p \in Cur.policies
      <4>1. nd \in Named(p)
        BY <1>3, <3>1, <3>2, NamedPlain
      <4>2. p \in Cur.policies \ {AnyPolicy}
        BY <1>1, <3>2
      <4> QED BY <4>1, <4>2 DEF Kids
    <3>3. CASE p \notin Cur.policies
      <4>1. ChainTo(p, level) /\ AnyPolicy \in Cur.policies
        BY <1>3, <3>1, <3>3
      <4>2. nd \in nodes /\ nd.policy # AnyPolicy
        BY <1>1, <3>1, <4>1, NodesOfTree
      <4> QED BY <4>1, <4>2 DEF Kept, Kids
    <3> QED BY <3>2, <3>3
  <2> QED BY <2>1, <2>2, NodesOfTree
<1> QED
  BY <1>4, <1>5

(* Nothing is left to suppress: anyPolicy is open only where admitted.     *)
LEMMA SurvivingPlain ==
    ASSUME TypeOK, Due, level < Size, nodes = TreeOf(level + 1)
    PROVE  Surviving = nodes
<1>1. level \in Nat
  BY InputFields DEF TypeOK
<1>2. AnyOpenTo(level + 1) => AnyAdmitted
  BY <1>1, AnyAdmittedIs, AnyOpenNext
<1>3. \A nd \in nodes : nd.policy = AnyPolicy => AnyAdmitted
  BY <1>2, NodesOfTree, ChainType
<1> QED
  BY <1>3 DEF Surviving

LEMMA WideIsChained ==
    ASSUME in \in Input
    PROVE  \A p : ChainWide(p) <=> ChainTo(p, Size)
BY DEF ChainWide, ChainTo

LEMMA EmptyTreeGrantsNothing ==
    ASSUME in \in Input, NEW n \in 1 .. Size, TreeOf(n) = {}
    PROVE  Granted = {}
<1>1. n \in Nat /\ Size \in Nat /\ n <= Size /\ in.user \subseteq Policy \cup {AnyPolicy}
  BY InputFields
<1>2. ~ AnyOpenTo(n) /\ \A p \in Policy : ~ ChainTo(p, n)
  BY NodesOfTree
<1>3. ~ AnyOpenTo(Size) /\ \A p \in Policy : ~ ChainTo(p, Size)
  BY <1>1, <1>2, OpenBefore
<1>4. \A p \in Policy : ~ ChainWide(p)
  BY <1>3, WideIsChained
<1> QED
  BY <1>1, <1>3, <1>4 DEF Granted

(* The lineages of the whole tree are the policies chained to the leaf.    *)
LEMMA AnswerOfTree ==
    ASSUME TypeOK, Due, level = Size, nodes = TreeOf(Size)
    PROVE  Acceptable = Granted
<1>1. in \in Input /\ in.user \subseteq Policy \cup {AnyPolicy} /\ AnyPolicy \notin Policy
  BY InputFields, ChainType DEF TypeOK
<1>2. UNION {nd.lineage : nd \in nodes} = {p \in Policy : ChainWide(p)}
  <2>1. ASSUME NEW nd \in nodes, NEW p \in nd.lineage
        PROVE  p \in Policy /\ ChainWide(p)
    <3>1. PICK q \in Policy : ChainTo(q, Size) /\ nd = NodeOf(q)
      BY <2>1, NodesOfTree
    <3>2. p = q
      BY <2>1, <3>1, NodesOfTree
    <3> QED BY <1>1, <3>1, <3>2, WideIsChained
  <2>2. ASSUME NEW p \in Policy, ChainWide(p)
        PROVE  \E nd \in nodes : p \in nd.lineage
    <3>1. NodeOf(p) \in nodes /\ p \in NodeOf(p).lineage
      BY <1>1, <2>2, WideIsChained, NodesOfTree
    <3> QED BY <3>1
  <2> QED BY <2>1, <2>2
<1>3. (\E nd \in nodes : nd.policy = AnyPolicy) <=> AnyOpenTo(Size)
  BY <1>1, NodesOfTree
<1>4. explicit > 0 <=> ~ MustBeExplicit
  BY ExplicitIs
<1>5. CASE in.user = {AnyPolicy}
  BY <1>2, <1>3, <1>5 DEF Acceptable, Granted
<1>6. CASE in.user # {AnyPolicy}
  <2>1. {p \in Policy : ChainWide(p)} \cap in.user
           = {p \in in.user : p # AnyPolicy /\ ChainWide(p)}
    BY <1>1
  <2> QED BY <1>2, <1>3, <1>4, <1>6, <2>1 DEF Acceptable, Granted
<1> QED
  BY <1>5, <1>6

LEMMA GrantedStays ==
    ASSUME in' = in
    PROVE  /\ Granted' = Granted /\ NoMappings' = NoMappings
           /\ \A n \in Nat : TreeOf(n)' = TreeOf(n)
BY DEF Granted, ChainWide, AnyOpenTo, DueBefore, AnyLimits, ExplicitLimits, Consumed,
       MustBeExplicit, Size, NoMappings, TreeOf, ChainTo

LEMMA PlainInit == Init => PlainTree
<1> SUFFICES ASSUME Init PROVE PlainTree
  OBVIOUS
<1>1. AnyOpenTo(0) /\ \A p : ~ ChainTo(p, 0)
  BY DEF AnyOpenTo, ChainTo
<1>2. nodes = TreeOf(0)
  BY <1>1 DEF Init, TreeOf, AnyNode
<1> QED
  BY <1>2 DEF Init, PlainTree, PlainAnswer, Seen

LEMMA PlainStep ==
    TypeOK /\ Due /\ PlainTree /\ [Next]_vars => PlainTree'
<1> SUFFICES ASSUME TypeOK, Due, PlainTree, [Next]_vars PROVE PlainTree'
  OBVIOUS
<1>0. in \in Input /\ level \in Nat /\ Size \in Nat /\ in' = in
  BY InputFields DEF TypeOK, Next, vars, CheckPathLen, CheckNames, CheckEku,
     MappingInhibited, Match, Map, TreeEmpty, Adopt, WrapUp, Gate, tree
<1>1. /\ Granted' = Granted /\ NoMappings' = NoMappings
      /\ \A n \in Nat : TreeOf(n)' = TreeOf(n)
  BY <1>0, GrantedStays
<1> SUFFICES ASSUME NoMappings
             PROVE  /\ stage' \in Gates \cup {"match", "map", "wrapUp"} =>
                          nodes' = TreeOf(Seen)' /\ answer' = {}
                    /\ stage' \in {"accepted", "TREE_EMPTY", "NO_POLICY"} =>
                          answer' = Granted
  BY <1>1 DEF PlainTree, PlainAnswer, NoMappings
<1>2. /\ stage \in Gates \cup {"match", "map", "wrapUp"} =>
            nodes = TreeOf(Seen) /\ answer = {}
      /\ stage \in {"accepted", "TREE_EMPTY", "NO_POLICY"} => answer = Granted
  BY DEF PlainTree, PlainAnswer, NoMappings
<1>3. level < Size => Cur.mappings = << >> /\ Len(Cur.mappings) = 0
  <2>1. level < Size => level + 1 \in 1 .. Size
    BY <1>0
  <2> QED BY <2>1 DEF NoMappings, Cur
<1>4. CASE CheckPathLen \/ CheckNames \/ CheckEku
  <2>1. /\ stage \in Gates /\ UNCHANGED <<nodes, answer, level>>
        /\ stage' \in (Gates \cup {"match"}) \cup {"PATH_LEN", "NAME_CONSTRAINTS", "EKU"}
    BY <1>4 DEF CheckPathLen, CheckNames, CheckEku, Gate, tree, Gates
  <2>2. Seen = level /\ (stage' \in Gates \cup {"match", "map", "wrapUp"} => Seen' = level)
    BY <2>1 DEF Seen, Gates
  <2> QED BY <1>0, <1>1, <1>2, <2>1, <2>2 DEF Gates
<1>5. CASE MappingInhibited
  BY <1>5 DEF MappingInhibited, Gate, Gates
<1>6. CASE Match
  <2>1. stage = "match" /\ stage' = "map" /\ level < Size
    BY <1>6 DEF Match, TypeOK
  <2>2. nodes = TreeOf(level) /\ answer = {} /\ Seen' = level + 1
    BY <1>2, <1>6, <2>1 DEF Match, Seen
  <2>3. nodes' = TreeOf(level + 1) /\ answer' = {}
    BY <1>6, <2>1, <2>2, KidsPlain DEF Match
  <2>4. TreeOf(level + 1)' = TreeOf(level + 1) /\ level' = level
    BY <1>0, <1>1, <1>6 DEF Match
  <2>5. TreeOf(Seen)' = TreeOf(level + 1)
    BY <2>2, <2>4, <1>0, <1>1
  <2> QED BY <2>1, <2>3, <2>5
<1>7. CASE Map
  <2>1. level < Size /\ mapped \in Nat /\ mapped < Len(Cur.mappings)
    BY <1>7 DEF Map, TypeOK
  <2> QED BY <1>3, <2>1
<1>8. CASE TreeEmpty
  <2>1. /\ stage = "map" /\ stage' = "TREE_EMPTY" /\ Surviving = {} /\ level < Size
        /\ answer' = answer
    BY <1>8 DEF TreeEmpty, Processed, Gate, tree, TypeOK
  <2>2. nodes = TreeOf(level + 1) /\ answer = {}
    BY <1>2, <2>1 DEF Seen
  <2>3. TreeOf(level + 1) = {}
    BY <2>1, <2>2, SurvivingPlain
  <2>4. level + 1 \in 1 .. Size
    BY <1>0, <2>1
  <2>5. Granted = {}
    BY <1>0, <2>3, <2>4, EmptyTreeGrantsNothing
  <2> QED BY <2>1, <2>2, <2>5 DEF Gates
<1>9. CASE Adopt
  <2>1. /\ stage = "map" /\ stage' \in {"wrapUp", "match"} /\ level < Size
        /\ nodes' = Surviving /\ answer' = answer /\ level' = level + 1
    BY <1>9 DEF Adopt, Processed, TypeOK
  <2>2. nodes = TreeOf(level + 1) /\ answer = {}
    BY <1>2, <2>1 DEF Seen
  <2>3. nodes' = TreeOf(level + 1)
    BY <2>1, <2>2, SurvivingPlain
  <2>4. Seen' = level + 1
    BY <2>1 DEF Seen
  <2>5. TreeOf(Seen)' = TreeOf(level + 1)
    BY <2>4, <1>0, <1>1
  <2> QED BY <2>1, <2>2, <2>3, <2>5
<1>10. CASE WrapUp
  <2>1. /\ stage = "wrapUp" /\ stage' \in {"NO_POLICY", "accepted"}
        /\ answer' = Acceptable /\ level = Size
    BY <1>10 DEF WrapUp, TypeOK
  <2>2. nodes = TreeOf(Size)
    BY <1>2, <2>1 DEF Seen
  <2>3. answer' = Granted
    BY <2>1, <2>2, AnswerOfTree
  <2> QED BY <2>1, <2>3 DEF Gates
<1>11. CASE UNCHANGED vars
  <2>1. stage' = stage /\ nodes' = nodes /\ answer' = answer /\ Seen' = Seen /\ Seen \in Nat
    BY <1>0, <1>11 DEF vars, Seen
  <2>2. TreeOf(Seen)' = TreeOf(Seen)
    BY <1>1, <2>1
  <2> QED BY <1>2, <2>1, <2>2
<1> QED
  BY <1>4, <1>5, <1>6, <1>7, <1>8, <1>9, <1>10, <1>11 DEF Next

(* PlainAnswer: on a path without mappings the answer of the tree, with    *)
(* its nodes, lineages and counters, is the one read off the certificates. *)
THEOREM AnswerReadOff == Spec => []PlainAnswer
<1>1. TypeOK /\ PlainTree => PlainAnswer
  BY DEF PlainTree, PlainAnswer, NoMappings
<1> QED
  BY <1>1, PlainInit, PlainStep, DueAlways, TypeCorrect, PTL DEF Spec

------------------------------------------------------------------------------
(* The running count of the path length *)

LEMMA LeastExists ==
    ASSUME NEW S \in SUBSET Int, S # {}, NEW b \in Int, \A x \in S : b <= x
    PROVE  Min(S) \in Int /\ Least(Min(S), S)
<1> DEFINE less == OpToRel(<, Nat)
           T == {x - b : x \in S}
<1>0. \A x, y \in Nat : y < x => <<y, x>> \in less
  BY DEF OpToRel
<1>1. IsWellFoundedOn(less, Nat)
  BY NatLessThanWellFounded
<1> HIDE DEF less
<1>2. \A x \in S : x \in Int /\ x - b \in Nat
  OBVIOUS
<1>3. T \in SUBSET Nat /\ T # {}
  BY <1>2
<1> HIDE DEF T
<1>4. PICK t \in T : \A y \in T : ~ (<<y, t>> \in less)
  BY <1>1, <1>3, WFMin
<1>5. \A y \in T : y \in Nat /\ t \in Nat /\ ~ (y < t)
  BY <1>0, <1>3, <1>4
<1>6. PICK c \in S : t = c - b
  BY DEF T
<1>7. \A x \in S : x - b \in T
  BY DEF T
<1>8. \A x \in S : c <= x
  <2> SUFFICES ASSUME NEW x \in S PROVE c <= x
    OBVIOUS
  <2>1. x - b \in Nat /\ c - b \in Nat /\ ~ (x - b < c - b) /\ x \in Int /\ c \in Int
    BY <1>2, <1>5, <1>6, <1>7
  <2> QED BY <2>1
<1>9. Min(S) \in S /\ \A x \in S : Min(S) <= x
  BY <1>8 DEF Min
<1> QED
  BY <1>9 DEF Least

(* What is left below the first n certificates of the lengths they allow,  *)
(* and of the length of the path.                                          *)
RoomDues(n) ==
    {Size - Consumed(1, n)} \cup
    UNION {{k - Consumed(h + 1, n) : k \in in.path[h].pathLen} : h \in 1 .. n}

LEMMA PathLenIsLimit ==
    ASSUME in \in Input
    PROVE  \A i \in 1 .. Size : in.path[i].pathLen \in Limit /\ in.path[i].ca \in BOOLEAN
<1>1. in.path \in Seq(Cert)
  BY ChainType
<1>2. \A i \in 1 .. Size : in.path[i] \in Cert
  BY <1>1 DEF Size
<1> QED
  BY <1>2 DEF Cert

LEMMA ConsumedAtMost ==
    ASSUME NEW a \in Nat, NEW n \in Nat, a >= 1
    PROVE  Consumed(a, n) \in Nat /\ Consumed(a, n) <= n
<1> DEFINE C == {j \in a .. n : ~ in.path[j].selfIssued}
           D == {j \in 1 .. n : ~ in.path[j].selfIssued}
<1>1. C \in SUBSET D
  OBVIOUS
<1>2. IsFiniteSet(D)
  <2>1. IsFiniteSet(1 .. n) /\ D \in SUBSET (1 .. n)
    BY FS_Interval
  <2> HIDE DEF D
  <2> QED BY <2>1, FS_Subset
<1>3. Cardinality(C) <= Cardinality(D)
  <2> HIDE DEF C, D
  <2> QED BY <1>1, <1>2, FS_Subset
<1>4. Cardinality(C) = Consumed(a, n) /\ Cardinality(D) = Consumed(1, n)
  BY DEF Consumed
<1>5. Consumed(a, n) \in Nat
  BY ConsumedType
<1>6. Consumed(1, n) \in Nat /\ Consumed(1, n) <= n
  BY ConsumedBound
<1> HIDE DEF C, D
<1> QED
  BY <1>3, <1>4, <1>5, <1>6

LEMMA RoomDuesType ==
    ASSUME in \in Input, NEW n \in 0 .. Size
    PROVE  /\ RoomDues(n) \in SUBSET Int /\ Consumed(1, n) \in Nat
           /\ \A h \in 1 .. n : \A k \in in.path[h].pathLen :
                 k \in Nat /\ Consumed(h + 1, n) \in Nat
           /\ Min(RoomDues(n)) \in Int
           /\ Least(Min(RoomDues(n)), RoomDues(n))
<1>1. n \in Nat /\ Size \in Nat /\ n <= Size
  BY InputFields
<1>2. Consumed(1, n) \in Nat /\ Consumed(1, n) <= n
  BY <1>1, ConsumedBound
<1>3. ASSUME NEW h \in 1 .. n, NEW k \in in.path[h].pathLen
      PROVE  k \in Nat /\ Consumed(h + 1, n) \in Nat /\ Consumed(h + 1, n) <= n
  <2>1. h \in 1 .. Size /\ h + 1 \in Nat /\ h + 1 >= 1
    BY <1>1
  <2>2. k \in Nat
    BY <1>3, <2>1, PathLenIsLimit DEF Limit
  <2> QED BY <1>1, <2>1, <2>2, ConsumedAtMost
<1>4. \A x, y \in Nat : x - y \in Int /\ (y <= n => -n <= x - y)
  BY <1>1
<1>5. Size - Consumed(1, n) \in Int /\ -n <= Size - Consumed(1, n)
  BY <1>1, <1>2, <1>4
<1>6. \A h \in 1 .. n : \A k \in in.path[h].pathLen :
         k - Consumed(h + 1, n) \in Int /\ -n <= k - Consumed(h + 1, n)
  BY <1>3, <1>4
<1>7. \A d \in RoomDues(n) : d \in Int /\ -n <= d
  BY <1>5, <1>6 DEF RoomDues
<1>8. RoomDues(n) # {} /\ -n \in Int
  BY <1>1 DEF RoomDues
<1>9. Min(RoomDues(n)) \in Int /\ Least(Min(RoomDues(n)), RoomDues(n))
  BY <1>7, <1>8, LeastExists
<1> QED
  BY <1>2, <1>3, <1>7, <1>9

(* What a certificate takes off the room.                                  *)
Off(self, r) == IF self THEN r ELSE r - 1

LEMMA RoomDuesNext ==
    ASSUME in \in Input, NEW n \in Nat, n < Size
    PROVE  RoomDues(n + 1)
              = {Off(in.path[n + 1].selfIssued, d) : d \in RoomDues(n)}
                \cup in.path[n + 1].pathLen
<1> DEFINE self == in.path[n + 1].selfIssued
<1>1. /\ Size \in Nat /\ n \in 0 .. Size /\ n + 1 \in 1 .. Size /\ self \in BOOLEAN
      /\ n + 1 \in Nat
  BY InputFields
<1> HIDE DEF self
<1>2. /\ Consumed(1, n) \in Nat
      /\ \A h \in 1 .. n : \A k \in in.path[h].pathLen :
            k \in Nat /\ Consumed(h + 1, n) \in Nat
  BY <1>1, RoomDuesType
<1>3. ASSUME NEW a \in Nat, a <= n + 1
      PROVE  Consumed(a, n + 1) = IF self THEN Consumed(a, n) ELSE Consumed(a, n) + 1
  BY <1>3, ConsumedNext DEF self
<1>0. ASSUME NEW x \in Nat, NEW d \in Nat
      PROVE  x - (IF self THEN d ELSE d + 1) = Off(self, x - d)
  BY <1>1 DEF Off
<1>4. Size - Consumed(1, n + 1) = Off(self, Size - Consumed(1, n))
  <2>1. 1 \in Nat /\ 1 <= n + 1
    OBVIOUS
  <2>2. Consumed(1, n + 1) = IF self THEN Consumed(1, n) ELSE Consumed(1, n) + 1
    BY <1>3, <2>1
  <2> QED BY <1>0, <1>1, <1>2, <2>2
<1>5. ASSUME NEW h \in 1 .. n, NEW k \in in.path[h].pathLen
      PROVE  k - Consumed(h + 1, n + 1) = Off(self, k - Consumed(h + 1, n))
  <2>1. h + 1 \in Nat /\ h + 1 <= n + 1
    OBVIOUS
  <2>2. Consumed(h + 1, n + 1)
          = IF self THEN Consumed(h + 1, n) ELSE Consumed(h + 1, n) + 1
    BY <1>3, <2>1
  <2>3. k \in Nat /\ Consumed(h + 1, n) \in Nat
    BY <1>2
  <2> QED BY <1>0, <2>2, <2>3
<1>6. ASSUME NEW k \in in.path[n + 1].pathLen
      PROVE  k - Consumed(n + 1 + 1, n + 1) = k
  <2>1. n + 1 + 1 \in Nat /\ n + 1 < n + 1 + 1
    OBVIOUS
  <2>2. Consumed(n + 1 + 1, n + 1) = 0
    BY <1>1, <2>1, ConsumedType
  <2>3. k \in Nat
    BY <1>1, <1>6, PathLenIsLimit DEF Limit
  <2> QED BY <2>2, <2>3
<1>7. \A h \in 1 .. n + 1 : h \in 1 .. n \/ h = n + 1
  OBVIOUS
<1>8. \A h \in 1 .. n : h \in 1 .. n + 1
  OBVIOUS
<1> DEFINE Old == RoomDues(n)
           New == RoomDues(n + 1)
           own == in.path[n + 1].pathLen
<1>9. ASSUME NEW d \in New PROVE d \in {Off(self, x) : x \in Old} \cup own
  <2>1. CASE d = Size - Consumed(1, n + 1)
    BY <1>4, <2>1 DEF RoomDues
  <2>2. CASE \E h \in 1 .. n + 1 : \E k \in in.path[h].pathLen :
                d = k - Consumed(h + 1, n + 1)
    <3>0. PICK h \in 1 .. n + 1 :
             \E k \in in.path[h].pathLen : d = k - Consumed(h + 1, n + 1)
      BY <2>2
    <3>1. PICK k \in in.path[h].pathLen : d = k - Consumed(h + 1, n + 1)
      BY <3>0
    <3>2. CASE h = n + 1
      BY <1>6, <3>1, <3>2
    <3>3. CASE h \in 1 .. n
      <4>1. k - Consumed(h + 1, n) \in Old
        BY <3>1, <3>3 DEF RoomDues
      <4> HIDE DEF Old
      <4> QED BY <1>5, <3>1, <3>3, <4>1
    <3> QED BY <1>7, <3>2, <3>3
  <2> QED BY <2>1, <2>2 DEF RoomDues
<1>10. ASSUME NEW x \in Old PROVE Off(self, x) \in New
  <2>1. CASE x = Size - Consumed(1, n)
    BY <1>4, <2>1 DEF RoomDues
  <2>2. CASE \E h \in 1 .. n : \E k \in in.path[h].pathLen : x = k - Consumed(h + 1, n)
    BY <1>5, <1>8, <2>2 DEF RoomDues
  <2> QED BY <2>1, <2>2 DEF RoomDues
<1>11. ASSUME NEW k \in own PROVE k \in New
  <2>1. n + 1 \in 1 .. n + 1
    OBVIOUS
  <2> QED BY <1>6, <2>1 DEF RoomDues
<1> HIDE DEF Old, New, own
<1>12. New = {Off(self, x) : x \in Old} \cup own
  BY <1>9, <1>10, <1>11
<1> QED
  BY <1>12 DEF Old, New, own, self

(* The room below a certificate is the least of what the one above it left *)
(* and its own.                                                            *)
LEMMA RoomNext ==
    ASSUME in \in Input, NEW n \in Nat, n < Size
    PROVE  Min(RoomDues(n + 1))
             = Min({IF in.path[n + 1].selfIssued THEN Min(RoomDues(n))
                    ELSE Min(RoomDues(n)) - 1} \cup in.path[n + 1].pathLen)
<1> DEFINE self == in.path[n + 1].selfIssued
           own == in.path[n + 1].pathLen
           Old == RoomDues(n)
           New == RoomDues(n + 1)
           m == Min(New)
           r == Min(Old)
           S == {Off(self, r)} \cup own
<1>1. /\ Size \in Nat /\ n \in 0 .. Size /\ n + 1 \in 0 .. Size
      /\ n + 1 \in 1 .. Size /\ self \in BOOLEAN
  BY InputFields
<1>2. New = {Off(self, d) : d \in Old} \cup own
  BY RoomDuesNext
<1>3. /\ Old \in SUBSET Int /\ New \in SUBSET Int
      /\ r \in Int /\ Least(r, Old) /\ m \in Int /\ Least(m, New)
  BY <1>1, RoomDuesType
<1>4. S = {IF self THEN Min(Old) ELSE Min(Old) - 1} \cup own
  BY DEF Off
<1> HIDE DEF self, own, Old, New, m, r
<1>5. r \in Old /\ (\A d \in Old : r <= d) /\ m \in New /\ \A d \in New : m <= d
  BY <1>3 DEF Least
<1>6. \A x, y \in Int : /\ Off(self, x) \in Int
                        /\ x <= y => Off(self, x) <= Off(self, y)
  BY <1>1 DEF Off
<1>7. S \in SUBSET Int
  BY <1>2, <1>3, <1>6
<1>8. S \in SUBSET New
  BY <1>2, <1>5
<1>9. m \in S
  <2>1. CASE m \in own
    BY <2>1
  <2>2. CASE \E d \in Old : m = Off(self, d)
    <3>1. PICK d \in Old : m = Off(self, d)
      BY <2>2
    <3>2. r \in Int /\ d \in Int /\ r <= d
      BY <1>3, <1>5
    <3>3. Off(self, r) <= m /\ Off(self, r) \in Int
      BY <1>6, <3>1, <3>2
    <3>4. m <= Off(self, r)
      BY <1>5, <1>8
    <3>5. m = Off(self, r)
      BY <1>3, <3>3, <3>4
    <3> QED BY <3>5
  <2> QED BY <1>2, <1>5, <2>1, <2>2
<1>10. Least(m, S)
  BY <1>5, <1>8, <1>9 DEF Least
<1> HIDE DEF S
<1>11. m = Min(S)
  BY <1>7, <1>10, LeastIsMin
<1> QED
  BY <1>4, <1>11 DEF m, New, Old, own, self

LEMMA RoomBelowIs ==
    ASSUME in \in Input
    PROVE  \A n \in 0 .. Size : RoomBelow[n] = Min(RoomDues(n))
<1> DEFINE S == 0 .. Size
           D(f, n) == IF n = 0 THEN Size
                      ELSE Min({IF in.path[n].selfIssued THEN f[n - 1]
                                ELSE f[n - 1] - 1} \cup in.path[n].pathLen)
           G == [n \in S |-> Min(RoomDues(n))]
<1>0. Size \in Nat
  BY InputFields
<1>1. Min(RoomDues(0)) = Size
  <2>1. Consumed(1, 0) = 0
    BY ConsumedType
  <2>2. RoomDues(0) = {Size}
    BY <1>0, <2>1 DEF RoomDues
  <2>3. Least(Size, {Size}) /\ {Size} \in SUBSET Int
    BY <1>0 DEF Least
  <2> QED BY <2>2, <2>3, LeastIsMin
<1>2. \A n \in S : Min(RoomDues(n)) = D(G, n)
  <2> SUFFICES ASSUME NEW n \in S PROVE Min(RoomDues(n)) = D(G, n)
    OBVIOUS
  <2>1. CASE n = 0
    BY <1>1, <2>1
  <2>2. CASE n # 0
    <3>1. n - 1 \in Nat /\ n - 1 < Size /\ n - 1 + 1 = n /\ n - 1 \in S
      BY <1>0, <2>2
    <3>2. G[n - 1] = Min(RoomDues(n - 1))
      BY <3>1
    <3>3. Min(RoomDues(n - 1 + 1))
            = Min({IF in.path[n - 1 + 1].selfIssued THEN Min(RoomDues(n - 1))
                   ELSE Min(RoomDues(n - 1)) - 1} \cup in.path[n - 1 + 1].pathLen)
      BY <3>1, RoomNext
    <3> HIDE DEF G
    <3> QED BY <2>2, <3>1, <3>2, <3>3
  <2> QED BY <2>1, <2>2
<1>3. RoomBelow = CHOOSE f : f = [n \in S |-> D(f, n)]
  BY DEF RoomBelow
<1>4. G = [n \in S |-> D(G, n)]
  <2> HIDE DEF D
  <2> QED BY <1>2
<1>5. \A n \in S : G[n] = Min(RoomDues(n))
  OBVIOUS
<1> HIDE DEF G
<1>6. RoomBelow = [n \in S |-> D(RoomBelow, n)]
  <2> HIDE DEF D
  <2> QED BY <1>3, <1>4
<1>7. \A n \in S : RoomBelow[n] = D(RoomBelow, n) /\ G[n] = D(G, n)
  <2> HIDE DEF D
  <2> QED BY <1>4, <1>6
<1>8. \A n \in S : RoomBelow[n] = G[n]
  <2> DEFINE Differ == {n \in S : RoomBelow[n] # G[n]}
             n == Min(Differ)
  <2> SUFFICES ASSUME Differ # {} PROVE FALSE
    OBVIOUS
  <2>1. Differ \in SUBSET Int /\ (\A x \in Differ : 0 <= x) /\ 0 \in Int
    BY <1>0
  <2> HIDE DEF Differ
  <2>2. n \in Differ /\ \A m \in Differ : n <= m
    BY <2>1, LeastExists DEF Least
  <2> HIDE DEF n
  <2>3. n \in S /\ RoomBelow[n] # G[n]
    BY <2>2 DEF Differ
  <2>4. CASE n = 0
    BY <1>7, <2>3, <2>4
  <2>5. CASE n # 0
    <3>1. n - 1 \in S /\ ~ (n <= n - 1)
      BY <1>0, <2>3, <2>5
    <3>2. RoomBelow[n - 1] = G[n - 1]
      BY <2>2, <3>1 DEF Differ
    <3> QED BY <1>7, <2>3, <2>5, <3>2
  <2> QED BY <2>4, <2>5
<1> QED
  BY <1>5, <1>8

(* More certificates consume no fewer levels.                              *)
LEMMA ConsumedGrows ==
    ASSUME NEW a \in Nat, NEW m \in Nat, NEW n \in Nat, m <= n
    PROVE  Consumed(a, m) <= Consumed(a, n)
<1> DEFINE C == {j \in a .. m : ~ in.path[j].selfIssued}
           D == {j \in a .. n : ~ in.path[j].selfIssued}
<1>1. C \in SUBSET D
  OBVIOUS
<1>2. IsFiniteSet(D)
  <2>1. D \in SUBSET (a .. n)
    OBVIOUS
  <2> HIDE DEF D
  <2>2. IsFiniteSet(a .. n)
    BY FS_Interval
  <2> QED BY <2>1, <2>2, FS_Subset
<1>3. Cardinality(C) <= Cardinality(D)
  <2> HIDE DEF C, D
  <2> QED BY <1>1, <1>2, FS_Subset
<1> QED
  BY <1>3 DEF Consumed

(* The room runs out exactly where the intermediate certificates below one *)
(* of them consume more levels than it allows.                             *)
LEMMA TooLongIs ==
    ASSUME in \in Input
    PROVE  TooLong <=> \E h \in 1 .. Size - 1 : \E k \in in.path[h].pathLen :
                          k < Consumed(h + 1, Size - 1)
<1>0. Size \in Nat /\ Size >= 1
  BY InputFields
<1>1. ASSUME TooLong
      PROVE  \E h \in 1 .. Size - 1 : \E k \in in.path[h].pathLen :
                k < Consumed(h + 1, Size - 1)
  <2>1. PICK i \in 1 .. Size - 1 : ~ in.path[i].selfIssued /\ RoomBelow[i - 1] <= 0
    BY <1>1 DEF TooLong
  <2>2. /\ i - 1 \in 0 .. Size /\ i - 1 \in Nat /\ i - 1 < Size /\ i \in Nat
        /\ i <= Size - 1 /\ Size - 1 \in Nat /\ i - 1 + 1 = i
    BY <1>0
  <2> DEFINE n == i - 1
  <2>3. Min(RoomDues(n)) <= 0 /\ Min(RoomDues(n)) \in RoomDues(n)
    BY <2>1, <2>2, RoomBelowIs, RoomDuesType DEF Least
  <2>4. Consumed(1, n) \in Nat /\ Consumed(1, n) <= n
    BY <2>2, ConsumedBound
  <2> HIDE DEF n
  <2>5. n \in Nat /\ n < Size
    BY <2>2 DEF n
  <2>6. ~ (Size - Consumed(1, n) <= 0)
    BY <1>0, <2>4, <2>5
  <2>7. PICK h \in 1 .. n : \E k \in in.path[h].pathLen :
           Min(RoomDues(n)) = k - Consumed(h + 1, n)
    BY <2>3, <2>6 DEF RoomDues
  <2>8. PICK k \in in.path[h].pathLen : Min(RoomDues(n)) = k - Consumed(h + 1, n)
    BY <2>7
  <2>9. k \in Nat /\ Consumed(h + 1, n) \in Nat
    BY <2>2, <2>8, RoomDuesType DEF n
  <2>10. k <= Consumed(h + 1, n)
    BY <2>3, <2>8, <2>9
  <2>11. h + 1 \in Nat /\ h + 1 <= n + 1 /\ h \in 1 .. Size - 1
    BY <2>2, <2>5 DEF n
  <2>12. Consumed(h + 1, i) = Consumed(h + 1, n) + 1
    <3>1. Consumed(h + 1, n + 1) = Consumed(h + 1, n) + 1
      BY <2>1, <2>2, <2>5, <2>11, ConsumedNext DEF n
    <3> QED BY <2>2, <3>1 DEF n
  <2>13. Consumed(h + 1, i) <= Consumed(h + 1, Size - 1)
         /\ Consumed(h + 1, Size - 1) \in Nat
    BY <2>2, <2>11, ConsumedGrows, ConsumedType
  <2>14. k < Consumed(h + 1, Size - 1)
    BY <2>9, <2>10, <2>12, <2>13
  <2> QED BY <2>8, <2>11, <2>14
<1>2. ASSUME NEW h \in 1 .. Size - 1, NEW k \in in.path[h].pathLen,
             k < Consumed(h + 1, Size - 1)
      PROVE  TooLong
  <2>1. /\ h \in Nat /\ h + 1 \in Nat /\ h \in 1 .. Size /\ Size - 1 \in Nat
        /\ h >= 1
    BY <1>0
  <2>2. k \in Nat
    BY <1>2, <2>1, PathLenIsLimit DEF Limit
  <2> DEFINE T == {n \in Nat : k < Consumed(h + 1, n)}
             i == Min(T)
  <2>3. T \in SUBSET Int /\ T # {} /\ (\A x \in T : 0 <= x) /\ 0 \in Int
    BY <1>2, <2>1
  <2>4. i \in T /\ \A x \in T : i <= x
    <3> HIDE DEF T
    <3> QED BY <2>3, LeastExists DEF Least
  <2> HIDE DEF i
  <2>5. i \in Nat /\ k < Consumed(h + 1, i) /\ i <= Size - 1
    BY <1>2, <2>1, <2>4
  <2>6. h + 1 <= i
    <3>1. i < h + 1 => Consumed(h + 1, i) = 0
      BY <2>1, <2>5, ConsumedType
    <3> QED BY <2>1, <2>2, <2>5, <3>1
  <2> DEFINE n == i - 1
  <2>7. n \in Nat /\ n + 1 = i /\ h \in 1 .. n /\ n \in 0 .. Size /\ ~ (i <= n)
        /\ h + 1 <= n + 1 /\ i \in 1 .. Size - 1
    BY <1>0, <2>1, <2>5, <2>6
  <2>8. Consumed(h + 1, n) \in Nat /\ ~ (k < Consumed(h + 1, n))
    BY <2>1, <2>4, <2>7, ConsumedType
  <2> HIDE DEF n
  <2>9. Consumed(h + 1, n + 1) = IF in.path[n + 1].selfIssued THEN Consumed(h + 1, n)
                                 ELSE Consumed(h + 1, n) + 1
    BY <2>1, <2>7, ConsumedNext
  <2>10. ~ in.path[i].selfIssued
    BY <2>5, <2>7, <2>8, <2>9
  <2>11. k - Consumed(h + 1, n) \in RoomDues(n)
    BY <2>7 DEF RoomDues
  <2>12. Min(RoomDues(n)) \in Int /\ Min(RoomDues(n)) <= k - Consumed(h + 1, n)
    BY <2>7, <2>11, RoomDuesType DEF Least
  <2>13. k - Consumed(h + 1, n) <= 0
    <3>1. k < Consumed(h + 1, n) + 1
      BY <2>5, <2>7, <2>9, <2>10
    <3> QED BY <2>2, <2>8, <3>1
  <2>14. Min(RoomDues(n)) <= 0
    BY <2>2, <2>8, <2>12, <2>13
  <2>15. RoomBelow[i - 1] <= 0
    BY <2>7, <2>14, RoomBelowIs DEF n
  <2> QED BY <2>7, <2>10, <2>15 DEF TooLong
<1> QED
  BY <1>1, <1>2

(* What check_path_len asks.                                               *)
LengthsKept ==
    \A k \in 1 .. Size - 1 :
       \A limit \in in.path[k].pathLen : Cardinality(Below(k)) <= limit

LEMMA LengthsKeptAre ==
    ASSUME in \in Input, \A i \in 1 .. Size - 1 : in.path[i].ca, ~ Leaf.ca
    PROVE  LengthsKept <=> ~ TooLong
<1>0. Size \in Nat /\ Size >= 1
  BY InputFields
<1>1. ASSUME NEW h \in 1 .. Size - 1
      PROVE  /\ Cardinality(Below(h)) = Consumed(h + 1, Size - 1)
             /\ Consumed(h + 1, Size - 1) \in Nat
             /\ \A k \in in.path[h].pathLen : k \in Nat
  <2>1. \A j \in h + 1 .. Size : j = Size \/ j \in h + 1 .. Size - 1
    BY <1>0
  <2>2. \A j \in h + 1 .. Size - 1 : j \in h + 1 .. Size /\ j \in 1 .. Size - 1
    BY <1>0
  <2>3. Below(h) = {j \in h + 1 .. Size - 1 : ~ in.path[j].selfIssued}
    BY <2>1, <2>2 DEF Below, Leaf
  <2>4. h \in 1 .. Size /\ h + 1 \in Nat /\ Size - 1 \in Nat
    BY <1>0
  <2> QED BY <2>3, <2>4, ConsumedType, PathLenIsLimit DEF Consumed, Limit
<1>2. \A x, y \in Nat : ~ (x <= y) <=> y < x
  OBVIOUS
<1>3. ~ LengthsKept <=> \E h \in 1 .. Size - 1 : \E k \in in.path[h].pathLen :
                           k < Consumed(h + 1, Size - 1)
  BY <1>1, <1>2 DEF LengthsKept
<1> QED
  BY <1>3, TooLongIs

(* The inductive invariant behind PathLenAsRFC.                            *)
LengthsSorted ==
    /\ stage = "PATH_LEN" => ~ LengthsKept
    /\ stage \notin {"pathLen", "PATH_LEN"} => LengthsKept

LEMMA SortedStep == LengthsSorted /\ [Next]_vars => LengthsSorted'
<1> SUFFICES ASSUME LengthsSorted, [Next]_vars PROVE LengthsSorted'
  OBVIOUS
<1>1. in' = in
  BY DEF Next, vars, CheckPathLen, CheckNames, CheckEku, MappingInhibited, Match, Map,
     TreeEmpty, Adopt, WrapUp, Gate, tree
<1>2. LengthsKept' = LengthsKept
  BY <1>1 DEF LengthsKept, Below, Size
<1>3. CASE CheckPathLen
  BY <1>2, <1>3 DEF CheckPathLen, Gate, LengthsSorted, LengthsKept
<1>4. CASE ~ CheckPathLen
  <2>1. \/ stage' = stage
        \/ stage \notin {"pathLen", "PATH_LEN"} /\ stage' \notin {"pathLen", "PATH_LEN"}
    BY <1>4 DEF Next, vars, CheckNames, CheckEku, MappingInhibited, Match, Map,
       TreeEmpty, Processed, Adopt, WrapUp, Gate
  <2> QED BY <1>2, <2>1 DEF LengthsSorted
<1> QED
  BY <1>3, <1>4

(* PathLenAsRFC: check_path_len, which counts below every CA anew, refuses *)
(* the paths on which RFC 5280's single running count runs out, unless the *)
(* leaf is itself a CA.                                                    *)
THEOREM LengthsAsRFC == Spec => []PathLenAsRFC
<1>1. Init => LengthsSorted
  BY DEF Init, LengthsSorted
<1>2. TypeOK /\ LengthsSorted => PathLenAsRFC
  BY LengthsKeptAre DEF TypeOK, LengthsSorted, PathLenAsRFC
<1> QED
  BY <1>1, <1>2, SortedStep, TypeCorrect, PTL DEF Spec
==============================================================================
