------------------------- MODULE EvidenceAnswerProofs -------------------------
(***************************************************************************)
(* What the answers of the store are worth later.                          *)
(*                                                                         *)
(* A conflict is answered for a cause that does not go away.  The causes   *)
(* that need an argument are the limits of seal: they are on numbers of    *)
(* distinct contents and on a sum over them, so the first part shows that  *)
(* neither can shrink while rows are added; then comes the invariant.      *)
(*                                                                         *)
(* Two successes for one request say the same, except for the list of      *)
(* refused evidence in a result: its order may differ, and one of them may *)
(* list refused certificates that the question does not reach.  The last   *)
(* part shows this and the conditions under which an answer is the same    *)
(* for ever and can be read back.                                          *)
(***************************************************************************)
EXTENDS EvidenceStoreProofs, FiniteSetTheorems

(* The distinct contents of one kind among the rows R.                     *)
ContentsOf(R, kind) == {row.content : row \in {r \in R : r.kind = kind}}

LEMMA ContentsOfFinite ==
    ASSUME NEW R \in SUBSET Row, IsFiniteSet(R), NEW kind
    PROVE  /\ ContentsOf(R, kind) \in SUBSET Content
           /\ IsFiniteSet(ContentsOf(R, kind))
  <1> DEFINE mine == {r \in R : r.kind = kind}
             f == [r \in mine |-> r.content]
  <1>1. IsFiniteSet(mine)
    <2>1. mine \in SUBSET R
      OBVIOUS
    <2> HIDE DEF mine
    <2> QED
      BY <2>1, FS_Subset
  <1>2. f \in Surjection(mine, ContentsOf(R, kind))
    BY DEF ContentsOf, Surjection
  <1>3. ContentsOf(R, kind) \in SUBSET Content
    BY DEF ContentsOf, Row
  <1> HIDE DEF mine, f
  <1> QED
    BY <1>1, <1>2, <1>3, FS_Surjection

LEMMA ContentsOfGrows ==
    ASSUME NEW R, NEW Q, R \subseteq Q, NEW kind
    PROVE  ContentsOf(R, kind) \subseteq ContentsOf(Q, kind)
  BY DEF ContentsOf

(* The manifest lists each content of a kind once, although it may have    *)
(* been uploaded under many refs and at many times.                        *)
LEMMA EarliestLists ==
    ASSUME NEW R \in SUBSET Row, NEW kind
    PROVE  /\ \A e \in Earliest(R, kind) : e.content \in ContentsOf(R, kind)
           /\ \A c \in ContentsOf(R, kind) :
                 \E e \in Earliest(R, kind) : e.content = c
           /\ \A e, d \in Earliest(R, kind) : e.content = d.content => e = d
  <1>1. \A e \in Earliest(R, kind) : e.content \in ContentsOf(R, kind)
    BY DEF Earliest, ContentsOf
  <1>2. ASSUME NEW c \in ContentsOf(R, kind)
        PROVE  \E e \in Earliest(R, kind) : e.content = c
    <2> DEFINE same == {r \in R : r.kind = kind /\ r.content = c}
               times == {r.at : r \in same}
    <2>1. times \subseteq Nat /\ times # {}
      BY DEF Row, Time, ContentsOf
    <2>2. PICK t \in times : \A u \in times : t <= u
      <3> HIDE DEF times
      <3> QED
        BY <2>1, EarliestExists
    <2>3. PICK first \in same : first.at = t
      OBVIOUS
    <2>4. \A r \in same : first.at <= r.at
      BY <2>2, <2>3
    <2>5. [content |-> first.content, at |-> first.at] \in Earliest(R, kind)
      BY <2>4 DEF Earliest
    <2> QED
      BY <2>5
  <1>3. ASSUME NEW e \in Earliest(R, kind), NEW d \in Earliest(R, kind),
               e.content = d.content
        PROVE  e = d
    <2> DEFINE mine == {r \in R : r.kind = kind}
    <2>1. PICK p \in mine : /\ e = [content |-> p.content, at |-> p.at]
                            /\ \A q \in mine : q.content = p.content => p.at <= q.at
      BY DEF Earliest
    <2>2. PICK p2 \in mine : /\ d = [content |-> p2.content, at |-> p2.at]
                             /\ \A q \in mine : q.content = p2.content => p2.at <= q.at
      BY DEF Earliest
    <2>3. p.content = p2.content
      BY <1>3, <2>1, <2>2
    <2>4. p.at <= p2.at /\ p2.at <= p.at
      BY <2>1, <2>2, <2>3
    <2>5. p.at \in Nat /\ p2.at \in Nat
      BY DEF Row, Time
    <2>6. p.at = p2.at
      BY <2>4, <2>5
    <2> QED
      BY <2>1, <2>2, <2>3, <2>6
  <1> QED
    BY <1>1, <1>2, <1>3

LEMMA EarliestCounts ==
    ASSUME NEW R \in SUBSET Row, IsFiniteSet(R), NEW kind
    PROVE  /\ Cardinality(Earliest(R, kind)) = Cardinality(ContentsOf(R, kind))
           /\ {e.content : e \in Earliest(R, kind)} = ContentsOf(R, kind)
  <1> DEFINE f == [e \in Earliest(R, kind) |-> e.content]
  <1>1. f \in Injection(Earliest(R, kind), ContentsOf(R, kind))
    BY EarliestLists DEF Injection, IsInjective
  <1>2. f \in Surjection(Earliest(R, kind), ContentsOf(R, kind))
    BY EarliestLists DEF Surjection
  <1>3. {e.content : e \in Earliest(R, kind)} = ContentsOf(R, kind)
    BY EarliestLists
  <1>4. IsFiniteSet(ContentsOf(R, kind))
    BY ContentsOfFinite
  <1> HIDE DEF f
  <1> QED
    BY <1>1, <1>2, <1>3, <1>4, FS_Injection

------------------------------------------------------------------------------
(* The sum over the CRLs.  It is defined by a recursion that takes the     *)
(* contents in some order; it is the size of a set of pairs, one for each  *)
(* entry of each content, whatever the order.                              *)

Units(S) ==
    {p \in Content \X Nat : p[1] \in S /\ p[2] \in 1 .. Entries[p[1]]}

Weight(S) == Cardinality(Units(S))

LEMMA UnitsOfOne ==
    ASSUME NEW c \in Content
    PROVE  /\ IsFiniteSet(Units({c}))
           /\ Weight({c}) = Entries[c]
  <1>1. Entries[c] \in Nat
    BY ContentType
  <1>2. Units({c}) = {c} \X (1 .. Entries[c])
    <2>1. ASSUME NEW p \in Units({c}) PROVE p \in {c} \X (1 .. Entries[c])
      BY DEF Units
    <2>2. ASSUME NEW p \in {c} \X (1 .. Entries[c]) PROVE p \in Units({c})
      BY <1>1 DEF Units
    <2> QED
      BY <2>1, <2>2
  <1>3. /\ IsFiniteSet(1 .. Entries[c])
        /\ Cardinality(1 .. Entries[c]) = Entries[c]
    BY <1>1, FS_Interval
  <1>4. IsFiniteSet({c}) /\ Cardinality({c}) = 1
    BY FS_Singleton
  <1>5. /\ IsFiniteSet({c} \X (1 .. Entries[c]))
        /\ Cardinality({c} \X (1 .. Entries[c]))
              = Cardinality({c}) * Cardinality(1 .. Entries[c])
    BY <1>3, <1>4, FS_Product
  <1>6. 1 * Entries[c] = Entries[c]
    BY <1>1
  <1> QED
    BY <1>2, <1>3, <1>4, <1>5, <1>6 DEF Weight

LEMMA UnitsFinite ==
    ASSUME NEW S \in SUBSET Content, IsFiniteSet(S)
    PROVE  IsFiniteSet(Units(S)) /\ Weight(S) \in Nat
  <1> DEFINE f == [c \in S |-> Units({c})]
             Parts == {Units({c}) : c \in S}
  <1>1. f \in Surjection(S, Parts)
    BY DEF Surjection
  <1>2. \A T \in Parts : IsFiniteSet(T)
    BY UnitsOfOne
  <1>3. Units(S) \in SUBSET (UNION Parts)
    <2>1. ASSUME NEW p \in Units(S) PROVE p \in Units({p[1]}) /\ p[1] \in S
      BY DEF Units
    <2> QED
      BY <2>1
  <1> HIDE DEF f, Parts
  <1>4. IsFiniteSet(UNION Parts)
    BY <1>1, <1>2, FS_Surjection, FS_UNION
  <1>5. IsFiniteSet(Units(S))
    BY <1>3, <1>4, FS_Subset
  <1> QED
    BY <1>5, FS_CardinalityType DEF Weight

LEMMA WeightWithout ==
    ASSUME NEW S \in SUBSET Content, IsFiniteSet(S), NEW c \in S
    PROVE  Weight(S) = Entries[c] + Weight(S \ {c})
  <1>1. Units(S) = Units({c}) \cup Units(S \ {c})
    BY DEF Units
  <1>2. Units({c}) \cap Units(S \ {c}) = {}
    BY DEF Units
  <1>3. IsFiniteSet(S \ {c}) /\ S \ {c} \in SUBSET Content
    BY FS_RemoveElement
  <1>4. /\ IsFiniteSet(Units({c})) /\ Weight({c}) = Entries[c]
        /\ IsFiniteSet(Units(S \ {c})) /\ Weight(S \ {c}) \in Nat
    BY <1>3, UnitsOfOne, UnitsFinite
  <1>5. Cardinality(Units({c}) \cup Units(S \ {c})) =
           Cardinality(Units({c})) + Cardinality(Units(S \ {c})) - Cardinality({})
    BY <1>2, <1>4, FS_Union
  <1>6. Cardinality({}) = 0
    BY FS_EmptySet
  <1>7. Entries[c] \in Nat
    BY ContentType
  <1> QED
    BY <1>1, <1>4, <1>5, <1>6, <1>7 DEF Weight

LEMMA WeightGrows ==
    ASSUME NEW S \in SUBSET Content, IsFiniteSet(S), NEW T \in SUBSET S
    PROVE  Weight(T) <= Weight(S)
  <1>1. Units(T) \in SUBSET Units(S)
    BY DEF Units
  <1>2. IsFiniteSet(Units(S))
    BY UnitsFinite
  <1> QED
    BY <1>1, <1>2, FS_Subset DEF Weight

(* The contents are taken one after the other, each chosen from the rest.  *)
Taken(s) == CHOOSE x \in s : TRUE

SumIn(it, S) ==
    [s \in SUBSET S |->
        IF s = {} THEN 0 ELSE Entries[Taken(s)] + it[s \ {Taken(s)}]]

LEMMA WeightIsSum ==
    ASSUME NEW S \in SUBSET Content, IsFiniteSet(S)
    PROVE  [s \in SUBSET S |-> Weight(s)]
              = SumIn([s \in SUBSET S |-> Weight(s)], S)
  <1> DEFINE g == [s \in SUBSET S |-> Weight(s)]
  <1>1. ASSUME NEW s \in SUBSET S, s # {}
        PROVE  Weight(s) = Entries[Taken(s)] + g[s \ {Taken(s)}]
    <2>1. Taken(s) \in s
      BY <1>1 DEF Taken
    <2>2. IsFiniteSet(s) /\ s \in SUBSET Content
      BY FS_Subset
    <2>3. s \ {Taken(s)} \in SUBSET S
      OBVIOUS
    <2> QED
      BY <2>1, <2>2, <2>3, WeightWithout
  <1>2. Weight({}) = 0
    <2>1. Units({}) = {}
      BY DEF Units
    <2> QED
      BY <2>1, FS_EmptySet DEF Weight
  <1>3. \A s \in SUBSET S : g[s] = SumIn(g, S)[s]
    <2>1. ASSUME NEW s \in SUBSET S PROVE g[s] = SumIn(g, S)[s]
      <3>1. g[s] = Weight(s)
        OBVIOUS
      <3>2. SumIn(g, S)[s] = IF s = {} THEN 0
                                       ELSE Entries[Taken(s)] + g[s \ {Taken(s)}]
        BY DEF SumIn
      <3> HIDE DEF g
      <3> QED
        BY <1>1, <1>2, <3>1, <3>2
    <2> QED
      BY <2>1
  <1>4. SumIn(g, S) = [s \in SUBSET S |-> SumIn(g, S)[s]]
    BY DEF SumIn
  <1> QED
    BY <1>3, <1>4

LEMMA SumIsUnique ==
    ASSUME NEW S \in SUBSET Content, IsFiniteSet(S), NEW it, it = SumIn(it, S)
    PROVE  it[S] = Weight(S)
  <1> DEFINE Wrong == {s \in SUBSET S : it[s] # Weight(s)}
             D == {Cardinality(s) : s \in Wrong}
  <1>1. \A s \in SUBSET S : /\ IsFiniteSet(s) /\ s \in SUBSET Content
                            /\ Cardinality(s) \in Nat
    BY FS_Subset, FS_CardinalityType
  <1>2. SUFFICES ASSUME D # {} PROVE FALSE
    OBVIOUS
  <1>3. D \subseteq Nat
    BY <1>1
  <1>4. PICK n \in D : \A k \in D : n <= k
    <2> HIDE DEF D
    <2> QED
      BY <1>2, <1>3, EarliestExists
  <1>5. PICK s \in Wrong : Cardinality(s) = n
    BY <1>4
  <1>6. it[s] = IF s = {} THEN 0 ELSE Entries[Taken(s)] + it[s \ {Taken(s)}]
    <2>1. SumIn(it, S)[s] = IF s = {} THEN 0
                               ELSE Entries[Taken(s)] + it[s \ {Taken(s)}]
      BY DEF SumIn
    <2> QED
      BY <2>1
  <1>7. s # {}
    <2>1. Weight({}) = 0
      <3>1. Units({}) = {}
        BY DEF Units
      <3> QED
        BY <3>1, FS_EmptySet DEF Weight
    <2> QED
      BY <1>5, <1>6, <2>1
  <1> DEFINE rest == s \ {Taken(s)}
  <1>8. Taken(s) \in s
    BY <1>7 DEF Taken
  <1>9. Cardinality(rest) = Cardinality(s) - 1
    BY <1>1, <1>8, FS_RemoveElement
  <1>10. rest \notin Wrong
    <2>1. ASSUME rest \in Wrong PROVE FALSE
      <3>1. Cardinality(rest) \in D
        BY <2>1
      <3>2. n <= Cardinality(rest)
        BY <1>4, <3>1
      <3>3. n \in Nat
        BY <1>3, <1>4
      <3> HIDE DEF rest, D, Wrong
      <3> QED
        BY <1>5, <1>9, <3>2, <3>3
    <2> QED
      BY <2>1
  <1>11. it[rest] = Weight(rest)
    BY <1>10
  <1>12. Weight(s) = Entries[Taken(s)] + Weight(rest)
    BY <1>1, <1>8, WeightWithout
  <1> QED
    BY <1>5, <1>6, <1>7, <1>11, <1>12

LEMMA SumIsWeight ==
    ASSUME NEW S \in SUBSET Content, IsFiniteSet(S)
    PROVE  MapThenSumSet(LAMBDA c : Entries[c], S) = Weight(S)
  <1> DEFINE it == CHOOSE i : i = SumIn(i, S)
  <1>1. it = SumIn(it, S)
    BY WeightIsSum
  <1>2. MapThenSumSet(LAMBDA c : Entries[c], S) = it[S]
    BY DEF MapThenSumSet, MapThenFoldSet, SumIn, Taken
  <1> HIDE DEF it
  <1> QED
    BY <1>1, <1>2, SumIsUnique

------------------------------------------------------------------------------
(* The limits of seal *)

LEMMA ManifestCounts ==
    ASSUME NEW R \in SUBSET Row, IsFiniteSet(R)
    PROVE  /\ ManifestOf(R).certs = ContentsOf(R, "certificate")
           /\ Cardinality(ManifestOf(R).crls) = Cardinality(ContentsOf(R, "crl"))
           /\ Cardinality(ManifestOf(R).ocsps) = Cardinality(ContentsOf(R, "ocsp"))
           /\ RevocationEntries(ManifestOf(R)) = Weight(ContentsOf(R, "crl"))
  <1>1. RevocationEntries(ManifestOf(R)) = Weight(ContentsOf(R, "crl"))
    <2>1. {e.content : e \in ManifestOf(R).crls} = ContentsOf(R, "crl")
      BY EarliestCounts DEF ManifestOf
    <2>2. RevocationEntries(ManifestOf(R))
             = MapThenSumSet(LAMBDA c : Entries[c], ContentsOf(R, "crl"))
      BY <2>1 DEF RevocationEntries
    <2> QED
      BY <2>2, ContentsOfFinite, SumIsWeight
  <1>2. ManifestOf(R).certs = ContentsOf(R, "certificate")
    BY DEF ManifestOf, ContentsOf
  <1>3. /\ ManifestOf(R).crls = Earliest(R, "crl")
        /\ ManifestOf(R).ocsps = Earliest(R, "ocsp")
    BY DEF ManifestOf
  <1> QED
    BY <1>1, <1>2, <1>3, EarliestCounts

(* A set over a limit is over it with every further row.                   *)
LEMMA OverLimitGrows ==
    ASSUME NEW Q \in SUBSET Row, IsFiniteSet(Q), NEW R \in SUBSET Q,
           OverLimit(ManifestOf(R))
    PROVE  OverLimit(ManifestOf(Q))
  <1>1. IsFiniteSet(R) /\ R \in SUBSET Row
    BY FS_Subset
  <1>2. ASSUME NEW kind
        PROVE  /\ Cardinality(ContentsOf(R, kind)) \in Nat
               /\ Cardinality(ContentsOf(Q, kind)) \in Nat
               /\ Cardinality(ContentsOf(R, kind))
                     <= Cardinality(ContentsOf(Q, kind))
               /\ Weight(ContentsOf(R, kind)) \in Nat
               /\ Weight(ContentsOf(Q, kind)) \in Nat
               /\ Weight(ContentsOf(R, kind)) <= Weight(ContentsOf(Q, kind))
    <2>1. /\ IsFiniteSet(ContentsOf(R, kind)) /\ IsFiniteSet(ContentsOf(Q, kind))
          /\ ContentsOf(R, kind) \in SUBSET Content
          /\ ContentsOf(Q, kind) \in SUBSET Content
          /\ ContentsOf(R, kind) \in SUBSET ContentsOf(Q, kind)
      BY <1>1, ContentsOfFinite, ContentsOfGrows
    <2>2. /\ Cardinality(ContentsOf(R, kind)) \in Nat
          /\ Cardinality(ContentsOf(Q, kind)) \in Nat
          /\ Cardinality(ContentsOf(R, kind)) <= Cardinality(ContentsOf(Q, kind))
      BY <2>1, FS_CardinalityType, FS_Subset
    <2>3. Weight(ContentsOf(R, kind)) \in Nat /\ Weight(ContentsOf(Q, kind)) \in Nat
      BY <2>1, UnitsFinite
    <2>4. Weight(ContentsOf(R, kind)) <= Weight(ContentsOf(Q, kind))
      BY <2>1, WeightGrows
    <2> QED
      BY <2>2, <2>3, <2>4
  <1>3. CASE Cardinality(ManifestOf(R).certs) > MaxCerts
    <2>1. Cardinality(ManifestOf(Q).certs) > MaxCerts
      BY <1>1, <1>2, <1>3, ManifestCounts, LimitType
    <2> QED
      BY <2>1 DEF OverLimit, TooManyObjects
  <1>4. CASE Cardinality(ManifestOf(R).crls) + Cardinality(ManifestOf(R).ocsps)
                > MaxRevocation
    <2>1. Cardinality(ManifestOf(Q).crls) + Cardinality(ManifestOf(Q).ocsps)
             > MaxRevocation
      BY <1>1, <1>2, <1>4, ManifestCounts, LimitType
    <2> QED
      BY <2>1 DEF OverLimit, TooManyObjects
  <1>5. CASE RevocationEntries(ManifestOf(R)) > MaxEntries
    <2>1. RevocationEntries(ManifestOf(Q)) > MaxEntries
      BY <1>1, <1>2, <1>5, ManifestCounts, LimitType
    <2> QED
      BY <2>1 DEF OverLimit
  <1> QED
    BY <1>3, <1>4, <1>5 DEF OverLimit, TooManyObjects

(* A seal answers 409 exactly because of them.                             *)
LEMMA SealConflicts ==
    ASSUME NEW R, NEW B, SealStatus(R, B) = 409
    PROVE  OverLimit(ManifestOf(R))
  BY DEF SealStatus, OverLimit

------------------------------------------------------------------------------
(* Conflicts: the invariant *)

(* Why the request r is in conflict with what is stored.                   *)
Caused(r) ==
    \/ KeyTaken(r)
    \/ /\ r.op = "items"
       /\ \/ phase[r.set] = "sealed"
          \/ ~ Compatible(rows[r.set], r.batch)
    \/ r.op = "seal" /\ OverLimit(ManifestOf(rows[r.set]))
    \/ r.op = "adjudicate" /\ phase[r.set] # "absent"

FiniteRows == \A s \in SetId : IsFiniteSet(rows[s])

(* A set over a limit is never sealed.                                     *)
SealedWithin ==
    \A s \in SetId : phase[s] = "sealed" => ~ OverLimit(ManifestOf(rows[s]))

(* An upload that goes on was sent to a set that exists, so that a set     *)
(* that is not open is sealed; what is about to be saved, or was, is a     *)
(* success, so that a conflict is never replayed from an id that is used   *)
(* for the same content; and a conflict that is built has its cause.       *)
RefusingAt(w) ==
    /\ (pc[w] \in {"idempotent", "put_blob", "assert_open", "add_items"}
          /\ req[w].op = "items") => phase[req[w].set] # "absent"
    /\ pc[w] \in {"sidecar", "save_adjudication", "save"}
          => reply[w].status \in Success
    /\ (pc[w] = "respond" /\ reply[w].status = 409) => Caused(req[w])

SavedSucceeded == \A k \in Keys : idem[k] # None => idem[k].reply.status \in Success

Refusing ==
    /\ FiniteRows
    /\ SealedWithin
    /\ SavedSucceeded
    /\ \A w \in Worker : RefusingAt(w)
    /\ \A a \in replies : a.reply.status = 409 => Caused(a.req)

RefusalInv == TypeInv /\ Refusing

(* The first row of an idempotency key stays.                              *)
KeysStay == \A k \in Keys : idem[k] # None => idem'[k] = idem[k]

LEMMA KeysStayStep == TypeInv /\ [Next]_vars => KeysStay
  <1> SUFFICES ASSUME TypeInv, [Next]_vars PROVE KeysStay
    OBVIOUS
  <1>1. CASE UNCHANGED <<idem, adjs, replies>>
    BY <1>1 DEF KeysStay
  <1>2. ASSUME NEW w \in Worker, SaveAdjudication(w) \/ Save(w) \/ Respond(w)
        PROVE  KeysStay
    BY <1>2 DEF SaveAdjudication, Save, Respond, database, KeysStay, TypeInv, TypeOK
  <1> QED
    BY <1>1, <1>2, KeepingSteps

LEMMA FiniteStep == TypeInv /\ FiniteRows /\ [Next]_vars => FiniteRows'
  <1> SUFFICES ASSUME TypeInv, FiniteRows, [Next]_vars PROVE FiniteRows'
    OBVIOUS
  <1>1. CASE rows' = rows
    BY <1>1 DEF FiniteRows
  <1>2. ASSUME NEW w \in Worker, AddItems(w)
        PROVE  FiniteRows'
    <2>1. req[w] \in Request /\ req[w].set \in SetId
      BY <1>2, RunningHasRequest, RequestFields DEF AddItems, TypeInv
    <2>2. IsFiniteSet(rows[req[w].set] \cup req[w].batch)
      BY <2>1, BatchesFinite, FS_Union DEF FiniteRows
    <2>3. \/ rows' = rows
          \/ rows' = [rows EXCEPT ![req[w].set] = rows[req[w].set] \cup req[w].batch]
      BY <1>2 DEF AddItems
    <2> QED
      BY <2>1, <2>2, <2>3 DEF FiniteRows, TypeInv, TypeOK
  <1>3. ASSUME NEW w \in Worker, CreateSet(w) \/ Seal(w) \/ PutBlob(w)
        PROVE  rows' = rows
    BY <1>3 DEF CreateSet, Seal, PutBlob, database
  <1> QED
    BY <1>1, <1>2, <1>3, TableSteps

LEMMA SealsWithin ==
    ASSUME NEW R, NEW B, SealStatus(R, B) = 200
    PROVE  ~ OverLimit(ManifestOf(R))
  BY DEF SealStatus, OverLimit

LEMMA WithinStep ==
    TypeInv /\ SealedWithin /\ Grows /\ [Next]_vars => SealedWithin'
  <1> SUFFICES ASSUME TypeInv, SealedWithin, Grows, [Next]_vars
               PROVE  SealedWithin'
    OBVIOUS
  <1>1. ASSUME NEW s \in SetId, phase[s] = "sealed"
        PROVE  ~ OverLimit(ManifestOf(rows'[s]))
    BY <1>1 DEF SealedWithin, Grows
  <1>2. CASE phase' = phase
    BY <1>1, <1>2 DEF SealedWithin
  <1>3. ASSUME NEW w \in Worker, CreateSet(w)
        PROVE  \A s \in SetId : phase'[s] = "sealed" => phase[s] = "sealed"
    BY <1>3 DEF CreateSet, TypeInv, TypeOK
  <1>4. ASSUME NEW w \in Worker, AddItems(w) \/ PutBlob(w)
        PROVE  phase' = phase
    BY <1>4 DEF AddItems, PutBlob, database
  <1>5. ASSUME NEW w \in Worker, Seal(w), phase' # phase
        PROVE  SealedWithin'
    <2>1. /\ SealStatus(rows[req[w].set], blobs) = 200
          /\ phase' = [phase EXCEPT ![req[w].set] = "sealed"]
          /\ rows' = rows
      BY <1>5 DEF Seal
    <2>2. ~ OverLimit(ManifestOf(rows[req[w].set]))
      BY <2>1, SealsWithin
    <2> QED
      BY <1>1, <2>1, <2>2 DEF SealedWithin, TypeInv, TypeOK
  <1>6. CASE \A s \in SetId : phase'[s] = "sealed" => phase[s] = "sealed"
    BY <1>1, <1>6 DEF SealedWithin
  <1> QED
    BY <1>2, <1>3, <1>4, <1>5, <1>6, TableSteps

(* No cause of a conflict goes away.                                       *)
LEMMA CauseStays ==
    ASSUME TypeInv, FiniteRows', TypeInv', Grows, KeysStay,
           NEW r \in Request, Caused(r)
    PROVE  Caused(r)'
  <1>1. r.set \in SetId /\ Key(r) \in Keys
    BY RequestFields
  <1>2. rows[r.set] \subseteq rows'[r.set]
    BY <1>1 DEF Grows
  <1>3. CASE KeyTaken(r)
    BY <1>1, <1>3 DEF KeysStay, KeyTaken, Caused
  <1>4. CASE r.op = "items" /\ phase[r.set] = "sealed"
    BY <1>1, <1>4 DEF Grows, Caused
  <1>5. CASE r.op = "items" /\ ~ Compatible(rows[r.set], r.batch)
    <2>1. ~ Compatible(rows'[r.set], r.batch)
      BY <1>2, <1>5 DEF Compatible
    <2> QED
      BY <1>5, <2>1 DEF Caused
  <1>6. CASE r.op = "seal" /\ OverLimit(ManifestOf(rows[r.set]))
    <2>1. rows'[r.set] \in SUBSET Row /\ IsFiniteSet(rows'[r.set])
      BY <1>1 DEF TypeInv, TypeOK, FiniteRows
    <2>2. OverLimit(ManifestOf(rows'[r.set]))
      BY <1>2, <1>6, <2>1, OverLimitGrows
    <2> QED
      BY <1>6, <2>2 DEF Caused
  <1>7. CASE r.op = "adjudicate" /\ phase[r.set] # "absent"
    BY <1>1, <1>7 DEF Grows, Caused
  <1> QED
    BY <1>3, <1>4, <1>5, <1>6, <1>7 DEF Caused

(* What holds of a handler holds when another one makes a step.            *)
LEMMA RefusingFrame ==
    ASSUME RefusalInv, TypeInv', FiniteRows', Grows, KeysStay,
           NEW v \in Worker, SameLocals(v)
    PROVE  RefusingAt(v)'
  <1>1. CASE pc[v] = "idle"
    BY <1>1 DEF RefusingAt, SameLocals
  <1>2. CASE pc[v] # "idle"
    <2>1. req[v] \in Request /\ req[v].set \in SetId
      BY <1>2, RunningHasRequest, RequestFields DEF RefusalInv, TypeInv
    <2>2. RefusingAt(v)
      BY DEF RefusalInv, Refusing
    <2>3. Caused(req[v]) => Caused(req[v])'
      <3>1. req'[v] = req[v]
        BY DEF SameLocals
      <3>2. ASSUME NEW r \in Request, Caused(r)
            PROVE  Caused(r)'
        BY <3>2, CauseStays DEF RefusalInv, Refusing
      <3> QED
        BY <2>1, <3>1, <3>2 DEF Caused, KeyTaken
    <2> QED
      BY <2>1, <2>2, <2>3 DEF RefusingAt, SameLocals, Grows
  <1> QED
    BY <1>1, <1>2

(* A call that ends in a conflict ends so for a cause.                     *)
LEMMA RefusalStep ==
    ASSUME RefusalInv, TypeInv', FiniteRows', Grows, KeysStay,
           NEW w \in Worker,
           (\E r \in Request : Submit(w, r)) \/ Handle(w) \/ Crash(w)
    PROVE  RefusingAt(w)'
  <1> USE DEF RefusalInv
  <1>0. TypeOK /\ RefusingAt(w) /\ OpFits
    BY DEF TypeInv, Refusing
  <1>1. ASSUME NEW status, Raise(w, status), status = 409 => Caused(req[w])',
               req' = req
        PROVE  RefusingAt(w)'
    BY <1>0, <1>1 DEF Raise, Build, Goto, Plain, RefusingAt, TypeOK
  <1>2. ASSUME NEW step \in {"save", "sidecar", "save_adjudication"},
               NEW response, response.status \in Success, Build(w, response, step)
        PROVE  RefusingAt(w)'
    BY <1>0, <1>2 DEF Build, Goto, RefusingAt, TypeOK, Success
  <1>3. \A status \in Success : /\ Plain(status).status \in Success
                                /\ status # 409
    BY DEF Plain, Success
  <1>4. \A m : SealReply(m).status \in Success
    BY DEF SealReply, Success
  <1>5. \A res : ResultReply(res).status \in Success
    BY DEF ResultReply, Success
  <1>6. CASE pc[w] # "idle" /\ ~ Crash(w)
    <2> DEFINE r == req[w]
    <2>1. r \in Request /\ r.set \in SetId /\ r.op \in Op /\ Key(r) \in Keys
      BY <1>0, <1>6, RunningHasRequest, RequestFields
    <2>2. ASSUME NEW q \in Request, Caused(q)
          PROVE  Caused(q)'
      BY <2>2, CauseStays DEF Refusing
    <2>3. ASSUME Caused(r), req' = req
          PROVE  Caused(req[w])'
      BY <2>1, <2>2, <2>3 DEF Caused, KeyTaken
    <2>4. CASE GetSet(w)
      <3>1. phase' = phase /\ req' = req
        BY <2>4 DEF GetSet, database
      <3>2. CASE phase[r.set] = "absent"
        BY <1>1, <2>4, <3>1, <3>2 DEF GetSet
      <3>3. CASE phase[r.set] # "absent"
        BY <1>0, <2>4, <3>1, <3>3 DEF GetSet, Goto, RefusingAt, TypeOK
      <3> QED
        BY <3>2, <3>3
    <2>5. CASE Idempotent(w)
      <3>1. phase' = phase /\ req' = req /\ pc[w] = "idempotent"
        BY <2>5 DEF Idempotent, database
      <3>2. CASE idem[Key(r)] = None
        BY <1>0, <2>1, <2>5, <3>1, <3>2
           DEF Idempotent, Goto, RefusingAt, TypeOK, FirstWork, Op
      <3>3. CASE idem[Key(r)] # None /\ SameContent(idem[Key(r)], r)
        <4>1. Build(w, idem[Key(r)].reply, "respond")
          BY <2>5, <3>3 DEF Idempotent
        <4>2. idem[Key(r)].reply.status \in Success
          BY <2>1, <3>3 DEF Refusing, SavedSucceeded
        <4> QED
          BY <1>0, <3>1, <4>1, <4>2 DEF Build, Goto, RefusingAt, TypeOK, Success
      <3>4. CASE idem[Key(r)] # None /\ ~ SameContent(idem[Key(r)], r)
        <4>1. Raise(w, 409)
          BY <2>5, <3>4 DEF Idempotent
        <4>2. Caused(r)
          BY <3>4 DEF Caused, KeyTaken, SameContent
        <4> QED
          BY <1>1, <2>3, <3>1, <4>1, <4>2
      <3> QED
        BY <3>2, <3>3, <3>4
    <2>6. CASE CreateSet(w)
      <3>1. Build(w, Plain(201), "save")
        BY <2>6 DEF CreateSet
      <3>2. Plain(201).status \in Success
        BY <1>3 DEF Success
      <3> QED
        BY <1>2, <3>1, <3>2
    <2>7. CASE PutBlob(w)
      BY <1>0, <2>7 DEF PutBlob, Goto, RefusingAt, TypeOK, database
    <2>8. CASE AssertOpen(w)
      <3>1. phase' = phase /\ req' = req /\ pc[w] = "assert_open" /\ r.op = "items"
        BY <1>0, <2>8 DEF AssertOpen, database, OpFits
      <3>2. CASE phase[r.set] # "open"
        <4>1. phase[r.set] = "sealed"
          BY <1>0, <2>1, <3>1, <3>2 DEF RefusingAt, TypeOK
        <4>2. Caused(r)
          BY <3>1, <4>1 DEF Caused
        <4> QED
          BY <1>1, <2>3, <2>8, <3>1, <3>2, <4>2 DEF AssertOpen
      <3>3. CASE phase[r.set] = "open"
        BY <1>0, <2>8, <3>1, <3>3 DEF AssertOpen, Goto, RefusingAt, TypeOK
      <3> QED
        BY <3>2, <3>3
    <2>9. CASE AddItems(w)
      <3>1. phase' = phase /\ req' = req /\ pc[w] = "add_items" /\ r.op = "items"
        BY <1>0, <2>9 DEF AddItems, OpFits
      <3>2. CASE StillOpen(r) /\ Compatible(rows[r.set], r.batch)
        <4>1. Build(w, Plain(200), "save")
          BY <2>9, <3>2 DEF AddItems
        <4>2. Plain(200).status \in Success
          BY <1>3 DEF Success
        <4> QED
          BY <1>2, <4>1, <4>2
      <3>3. CASE ~ (StillOpen(r) /\ Compatible(rows[r.set], r.batch))
        <4>1. phase[r.set] # "absent"
          BY <1>0, <3>1 DEF RefusingAt
        <4>2. Raise(w, 409)
          BY <2>9, <3>3, <4>1 DEF AddItems
        <4>3. Caused(r)
          BY <1>0, <2>1, <3>1, <3>3, <4>1 DEF Caused, StillOpen, TypeOK
        <4> QED
          BY <1>1, <2>3, <3>1, <4>2, <4>3
      <3> QED
        BY <3>2, <3>3
    <2>10. CASE Seal(w)
      <3> DEFINE status == IF phase[r.set] = "absent" THEN 404
                                       ELSE SealStatus(rows[r.set], blobs)
      <3>1. req' = req /\ pc[w] = "seal" /\ r.op = "seal"
        BY <1>0, <2>10 DEF Seal, OpFits
      <3>2. CASE Build(w, SealReply(manifest[r.set]), "save")
        BY <1>2, <1>4, <3>2
      <3>3. CASE Build(w, SealReply(ManifestOf(rows[r.set])), "sidecar")
        BY <1>2, <1>4, <3>3
      <3>4. CASE Raise(w, status)
        <4>1. status = 409 => OverLimit(ManifestOf(rows[r.set]))
          BY SealConflicts
        <4>2. status = 409 => Caused(r)
          BY <3>1, <4>1 DEF Caused
        <4> HIDE DEF status
        <4> QED
          BY <1>1, <2>3, <3>1, <3>4, <4>2
      <3> QED
        BY <2>10, <3>2, <3>3, <3>4 DEF Seal
    <2>11. CASE WriteSidecar(w)
      <3>1. CASE Raise(w, 500)
        BY <1>1, <2>11, <3>1 DEF WriteSidecar
      <3>2. CASE Goto(w, "save") /\ UNCHANGED reply
        BY <1>0, <2>11, <3>2 DEF WriteSidecar, Goto, RefusingAt, TypeOK
      <3> QED
        BY <2>11, <3>1, <3>2 DEF WriteSidecar
    <2>12. CASE ReadSet(w) \/ RunCore(w) \/ Lookup(w)
      <3>1. req' = req /\ r.op = "adjudicate"
        BY <1>0, <2>12 DEF ReadSet, RunCore, Lookup, OpFits
      <3>2. ASSUME NEW status, Raise(w, status), status # 409
            PROVE  RefusingAt(w)'
        BY <1>1, <3>1, <3>2
      <3>3. ASSUME NEW step \in {"lookup", "run_core"}, Goto(w, step)
            PROVE  RefusingAt(w)'
        BY <1>0, <3>3 DEF Goto, RefusingAt, TypeOK
      <3>4. CASE ReadSet(w)
        <4>1. CASE phase[r.set] = "open"
          <5>1. Caused(r)
            BY <3>1, <4>1 DEF Caused
          <5>2. Raise(w, 409)
            BY <3>4, <4>1 DEF ReadSet
          <5> QED
            BY <1>1, <2>3, <3>1, <5>1, <5>2
        <4>2. CASE phase[r.set] # "open"
          BY <1>0, <2>1, <3>2, <3>3, <3>4, <4>2 DEF ReadSet, TypeOK
        <4> QED
          BY <4>1, <4>2
      <3>5. CASE RunCore(w)
        <4>1. \A m, q, indexed, B : CoreStatus(m, q, indexed, B) # 409
          BY DEF CoreStatus
        <4>2. CASE \E status : status # 409 /\ Raise(w, status)
          BY <3>2, <4>2
        <4>3. CASE \E result : Build(w, ResultReply(result), "save_adjudication")
          BY <1>2, <1>5, <4>3
        <4> QED
          BY <3>5, <4>1, <4>2, <4>3 DEF RunCore
      <3>6. CASE Lookup(w)
        <4>1. CASE \E result : Build(w, ResultReply(result), "save")
          BY <1>2, <1>5, <4>1
        <4>2. CASE Goto(w, "run_core")
          BY <3>3, <4>2
        <4> QED
          BY <3>6, <4>1, <4>2 DEF Lookup
      <3> QED
        BY <2>12, <3>4, <3>5, <3>6
    <2>13. CASE SaveAdjudication(w)
      BY <1>0, <2>13 DEF SaveAdjudication, Goto, RefusingAt, TypeOK
    <2>14. CASE Save(w)
      BY <1>0, <2>14 DEF Save, Goto, RefusingAt, TypeOK, Success
    <2>15. CASE Respond(w)
      BY <1>0, <2>15 DEF Respond, Rest, Goto, RefusingAt, TypeOK
    <2>16. ~ \E q \in Request : Submit(w, q)
      BY <1>6 DEF Submit
    <2> QED
      BY <1>6, <2>4, <2>5, <2>6, <2>7, <2>8, <2>9, <2>10, <2>11, <2>12, <2>13,
         <2>14, <2>15, <2>16 DEF Handle
  <1>7. CASE Crash(w)
    BY <1>0, <1>7 DEF Crash, Rest, Goto, RefusingAt, TypeOK
  <1>8. CASE pc[w] = "idle" /\ ~ Crash(w)
    <2>1. PICK q \in Request : Submit(w, q)
      BY <1>8 DEF Handle, GetSet, Idempotent, CreateSet, PutBlob, AssertOpen,
                  AddItems, Seal, WriteSidecar, ReadSet, Lookup, RunCore,
                  SaveAdjudication, Save, Respond
    <2>2. /\ pc'[w] = FirstCall(q) /\ req'[w] = q
      BY <1>0, <2>1 DEF Submit, Goto, TypeOK
    <2> QED
      BY <2>2 DEF FirstCall, RefusingAt
  <1> QED
    BY <1>6, <1>7, <1>8

LEMMA RefusalInit == Init => RefusalInv
  <1> SUFFICES ASSUME Init PROVE RefusalInv
    OBVIOUS
  <1>1. TypeInv
    BY TypeInit
  <1>2. FiniteRows
    BY FS_EmptySet DEF Init, FiniteRows
  <1> QED
    BY <1>1, <1>2 DEF Init, RefusalInv, Refusing, SavedSucceeded, RefusingAt,
                      SealedWithin

LEMMA RefusalInductive == RefusalInv /\ [Next]_vars => RefusalInv'
  <1> SUFFICES ASSUME RefusalInv, [Next]_vars PROVE RefusalInv'
    OBVIOUS
  <1> USE DEF RefusalInv
  <1>1. TypeInv' /\ FiniteRows' /\ SealedWithin' /\ Grows /\ KeysStay
    BY TypeStep, FiniteStep, GrowsStep, WithinStep, KeysStayStep DEF Refusing
  <1>2. \A v \in Worker : SameLocals(v) => RefusingAt(v)'
    BY <1>1, RefusingFrame
  <1>3. \A w \in Worker : RefusingAt(w)'
    <2>1. CASE UNCHANGED vars
      BY <1>2, <2>1 DEF vars, SameLocals
    <2>2. ASSUME NEW w \in Worker,
                 (\E r \in Request : Submit(w, r)) \/ Handle(w) \/ Crash(w)
          PROVE  \A v \in Worker : RefusingAt(v)'
      <3>1. RefusingAt(w)'
        BY <1>1, <2>2, RefusalStep
      <3>2. \A v \in Worker \ {w} : RefusingAt(v)'
        BY <1>2, <2>2, OthersRest
      <3> QED
        BY <3>1, <3>2
    <2> QED
      BY <2>1, <2>2 DEF Next
  <1>4. SavedSucceeded'
    <2>1. CASE UNCHANGED <<idem, adjs, replies>>
      BY <2>1 DEF Refusing, SavedSucceeded
    <2>2. ASSUME NEW w \in Worker, SaveAdjudication(w) \/ Respond(w)
          PROVE  idem' = idem
      BY <2>2 DEF SaveAdjudication, Respond, database
    <2>3. ASSUME NEW w \in Worker, Save(w)
          PROVE  SavedSucceeded'
      <3>1. reply[w].status \in Success
        BY <2>3 DEF Save, Refusing, RefusingAt
      <3>2. \A k \in Keys :
               \/ idem'[k] = idem[k]
               \/ idem'[k] = [norm |-> req[w], reply |-> reply[w]]
        BY <2>3 DEF Save, TypeInv, TypeOK
      <3> QED
        BY <3>1, <3>2 DEF Refusing, SavedSucceeded
    <2> QED
      BY <2>1, <2>2, <2>3, KeepingSteps DEF Refusing, SavedSucceeded
  <1>5. \A a \in replies' : a.reply.status = 409 => Caused(a.req)'
    <2>1. ASSUME NEW r \in Request, Caused(r)
          PROVE  Caused(r)'
      BY <1>1, <2>1, CauseStays DEF Refusing
    <2>2. ASSUME NEW a \in replies, a.reply.status = 409
          PROVE  Caused(a.req)'
      <3>1. a.req \in Request /\ Caused(a.req)
        BY <2>2 DEF TypeInv, TypeOK, Answer, Refusing
      <3> QED
        BY <2>1, <3>1
    <2>3. CASE replies' = replies
      BY <2>2, <2>3
    <2>4. ASSUME NEW w \in Worker, Respond(w)
          PROVE  \A a \in replies' : a.reply.status = 409 => Caused(a.req)'
      <3>1. req[w] \in Request
        BY <2>4, RunningHasRequest DEF Respond, TypeInv
      <3>2. reply[w].status = 409 => Caused(req[w])
        BY <2>4 DEF Respond, Refusing, RefusingAt
      <3>3. \A a \in replies' :
               a \in replies \/ a = [req |-> req[w], reply |-> reply[w]]
        BY <2>4 DEF Respond
      <3>4. ASSUME NEW a \in replies', a \notin replies, a.reply.status = 409
            PROVE  Caused(a.req)'
        <4>1. a.req = req[w] /\ a.reply = reply[w] /\ a.req \in Request
          BY <3>1, <3>3, <3>4
        <4>2. Caused(a.req)
          BY <3>2, <3>4, <4>1
        <4> QED
          BY <2>1, <4>1, <4>2
      <3> QED
        BY <2>2, <3>4
    <2>5. ASSUME NEW w \in Worker, SaveAdjudication(w) \/ Save(w)
          PROVE  replies' = replies
      BY <2>5 DEF SaveAdjudication, Save, history
    <2> QED
      BY <2>3, <2>4, <2>5, KeepingSteps
  <1> QED
    BY <1>1, <1>3, <1>4, <1>5 DEF Refusing

(* A conflict is answered for a cause that is still there afterwards.  A   *)
(* request that was in conflict and succeeds all the same is an            *)
(* adjudication that was sent before the seal, or an upload whose rows     *)
(* were stored before the seal by another copy of it; or its key belongs   *)
(* to other content.  For any number of instances, sets, batches and       *)
(* crashes.                                                                *)
THEOREM RefusalsStand == Spec => []RefusedForCause
  <1>1. RefusalInv /\ Inv => RefusedForCause
    <2> SUFFICES ASSUME RefusalInv, Inv, NEW a \in replies,
                        a.reply.status = 409
                 PROVE  /\ Caused(a.req)
                        /\ \A b \in replies :
                              (b.req = a.req /\ Succeeded(b)) =>
                                 \/ KeyTaken(a.req)
                                 \/ a.req.op = "adjudicate"
                                 \/ /\ a.req.op = "items"
                                    /\ phase[a.req.set] = "sealed"
                                    /\ a.req.batch \subseteq rows[a.req.set]
      BY DEF RefusedForCause, Caused
    <2>1. Caused(a.req)
      BY DEF RefusalInv, Refusing
    <2>2. /\ a.req \in Request /\ a.req.set \in SetId
          /\ a.req.op \in {"create", "items", "seal", "adjudicate"}
      BY RequestFields DEF Inv, TypeInv, TypeOK, Answer, Op
    <2>3. ASSUME NEW b \in replies, b.req = a.req, Succeeded(b)
          PROVE  \/ KeyTaken(a.req)
                 \/ a.req.op = "adjudicate"
                 \/ /\ a.req.op = "items"
                    /\ phase[a.req.set] = "sealed"
                    /\ a.req.batch \subseteq rows[a.req.set]
      <3>1. Justified(b)
        BY <2>3 DEF Inv, Kept
      <3>2. CASE a.req.op = "create"
        BY <2>1, <3>2 DEF Caused
      <3>3. CASE a.req.op = "items"
        <4>1. a.req.batch \subseteq rows[a.req.set]
          BY <2>3, <3>1, <3>3 DEF Justified, Abstract!Justified
        <4>2. Compatible(rows[a.req.set], a.req.batch)
          BY <2>2, <4>1 DEF Inv, Stored, Compatible
        <4> QED
          BY <2>1, <3>3, <4>1, <4>2 DEF Caused
      <3>4. CASE a.req.op = "seal"
        <4>1. phase[a.req.set] = "sealed"
          BY <2>3, <3>1, <3>4 DEF Justified, Abstract!Justified
        <4>2. ~ OverLimit(ManifestOf(rows[a.req.set]))
          BY <2>2, <4>1 DEF RefusalInv, Refusing, SealedWithin
        <4> QED
          BY <2>1, <3>4, <4>2 DEF Caused
      <3> QED
        BY <2>2, <3>2, <3>3, <3>4
    <2> QED
      BY <2>1, <2>3
  <1>2. Spec => []RefusalInv
    BY RefusalInit, RefusalInductive, PTL DEF Spec
  <1> QED
    BY <1>1, <1>2, Invariance, PTL

------------------------------------------------------------------------------
(* Successes: what is answered *)

(* The certificates a question leads to, with or without a name index.     *)
Reached(m, q) == q.anchors \cup {q.leaf} \cup LookedUp(m, q)

(* A question with a result names certificates of the set; its leaf, and   *)
(* where it comes to a search its anchors, parse.                          *)
Answerable(m, q) ==
    /\ q.anchors \cup {q.leaf} \subseteq m.certs
    /\ q.leaf \notin Rejected
    /\ Early(q) \/ q.anchors \cap Rejected = {}

(* The result res is one of those a run_core on the manifest m may give,   *)
(* with or without a name index, whatever the order of its anchors.        *)
Computed(res, s, m, q) ==
    /\ Answerable(m, q)
    /\ \E indexed \in BOOLEAN, first \in Listings(RefusedAnchors(q)) :
          res = ResultOf(s, m, q, indexed, first)

LEMMA StatusAnswers ==
    ASSUME NEW m, NEW q, NEW indexed, NEW B,
           CoreStatus(m, q, indexed, B) = 201
    PROVE  Answerable(m, q)
  BY DEF CoreStatus, Answerable

(* What uploads to the set s may contain.                                  *)
Uploaded(s) ==
    UNION {r.batch : r \in {q \in Request : q.op = "items" /\ q.set = s}}

(* The success y, the answer to r, is determined by what is stored but for *)
(* the presence of the name index when it was computed, and the order in   *)
(* which the process that computed it took the anchors.                    *)
Exact(r, y) ==
    /\ r.op = "create" => y = Plain(201)
    /\ r.op = "items" => y = Plain(200)
    /\ r.op = "seal" => phase[r.set] = "sealed" /\ y = SealReply(manifest[r.set])
    /\ r.op = "adjudicate" =>
          /\ phase[r.set] = "sealed"
          /\ y = ResultReply(y.result)
          /\ Computed(y.result, r.set, manifest[r.set], r.query)

(* A question that was answered has a row under its digest.                *)
Filed(r) == r.op = "adjudicate" => adjs[r.query] # None

AskedOf(q, s) ==
    \E r \in Request : r.op = "adjudicate" /\ r.query = q /\ r.set = s

AdjsExact ==
    \A q \in Query : adjs[q] # None =>
       /\ phase[adjs[q].set] = "sealed"
       /\ AskedOf(q, adjs[q].set)
       /\ Computed(adjs[q].result, adjs[q].set, manifest[adjs[q].set], q)

SayingAt(w) ==
    /\ pc[w] = "save_adjudication" => reply[w].status \in Success
    /\ reply[w].status \in Success =>
          /\ pc[w] \in {"sidecar", "save_adjudication", "save", "respond"}
                => Exact(req[w], reply[w])
          /\ pc[w] \in {"sidecar", "save", "respond"} => Filed(req[w])

Saying ==
    /\ \A s \in SetId : rows[s] \subseteq Uploaded(s)
    /\ AdjsExact
    /\ \A k \in Keys : (idem[k] # None /\ idem[k].reply.status \in Success)
          => Exact(idem[k].norm, idem[k].reply) /\ Filed(idem[k].norm)
    /\ \A w \in Worker : SayingAt(w)
    /\ \A a \in replies : Succeeded(a) => Exact(a.req, a.reply) /\ Filed(a.req)

AnswerInv == Inv /\ Saying

(* A row of the table adjudications stays.                                 *)
AdjsStay == \A q \in Query : adjs[q] # None => adjs'[q] = adjs[q]

LEMMA AdjsStayStep == TypeInv /\ [Next]_vars => AdjsStay
  <1> SUFFICES ASSUME TypeInv, [Next]_vars PROVE AdjsStay
    OBVIOUS
  <1>1. CASE UNCHANGED <<idem, adjs, replies>>
    BY <1>1 DEF AdjsStay
  <1>2. ASSUME NEW w \in Worker, SaveAdjudication(w) \/ Save(w) \/ Respond(w)
        PROVE  AdjsStay
    BY <1>2 DEF SaveAdjudication, RowTaken, Save, Respond, database, AdjsStay,
                TypeInv, TypeOK
  <1> QED
    BY <1>1, <1>2, KeepingSteps

LEMMA ExactStays ==
    ASSUME Grows, AdjsStay, TypeInv, NEW r \in Request, NEW y
    PROVE  /\ Exact(r, y) => Exact(r, y)'
           /\ Filed(r) => Filed(r)'
  <1>1. r.set \in SetId /\ ((r.op = "adjudicate") => r.query \in Query)
    BY RequestFields
  <1>2. ASSUME Exact(r, y) PROVE Exact(r, y)'
    BY <1>1, <1>2 DEF Exact, Grows
  <1>3. ASSUME Filed(r) PROVE Filed(r)'
    BY <1>1, <1>3 DEF Filed, AdjsStay
  <1> QED
    BY <1>2, <1>3

LEMMA UploadedStep ==
    ASSUME TypeInv, Saying, [Next]_vars
    PROVE  \A s \in SetId : rows'[s] \subseteq Uploaded(s)
  <1>1. \A s \in SetId : rows[s] \subseteq Uploaded(s)
    BY DEF Saying
  <1>2. CASE rows' = rows
    BY <1>1, <1>2
  <1>3. ASSUME NEW w \in Worker, AddItems(w)
        PROVE  \A s \in SetId : rows'[s] \subseteq Uploaded(s)
    <2>1. req[w] \in Request /\ req[w].set \in SetId /\ req[w].op = "items"
      BY <1>3, RunningHasRequest, RequestFields DEF AddItems, TypeInv, OpFits
    <2>2. req[w].batch \subseteq Uploaded(req[w].set)
      BY <2>1 DEF Uploaded
    <2>3. \/ rows' = rows
          \/ rows' = [rows EXCEPT ![req[w].set] = rows[req[w].set] \cup req[w].batch]
      BY <1>3 DEF AddItems
    <2> QED
      BY <1>1, <2>1, <2>2, <2>3 DEF TypeInv, TypeOK
  <1>4. ASSUME NEW w \in Worker, CreateSet(w) \/ Seal(w) \/ PutBlob(w)
        PROVE  rows' = rows
    BY <1>4 DEF CreateSet, Seal, PutBlob, database
  <1> QED
    BY <1>2, <1>3, <1>4, TableSteps

LEMMA SayingFrame ==
    ASSUME AnswerInv, Grows, AdjsStay, NEW v \in Worker, SameLocals(v)
    PROVE  SayingAt(v)'
  <1>1. CASE pc[v] = "idle"
    BY <1>1 DEF SayingAt, SameLocals
  <1>2. CASE pc[v] # "idle"
    <2>1. req[v] \in Request
      BY <1>2, RunningHasRequest DEF AnswerInv, Inv, TypeInv
    <2>2. SayingAt(v)
      BY DEF AnswerInv, Saying
    <2>3. ASSUME NEW r \in Request, NEW y
          PROVE  (Exact(r, y) => Exact(r, y)') /\ (Filed(r) => Filed(r)')
      BY ExactStays DEF AnswerInv, Inv
    <2>4. /\ Exact(req[v], reply[v]) => Exact(req[v], reply[v])'
          /\ Filed(req[v]) => Filed(req[v])'
      <3>1. req'[v] = req[v] /\ reply'[v] = reply[v]
        BY DEF SameLocals
      <3> QED
        BY <2>1, <2>3, <3>1 DEF Exact, Filed
    <2> QED
      BY <2>2, <2>4 DEF SayingAt, SameLocals
  <1> QED
    BY <1>1, <1>2

(* What a handler builds is exact: fresh, replayed, found in the table or  *)
(* computed again.                                                         *)
LEMMA SayingStep ==
    ASSUME AnswerInv, TypeInv', Grows, AdjsStay, NEW w \in Worker,
           (\E r \in Request : Submit(w, r)) \/ Handle(w) \/ Crash(w)
    PROVE  SayingAt(w)'
  <1>0. /\ TypeOK /\ OpFits /\ SayingAt(w) /\ RunningAt(w) /\ Stored
        /\ TypeInv
    BY DEF AnswerInv, Inv, TypeInv, Saying, Running
  <1>1. ASSUME NEW status, status \notin Success, Raise(w, status)
        PROVE  SayingAt(w)'
    BY <1>0, <1>1 DEF Raise, Build, Goto, Plain, SayingAt, TypeOK
  <1>2. ASSUME NEW step, Goto(w, step),
               step \notin {"sidecar", "save_adjudication", "save", "respond"}
        PROVE  SayingAt(w)'
    BY <1>0, <1>2 DEF Goto, SayingAt, TypeOK
  <1>3. \A status \in {404, 409, 422, 500} : status \notin Success
    BY DEF Success
  <1>4. CASE \E r \in Request : Submit(w, r)
    <2>1. PICK r \in Request : Submit(w, r)
      BY <1>4
    <2>2. FirstCall(r) \notin {"sidecar", "save_adjudication", "save", "respond"}
      BY DEF FirstCall
    <2> QED
      BY <1>2, <2>1, <2>2 DEF Submit
  <1>5. CASE Crash(w) \/ Respond(w)
    <2>1. Goto(w, "idle")
      BY <1>5 DEF Crash, Respond, Rest
    <2> QED
      BY <1>2, <2>1
  <1>6. CASE pc[w] # "idle" /\ Handle(w)
    <2> DEFINE r == req[w]
    <2>1. /\ r \in Request /\ r.set \in SetId /\ r.op \in Op /\ Key(r) \in Keys
          /\ ((r.op = "adjudicate") => r.query \in Query)
      BY <1>0, <1>6, RunningHasRequest, RequestFields
    <2>2. ASSUME NEW q \in Request, NEW y
          PROVE  (Exact(q, y) => Exact(q, y)') /\ (Filed(q) => Filed(q)')
      BY ExactStays DEF AnswerInv, Inv
    <2>3. CASE GetSet(w)
      BY <1>1, <1>2, <1>3, <2>3 DEF GetSet
    <2>4. CASE Idempotent(w)
      <3>1. CASE idem[Key(r)] = None
        <4>1. FirstWork(r) \notin {"sidecar", "save_adjudication", "save", "respond"}
          BY <2>1 DEF FirstWork, Op
        <4> QED
          BY <1>2, <2>4, <3>1, <4>1 DEF Idempotent
      <3>2. CASE idem[Key(r)] # None /\ ~ SameContent(idem[Key(r)], r)
        BY <1>1, <1>3, <2>4, <3>2 DEF Idempotent
      <3>3. CASE idem[Key(r)] # None /\ SameContent(idem[Key(r)], r)
        <4> DEFINE y == idem[Key(r)].reply
        <4>1. /\ Build(w, y, "respond") /\ UNCHANGED <<phase, manifest, adjs>>
              /\ req' = req
          BY <2>4, <3>3 DEF Idempotent, database
        <4>2. y.status \in Success => Exact(r, y) /\ Filed(r)
          BY <2>1, <3>3 DEF AnswerInv, Saying, SameContent
        <4>3. reply'[w] = y /\ pc'[w] = "respond" /\ req'[w] = r
          BY <1>0, <4>1 DEF Build, Goto, TypeOK
        <4> HIDE DEF y
        <4>4. y.status \in Success => Exact(req[w], reply[w])' /\ Filed(req[w])'
          BY <4>1, <4>2, <4>3 DEF Exact, Filed
        <4> QED
          BY <4>3, <4>4 DEF SayingAt
      <3> QED
        BY <3>1, <3>2, <3>3
    <2>5. CASE CreateSet(w)
      <3>1. req' = req /\ r.op = "create" /\ Build(w, Plain(201), "save")
        BY <1>0, <2>5 DEF CreateSet, OpFits
      <3>2. reply'[w] = Plain(201) /\ req'[w] = r /\ pc'[w] = "save"
        BY <1>0, <3>1 DEF Build, Goto, TypeOK
      <3> QED
        BY <3>1, <3>2 DEF SayingAt, Exact, Filed
    <2>6. CASE PutBlob(w)
      BY <1>2, <2>6 DEF PutBlob
    <2>7. CASE AssertOpen(w)
      BY <1>1, <1>2, <1>3, <2>7 DEF AssertOpen
    <2>8. CASE AddItems(w)
      <3>1. req' = req /\ r.op = "items"
        BY <1>0, <2>8 DEF AddItems, OpFits
      <3>2. CASE Build(w, Plain(200), "save")
        <4>1. reply'[w] = Plain(200) /\ req'[w] = r /\ pc'[w] = "save"
          BY <1>0, <3>1, <3>2 DEF Build, Goto, TypeOK
        <4> QED
          BY <3>1, <4>1 DEF SayingAt, Exact, Filed
      <3> QED
        BY <1>1, <1>3, <2>8, <3>2 DEF AddItems
    <2>9. CASE Seal(w)
      <3>1. req' = req /\ r.op = "seal"
        BY <1>0, <2>9 DEF Seal, OpFits
      <3>2. ASSUME NEW m, NEW step \in {"save", "sidecar"},
                   Build(w, SealReply(m), step),
                   phase'[r.set] = "sealed", manifest'[r.set] = m
            PROVE  SayingAt(w)'
        <4>1. reply'[w] = SealReply(m) /\ req'[w] = r /\ pc'[w] = step
          BY <1>0, <3>1, <3>2 DEF Build, Goto, TypeOK
        <4> QED
          BY <3>1, <3>2, <4>1 DEF SayingAt, Exact, Filed
      <3>3. CASE AlreadySealed(r.set)
        BY <2>9, <3>2, <3>3 DEF Seal, AlreadySealed
      <3>4. CASE ~ AlreadySealed(r.set) /\ phase' # phase
        <4>1. /\ phase' = [phase EXCEPT ![r.set] = "sealed"]
              /\ manifest' = [manifest EXCEPT ![r.set] = ManifestOf(rows[r.set])]
              /\ Build(w, SealReply(ManifestOf(rows[r.set])), "sidecar")
          BY <2>9, <3>4 DEF Seal
        <4>2. /\ phase'[r.set] = "sealed"
              /\ manifest'[r.set] = ManifestOf(rows[r.set])
          BY <1>0, <2>1, <4>1 DEF TypeOK
        <4> QED
          BY <3>2, <4>1, <4>2
      <3>5. CASE ~ AlreadySealed(r.set) /\ phase' = phase
        <4>1. phase'[r.set] # "sealed"
          BY <3>5 DEF AlreadySealed
        <4>2. PICK status : /\ status # 200
                            /\ status \in {404, SealStatus(rows[r.set], blobs)}
                            /\ Raise(w, status)
          BY <1>0, <2>1, <2>9, <3>5, <4>1 DEF Seal, TypeOK
        <4>3. status \notin Success
          BY <4>2 DEF SealStatus, Success
        <4> QED
          BY <1>1, <4>2, <4>3
      <3> QED
        BY <3>3, <3>4, <3>5
    <2>10. CASE WriteSidecar(w)
      <3>1. CASE Raise(w, 500)
        BY <1>1, <1>3, <3>1
      <3>2. CASE Goto(w, "save") /\ UNCHANGED reply
        <4>1. /\ req' = req /\ reply' = reply /\ UNCHANGED <<phase, manifest>>
              /\ r.op = "seal" /\ pc[w] = "sidecar" /\ pc'[w] = "save"
          BY <1>0, <2>10, <3>2 DEF WriteSidecar, Goto, TypeOK, OpFits, database
        <4> QED
          BY <1>0, <4>1 DEF SayingAt, Exact, Filed
      <3> QED
        BY <2>10, <3>1, <3>2 DEF WriteSidecar
    <2>11. CASE ReadSet(w)
      BY <1>0, <1>1, <1>2, <1>3, <2>1, <2>11 DEF ReadSet, TypeOK
    <2>12. CASE Lookup(w)
      <3>1. /\ req' = req /\ UNCHANGED <<phase, manifest, adjs>>
            /\ r.op = "adjudicate"
        BY <1>0, <2>12 DEF Lookup, OpFits, database
      <3>2. CASE RowOf(r.set, r.query)
        <4> DEFINE y == ResultReply(adjs[r.query].result)
        <4>1. adjs[r.query] # None /\ adjs[r.query].set = r.set
          BY <3>2 DEF RowOf
        <4>2. Exact(r, y)
          <5>1. /\ phase[r.set] = "sealed"
                /\ Computed(adjs[r.query].result, r.set, manifest[r.set], r.query)
            BY <2>1, <3>1, <4>1 DEF AnswerInv, Saying, AdjsExact
          <5>2. y.result = adjs[r.query].result
            BY DEF ResultReply
          <5> QED
            BY <3>1, <5>1, <5>2 DEF Exact
        <4>3. reply'[w] = y /\ req'[w] = r /\ pc'[w] = "save"
          BY <1>0, <2>12, <3>1, <3>2 DEF Lookup, Build, Goto, TypeOK
        <4> HIDE DEF y
        <4> QED
          BY <3>1, <4>1, <4>2, <4>3 DEF SayingAt, Exact, Filed
      <3>3. CASE ~ RowOf(r.set, r.query)
        BY <1>2, <2>12, <3>3 DEF Lookup
      <3> QED
        BY <3>2, <3>3
    <2>13. CASE RunCore(w)
      <3>1. /\ req' = req /\ UNCHANGED <<phase, manifest>>
            /\ r.op = "adjudicate" /\ pc[w] = "run_core"
        BY <1>0, <2>13 DEF RunCore, OpFits, database
      <3>2. phase[r.set] = "sealed" /\ seen[w] = manifest[r.set]
        BY <1>0, <3>1 DEF RunningAt
      <3>3. Indexed(r.set) \in BOOLEAN
        BY <1>0, <2>1 DEF Indexed, TypeOK
      <3> DEFINE status == CoreStatus(seen[w], r.query, Indexed(r.set), blobs)
      <3>4. CASE status = 201
        <4>1. PICK first \in Listings(RefusedAnchors(r.query)) :
                 Build(w, ResultReply(ResultOf(r.set, seen[w], r.query,
                                               Indexed(r.set), first)),
                       "save_adjudication")
          BY <2>13, <3>4 DEF RunCore
        <4> DEFINE res == ResultOf(r.set, seen[w], r.query, Indexed(r.set), first)
                   y == ResultReply(res)
        <4>2. Computed(res, r.set, manifest[r.set], r.query)
          <5>1. Answerable(manifest[r.set], r.query)
            BY <3>2, <3>4, StatusAnswers
          <5> QED
            BY <3>2, <3>3, <5>1 DEF Computed
        <4>3. Build(w, y, "save_adjudication")
          BY <4>1
        <4> HIDE DEF res
        <4>4. y.result = res /\ y = ResultReply(y.result) /\ y.status \in Success
          BY DEF ResultReply, Success
        <4>5. Exact(r, y)
          BY <3>1, <3>2, <4>2, <4>4 DEF Exact
        <4> HIDE DEF y
        <4>6. reply'[w] = y /\ req'[w] = r /\ pc'[w] = "save_adjudication"
          BY <1>0, <3>1, <4>3 DEF Build, Goto, TypeOK
        <4> QED
          BY <3>1, <4>4, <4>5, <4>6 DEF SayingAt, Exact
      <3>5. CASE status # 201
        <4>1. status \notin Success
          BY <3>5 DEF CoreStatus, Success
        <4>2. Raise(w, status)
          BY <2>13, <3>5 DEF RunCore
        <4> HIDE DEF status
        <4> QED
          BY <1>1, <4>1, <4>2
      <3> QED
        BY <3>4, <3>5
    <2>14. CASE SaveAdjudication(w)
      <3>1. /\ req' = req /\ reply' = reply /\ UNCHANGED <<phase, manifest>>
            /\ r.op = "adjudicate" /\ pc[w] = "save_adjudication"
            /\ r.query \in Query
        BY <1>0, <2>1, <2>14 DEF SaveAdjudication, OpFits
      <3>2. [set |-> r.set, result |-> reply[w].result] # None
        BY <1>0, <2>1, <3>1, NoneIsNoRow DEF OpFits
      <3>3. adjs'[r.query] # None
        <4>1. CASE RowTaken(r.set, r.query)
          BY <2>14, <4>1 DEF SaveAdjudication, RowTaken
        <4>2. CASE ~ RowTaken(r.set, r.query)
          <5>1. adjs' = [adjs EXCEPT ![r.query] =
                            [set |-> r.set, result |-> reply[w].result]]
            BY <2>14, <4>2 DEF SaveAdjudication
          <5> QED
            BY <1>0, <3>1, <3>2, <5>1 DEF TypeOK
        <4> QED
          BY <4>1, <4>2
      <3> QED
        BY <1>0, <3>1, <3>3 DEF SayingAt, Exact, Filed
    <2>15. CASE Save(w)
      <3>1. /\ req' = req /\ reply' = reply /\ UNCHANGED <<phase, manifest, adjs>>
            /\ pc[w] = "save" /\ pc'[w] = "respond"
        BY <1>0, <2>15 DEF Save, Goto, TypeOK
      <3> QED
        BY <1>0, <3>1 DEF SayingAt, Exact, Filed
    <2> QED
      BY <1>5, <1>6, <2>3, <2>4, <2>5, <2>6, <2>7, <2>8, <2>9, <2>10, <2>11,
         <2>12, <2>13, <2>14, <2>15 DEF Handle
  <1>7. CASE pc[w] = "idle" /\ Handle(w)
    BY <1>7 DEF Handle, GetSet, Idempotent, CreateSet, PutBlob, AssertOpen,
                AddItems, Seal, WriteSidecar, ReadSet, Lookup, RunCore,
                SaveAdjudication, Save, Respond
  <1> QED
    BY <1>4, <1>5, <1>6, <1>7

LEMMA AnswerInit == Init => AnswerInv
  <1> SUFFICES ASSUME Init PROVE AnswerInv
    OBVIOUS
  <1>1. Inv
    BY InvInit
  <1> QED
    BY <1>1 DEF Init, AnswerInv, Saying, AdjsExact, SayingAt

LEMMA AdjsExactStep ==
    ASSUME AnswerInv, TypeInv', [Next]_vars, Grows, AdjsStay
    PROVE  AdjsExact'
  <1>0. TypeOK /\ OpFits
    BY DEF AnswerInv, Inv, TypeInv
  <1>1. ASSUME NEW q \in Query, adjs[q] # None
        PROVE  /\ phase'[adjs'[q].set] = "sealed"
               /\ AskedOf(q, adjs'[q].set)
               /\ Computed(adjs'[q].result, adjs'[q].set,
                           manifest'[adjs'[q].set], q)
    <2>1. adjs'[q] = adjs[q] /\ adjs[q].set \in SetId
      BY <1>0, <1>1 DEF AdjsStay, TypeOK
    <2>2. /\ phase[adjs[q].set] = "sealed"
          /\ AskedOf(q, adjs[q].set)
          /\ Computed(adjs[q].result, adjs[q].set, manifest[adjs[q].set], q)
      BY <1>1 DEF AnswerInv, Saying, AdjsExact
    <2>3. /\ phase'[adjs[q].set] = "sealed"
          /\ manifest'[adjs[q].set] = manifest[adjs[q].set]
      BY <2>1, <2>2 DEF Grows
    <2> QED
      BY <2>1, <2>2, <2>3
  <1>2. CASE adjs' = adjs
    BY <1>1, <1>2 DEF AdjsExact
  <1>3. ASSUME NEW w \in Worker, SaveAdjudication(w), adjs' # adjs
        PROVE  AdjsExact'
    <2> DEFINE r == req[w]
    <2>1. /\ r \in Request /\ r.set \in SetId /\ r.query \in Query
          /\ r.op = "adjudicate" /\ pc[w] = "save_adjudication"
      BY <1>0, <1>3, RunningHasRequest, RequestFields DEF SaveAdjudication, OpFits
    <2>2. adjs' = [adjs EXCEPT ![r.query] =
                      [set |-> r.set, result |-> reply[w].result]]
      BY <1>3 DEF SaveAdjudication
    <2>3. phase' = phase /\ manifest' = manifest
      BY <1>3 DEF SaveAdjudication
    <2>4. Computed(reply[w].result, r.set, manifest[r.set], r.query)
      <3>1. SayingAt(w)
        BY DEF AnswerInv, Saying
      <3> QED
        BY <2>1, <3>1 DEF SayingAt, Exact
    <2>5. phase[r.set] = "sealed"
      BY <2>1 DEF AnswerInv, Inv, Running, RunningAt
    <2>6. AskedOf(r.query, r.set)
      BY <2>1 DEF AskedOf
    <2>7. /\ adjs'[r.query].set = r.set
          /\ adjs'[r.query].result = reply[w].result
      BY <1>0, <2>1, <2>2 DEF TypeOK
    <2>9. ASSUME NEW q \in Query, adjs'[q] # None, q # r.query
          PROVE  adjs[q] # None
      BY <1>0, <2>1, <2>2, <2>9 DEF TypeOK
    <2>10. ASSUME NEW q \in Query, adjs'[q] # None, q = r.query
          PROVE  /\ phase'[adjs'[q].set] = "sealed"
                 /\ AskedOf(q, adjs'[q].set)
                 /\ Computed(adjs'[q].result, adjs'[q].set,
                             manifest'[adjs'[q].set], q)
      BY <2>3, <2>4, <2>5, <2>6, <2>7, <2>10
    <2> QED
      BY <1>1, <2>9, <2>10 DEF AdjsExact
  <1>4. ASSUME NEW w \in Worker, Save(w) \/ Respond(w)
        PROVE  adjs' = adjs
    BY <1>4 DEF Save, Respond, database
  <1> QED
    BY <1>2, <1>3, <1>4, KeepingSteps

LEMMA AnswerInductive == AnswerInv /\ [Next]_vars => AnswerInv'
  <1> SUFFICES ASSUME AnswerInv, [Next]_vars PROVE AnswerInv'
    OBVIOUS
  <1>0. TypeInv
    BY DEF AnswerInv, Inv
  <1>1. Inv' /\ TypeInv' /\ Grows /\ AdjsStay
    BY <1>0, TypeStep, StoredStep, RunningStep, KeptStep, GrowsStep, AdjsStayStep
       DEF AnswerInv, Inv
  <1>2. \A s \in SetId : rows'[s] \subseteq Uploaded(s)
    BY <1>0, UploadedStep DEF AnswerInv
  <1>3. AdjsExact'
    BY <1>1, AdjsExactStep
  <1>4. \A w \in Worker : SayingAt(w)'
    <2>1. \A v \in Worker : SameLocals(v) => SayingAt(v)'
      BY <1>1, SayingFrame
    <2>2. CASE UNCHANGED vars
      BY <2>1, <2>2 DEF vars, SameLocals
    <2>3. ASSUME NEW w \in Worker,
                 (\E r \in Request : Submit(w, r)) \/ Handle(w) \/ Crash(w)
          PROVE  \A v \in Worker : SayingAt(v)'
      <3>1. SayingAt(w)'
        BY <1>1, <2>3, SayingStep
      <3>2. \A v \in Worker \ {w} : SayingAt(v)'
        BY <1>0, <2>1, <2>3, OthersRest
      <3> QED
        BY <3>1, <3>2
    <2> QED
      BY <2>2, <2>3 DEF Next
  <1>5. ASSUME NEW r \in Request, NEW y, Exact(r, y), Filed(r)
        PROVE  Exact(r, y)' /\ Filed(r)'
    BY <1>0, <1>1, <1>5, ExactStays
  <1>6. ASSUME NEW k \in Keys, idem'[k] # None, idem'[k].reply.status \in Success
        PROVE  Exact(idem[k].norm, idem[k].reply)' /\ Filed(idem[k].norm)'
    <2>1. CASE idem'[k] = idem[k]
      <3>1. /\ idem[k].norm \in Request
            /\ Exact(idem[k].norm, idem[k].reply) /\ Filed(idem[k].norm)
        BY <1>0, <1>6, <2>1 DEF TypeInv, TypeOK, AnswerInv, Saying
      <3>2. ASSUME NEW r, NEW y, r = idem[k].norm, y = idem[k].reply
            PROVE  Exact(r, y)' /\ Filed(r)'
        BY <1>5, <3>1, <3>2
      <3> QED
        BY <2>1, <3>2 DEF Exact, Filed
    <2>2. CASE idem'[k] # idem[k]
      <3>1. PICK w \in Worker : Save(w)
        BY <2>2, KeepingSteps DEF SaveAdjudication, Respond, database
      <3>2. idem'[k] = [norm |-> req[w], reply |-> reply[w]]
        BY <1>0, <2>2, <3>1 DEF Save, TypeInv, TypeOK
      <3>3. /\ pc[w] = "save" /\ req[w] \in Request /\ reply[w] \in Reply
            /\ UNCHANGED <<phase, manifest, adjs>>
        BY <1>0, <3>1, RunningHasRequest DEF Save, TypeInv, TypeOK
      <3>4. SayingAt(w) /\ reply[w].status \in Success
        BY <1>6, <3>2, <3>3 DEF AnswerInv, Saying
      <3>5. Exact(req[w], reply[w]) /\ Filed(req[w])
        BY <3>3, <3>4 DEF SayingAt
      <3> QED
        BY <3>2, <3>3, <3>5 DEF Exact, Filed
    <2> QED
      BY <2>1, <2>2
  <1>7. ASSUME NEW a \in replies', Succeeded(a)
        PROVE  Exact(a.req, a.reply)' /\ Filed(a.req)'
    <2>1. CASE a \in replies
      <3>1. a.req \in Request /\ Exact(a.req, a.reply) /\ Filed(a.req)
        BY <1>0, <1>7, <2>1 DEF TypeInv, TypeOK, Answer, AnswerInv, Saying
      <3> QED
        BY <1>5, <3>1
    <2>2. CASE a \notin replies
      <3>1. PICK w \in Worker : Respond(w)
        BY <2>2, KeepingSteps DEF SaveAdjudication, Save, history
      <3>2. /\ pc[w] = "respond" /\ req[w] \in Request /\ reply[w] \in Reply
            /\ a = [req |-> req[w], reply |-> reply[w]]
        BY <1>0, <2>2, <3>1, RunningHasRequest DEF Respond, TypeInv, TypeOK
      <3>3. SayingAt(w) /\ reply[w].status \in Success
        BY <1>7, <3>2 DEF AnswerInv, Saying, Succeeded
      <3>4. a.req \in Request /\ Exact(a.req, a.reply) /\ Filed(a.req)
        BY <3>2, <3>3 DEF SayingAt
      <3> QED
        BY <1>5, <3>4
    <2> QED
      BY <2>1, <2>2
  <1> QED
    BY <1>1, <1>2, <1>3, <1>4, <1>6, <1>7 DEF AnswerInv, Saying

LEMMA AnswersExact == Spec => []AnswerInv
  BY AnswerInit, AnswerInductive, PTL DEF Spec

------------------------------------------------------------------------------
(* Successes: what follows *)

(* What is noted is listed, and what was listed stays.                     *)
LEMMA NotingLists ==
    ASSUME NEW list, NEW kind, NEW C, NEW rank, \A c \in C : rank[c] \in Nat
    PROVE  Listed(Noting(list, kind, C, rank)) = Listed(list) \cup ({kind} \X C)
  <1> DEFINE new == {entry \in {kind} \X C : entry \notin Listed(list)}
             noted == Noting(list, kind, C, rank)
  <1>1. noted = list \cup (Listed(list) \X new)
                     \cup {pair \in new \X new :
                             rank[pair[1][2]] =< rank[pair[2][2]]}
    BY DEF Noting
  <1>2. ASSUME NEW entry \in Listed(noted)
        PROVE  entry \in Listed(list) \cup ({kind} \X C)
    BY <1>1 DEF Listed
  <1>3. ASSUME NEW entry \in Listed(list)
        PROVE  entry \in Listed(noted)
    BY <1>1 DEF Listed
  <1>4. ASSUME NEW entry \in new
        PROVE  entry \in Listed(noted)
    <2>1. entry[2] \in C
      OBVIOUS
    <2>2. rank[entry[2]] =< rank[entry[2]]
      BY <2>1
    <2>3. <<entry, entry>> \in {pair \in new \X new :
                                  rank[pair[1][2]] =< rank[pair[2][2]]}
      BY <2>2
    <2>4. <<entry, entry>> \in noted
      BY <1>1, <2>3
    <2> HIDE DEF noted
    <2> QED
      BY <2>4 DEF Listed
  <1> HIDE DEF noted
  <1> QED
    BY <1>2, <1>3, <1>4 DEF noted

(* What is listed already is not listed again.                             *)
LEMMA NotingAgain ==
    ASSUME NEW list, NEW kind, NEW C, {kind} \X C \subseteq Listed(list), NEW rank
    PROVE  Noting(list, kind, C, rank) = list
  <1>1. {entry \in {kind} \X C : entry \notin Listed(list)} = {}
    OBVIOUS
  <1> QED
    BY <1>1 DEF Noting

(* Ranks that put the pieces in the same order give the same list.         *)
LEMMA NotingAlike ==
    ASSUME NEW list, NEW kind, NEW C, NEW rank, NEW other,
           \A c, d \in C : (rank[c] =< rank[d]) <=> (other[c] =< other[d])
    PROVE  Noting(list, kind, C, rank) = Noting(list, kind, C, other)
  <1> DEFINE new == {entry \in {kind} \X C : entry \notin Listed(list)}
  <1>1. \A entry \in new : entry[2] \in C
    OBVIOUS
  <1> HIDE DEF new
  <1>2. {pair \in new \X new : rank[pair[1][2]] =< rank[pair[2][2]]}
           = {pair \in new \X new : other[pair[1][2]] =< other[pair[2][2]]}
    BY <1>1
  <1> QED
    BY <1>2 DEF Noting, new

LEMMA ListingsList ==
    ASSUME NEW E, NEW list \in Listings(E)
    PROVE  Listed(list) = E
  <1>1. list \subseteq E \X E
    BY DEF Listings
  <1>2. \A x \in E : <<x, x>> \in list
    BY DEF Listings
  <1>3. ASSUME NEW x \in Listed(list) PROVE x \in E
    BY <1>1 DEF Listed
  <1>4. ASSUME NEW x \in E PROVE x \in Listed(list)
    <2>1. <<x, x>> \in list /\ <<x, x>>[1] = x
      BY <1>2
    <2> QED
      BY <2>1 DEF Listed
  <1> QED
    BY <1>3, <1>4

LEMMA PositionType ==
    ASSUME NEW m \in Manifest, NEW q \in Query
    PROVE  Position(m, q) \in [Content -> Nat]
  <1>1. m.certs \cup Revocation(m) \subseteq Content
    BY DEF Manifest, Evidenced, Revocation
  <1> QED
    BY <1>1, FoundType DEF Position

(* The certificates in the list of a result: those that are refused and    *)
(* parsed, which without a name index are all of the set.                  *)
LEMMA ProblemsOf ==
    ASSUME NEW m \in Manifest, NEW q \in Query, NEW i \in BOOLEAN,
           NEW first \in Listings(RefusedAnchors(q)), Answerable(m, q)
    PROVE  Listed(ParseProblems(m, q, i, first)) =
              ({"certificate"} \X
                  (Rejected \cap (q.anchors \cup LookedUp(m, q)
                                     \cup (IF i THEN {} ELSE m.certs))))
              \cup (IF Early(q) THEN {}
                    ELSE ({"crl"} \X ({e.content : e \in m.crls} \cap Rejected))
                         \cup ({"ocsp"} \X ({e.content : e \in m.ocsps} \cap Rejected)))
  <1> DEFINE crlsOf  == {e.content : e \in m.crls} \cap Rejected
             ocspsOf == {e.content : e \in m.ocsps} \cap Rejected
             certs  == IF i THEN first
                       ELSE Noting(first, "certificate", m.certs \cap Rejected,
                                   Digest)
             crls   == Noting(certs, "crl", crlsOf, Digest)
             loaded == Noting(crls, "ocsp", ocspsOf, Digest)
             all    == Noting(loaded, "certificate", LookedUp(m, q) \cap Rejected,
                              Position(m, q))
  <1>1. \A c \in Rejected : Digest[c] \in Nat /\ Position(m, q)[c] \in Nat
    BY ContentType, DigestType, PositionType
  <1>2. Listed(first) = {"certificate"} \X (q.anchors \cap Rejected)
    BY ListingsList DEF RefusedAnchors
  <1>3. Listed(certs) = Listed(first) \cup
           ({"certificate"} \X (IF i THEN {} ELSE m.certs \cap Rejected))
    <2>1. CASE i
      BY <2>1
    <2>2. CASE ~ i
      BY <1>1, <2>2, NotingLists
    <2> QED
      BY <2>1, <2>2
  <1> HIDE DEF certs
  <1>4. Listed(crls) = Listed(certs) \cup ({"crl"} \X crlsOf)
    BY <1>1, NotingLists
  <1> HIDE DEF crls
  <1>5. Listed(loaded) = Listed(crls) \cup ({"ocsp"} \X ocspsOf)
    BY <1>1, NotingLists
  <1> HIDE DEF loaded
  <1>6. Listed(all) = Listed(loaded)
                         \cup ({"certificate"} \X (LookedUp(m, q) \cap Rejected))
    BY <1>1, NotingLists
  <1>7. ParseProblems(m, q, i, first) = IF Early(q) THEN certs ELSE all
    BY DEF ParseProblems, certs, crls, loaded
  <1>8. CASE Early(q)
    <2>1. LookedUp(m, q) = {}
      BY <1>8 DEF LookedUp
    <2> QED
      BY <1>2, <1>3, <1>7, <1>8, <2>1
  <1>9. CASE ~ Early(q)
    <2> HIDE DEF all, crlsOf, ocspsOf
    <2>1. Listed(ParseProblems(m, q, i, first)) =
             ({"certificate"} \X (q.anchors \cap Rejected))
             \cup ({"certificate"} \X (IF i THEN {} ELSE m.certs \cap Rejected))
             \cup ({"crl"} \X crlsOf) \cup ({"ocsp"} \X ocspsOf)
             \cup ({"certificate"} \X (LookedUp(m, q) \cap Rejected))
      BY <1>2, <1>3, <1>4, <1>5, <1>6, <1>7, <1>9
    <2> QED
      BY <1>9, <2>1 DEF crlsOf, ocspsOf
  <1> QED
    BY <1>8, <1>9

(* What the name index hides is refused and not reached.                   *)
LEMMA ProblemsDiffer ==
    ASSUME NEW m \in Manifest, NEW q \in Query, Answerable(m, q),
           NEW i \in BOOLEAN, NEW first \in Listings(RefusedAnchors(q)),
           NEW j \in BOOLEAN, NEW other \in Listings(RefusedAnchors(q))
    PROVE  Listed(ParseProblems(m, q, i, first))
              \ Listed(ParseProblems(m, q, j, other))
           \subseteq {"certificate"} \X ((m.certs \cap Rejected) \ Reached(m, q))
  <1>1. q.leaf \notin Rejected
    BY DEF Answerable
  <1>2. /\ Listed(ParseProblems(m, q, i, first)) =
              ({"certificate"} \X
                  (Rejected \cap (q.anchors \cup LookedUp(m, q)
                                     \cup (IF i THEN {} ELSE m.certs))))
              \cup (IF Early(q) THEN {}
                    ELSE ({"crl"} \X ({e.content : e \in m.crls} \cap Rejected))
                         \cup ({"ocsp"} \X ({e.content : e \in m.ocsps} \cap Rejected)))
        /\ Listed(ParseProblems(m, q, j, other)) =
              ({"certificate"} \X
                  (Rejected \cap (q.anchors \cup LookedUp(m, q)
                                     \cup (IF j THEN {} ELSE m.certs))))
              \cup (IF Early(q) THEN {}
                    ELSE ({"crl"} \X ({e.content : e \in m.crls} \cap Rejected))
                         \cup ({"ocsp"} \X ({e.content : e \in m.ocsps} \cap Rejected)))
    BY ProblemsOf
  <1> QED
    BY <1>1, <1>2 DEF Reached

(* Two successes for one request are the same, or they are results that    *)
(* differ in nothing but the list of refused evidence: in its order, or in *)
(* certificates of the set which the parser refuses and the question does  *)
(* not reach, listed in one of them.                                       *)
AlikeButForProblems ==
    \A a, b \in replies :
        (a.req = b.req /\ Succeeded(a) /\ Succeeded(b)) =>
            \/ a.reply = b.reply
            \/ /\ a.req.op = "adjudicate"
               /\ a.reply = ResultReply([b.reply.result EXCEPT
                                            !.problems = a.reply.result.problems])
               /\ Listed(a.reply.result.problems) \ Listed(b.reply.result.problems)
                     \subseteq {"certificate"} \X
                        ((manifest[a.req.set].certs \cap Rejected)
                            \ Reached(manifest[a.req.set], a.req.query))

LEMMA ExactAlike ==
    ASSUME TypeInv, NEW r \in Request, NEW y, NEW z, Exact(r, y), Exact(r, z)
    PROVE  \/ y = z
           \/ /\ r.op = "adjudicate"
              /\ y = ResultReply([z.result EXCEPT !.problems = y.result.problems])
              /\ Listed(y.result.problems) \ Listed(z.result.problems)
                    \subseteq {"certificate"} \X
                       ((manifest[r.set].certs \cap Rejected)
                           \ Reached(manifest[r.set], r.query))
  <1>1. /\ r.op \in {"create", "items", "seal", "adjudicate"} /\ r.set \in SetId
        /\ ((r.op = "adjudicate") => r.query \in Query)
    BY RequestFields DEF Op
  <1>2. CASE r.op # "adjudicate"
    BY <1>1, <1>2 DEF Exact
  <1>3. CASE r.op = "adjudicate"
    <2> DEFINE m == manifest[r.set]
    <2>1. phase[r.set] = "sealed" /\ m \in Manifest
      BY <1>1, <1>3 DEF Exact, TypeInv, OpFits
    <2>2. /\ y = ResultReply(y.result) /\ Computed(y.result, r.set, m, r.query)
          /\ z = ResultReply(z.result) /\ Computed(z.result, r.set, m, r.query)
      BY <1>3 DEF Exact
    <2> HIDE DEF m
    <2>3. Answerable(m, r.query)
      BY <2>2 DEF Computed
    <2>4. PICK i \in BOOLEAN, first \in Listings(RefusedAnchors(r.query)) :
             y.result = ResultOf(r.set, m, r.query, i, first)
      BY <2>2 DEF Computed
    <2>5. PICK j \in BOOLEAN, other \in Listings(RefusedAnchors(r.query)) :
             z.result = ResultOf(r.set, m, r.query, j, other)
      BY <2>2 DEF Computed
    <2>6. /\ y.result.problems = ParseProblems(m, r.query, i, first)
          /\ z.result.problems = ParseProblems(m, r.query, j, other)
      BY <2>4, <2>5 DEF ResultOf
    <2>7. y.result = [z.result EXCEPT !.problems = y.result.problems]
      BY <2>4, <2>5 DEF ResultOf
    <2>8. Listed(y.result.problems) \ Listed(z.result.problems)
             \subseteq {"certificate"} \X
                ((m.certs \cap Rejected) \ Reached(m, r.query))
      BY <1>1, <1>3, <2>1, <2>3, <2>6, ProblemsDiffer
    <2> QED
      BY <1>3, <2>2, <2>7, <2>8 DEF m
  <1> QED
    BY <1>2, <1>3

(* Whatever instances answer a request with success, fresh, replayed, from *)
(* the table or computed again after a crash, the answers differ at most   *)
(* in the list of refused evidence, in its order or in certificates that   *)
(* are out of reach of the question.                                       *)
THEOREM AnswersAreAlike == Spec => []AlikeButForProblems
  <1>1. AnswerInv => AlikeButForProblems
    <2> SUFFICES ASSUME AnswerInv, NEW a \in replies, NEW b \in replies,
                        a.req = b.req, Succeeded(a), Succeeded(b)
                 PROVE  \/ a.reply = b.reply
                        \/ /\ a.req.op = "adjudicate"
                           /\ a.reply = ResultReply([b.reply.result EXCEPT
                                           !.problems = a.reply.result.problems])
                           /\ Listed(a.reply.result.problems)
                                 \ Listed(b.reply.result.problems)
                              \subseteq {"certificate"} \X
                                 ((manifest[a.req.set].certs \cap Rejected)
                                    \ Reached(manifest[a.req.set], a.req.query))
      BY DEF AlikeButForProblems
    <2>1. TypeInv /\ a.req \in Request
      BY DEF AnswerInv, Inv, TypeInv, TypeOK, Answer
    <2>2. Exact(a.req, a.reply) /\ Exact(a.req, b.reply)
      BY DEF AnswerInv, Saying
    <2> QED
      BY <2>1, <2>2, ExactAlike
  <1> QED
    BY AnswersExact, <1>1, PTL

(* The list of refused evidence is the same with and without a name index: *)
(* no certificate of the set is refused; or the question comes to all that *)
(* are, in the order of their digests, and no CRL or OCSP response, which  *)
(* would come between them, is.                                            *)
ListedAlike(m, q) ==
    LET refused == m.certs \cap Rejected IN
    \/ refused = {}
    \/ /\ ~ Early(q)
       /\ Revocation(m) \cap Rejected = {}
       /\ refused \subseteq LookedUp(m, q)
       /\ \A c, d \in refused :
             (Digest[c] =< Digest[d]) <=> (Position(m, q)[c] =< Position(m, q)[d])

LEMMA ProblemsSame ==
    ASSUME NEW m \in Manifest, NEW q \in Query, Answerable(m, q),
           ListedAlike(m, q),
           NEW i \in BOOLEAN, NEW first \in Listings(RefusedAnchors(q)),
           NEW j \in BOOLEAN, NEW other \in Listings(RefusedAnchors(q))
    PROVE  ParseProblems(m, q, i, first) = ParseProblems(m, q, j, other)
  <1> DEFINE refused == m.certs \cap Rejected
             crlsOf  == {e.content : e \in m.crls} \cap Rejected
             ocspsOf == {e.content : e \in m.ocsps} \cap Rejected
             certs(k, list) == IF k THEN list
                               ELSE Noting(list, "certificate", refused, Digest)
             crls(k, list)   == Noting(certs(k, list), "crl", crlsOf, Digest)
             loaded(k, list) == Noting(crls(k, list), "ocsp", ocspsOf, Digest)
             all(k, list)    == Noting(loaded(k, list), "certificate",
                                       LookedUp(m, q) \cap Rejected, Position(m, q))
  <1>1. ASSUME NEW k \in BOOLEAN, NEW list
        PROVE  ParseProblems(m, q, k, list) = IF Early(q) THEN certs(k, list)
                                                          ELSE all(k, list)
    BY DEF ParseProblems
  <1>2. LookedUp(m, q) \cap Rejected \subseteq refused
    BY DEF LookedUp
  <1>3. q.anchors \cap Rejected \subseteq refused
    BY DEF Answerable
  <1>4. \A c \in Rejected : Digest[c] \in Nat /\ Position(m, q)[c] \in Nat
    BY ContentType, DigestType, PositionType
  <1>5. ASSUME q.anchors \cap Rejected = {}
        PROVE  first = {} /\ other = {}
    <2>1. RefusedAnchors(q) = {}
      BY <1>5 DEF RefusedAnchors
    <2> QED
      BY <2>1 DEF Listings
  <1>6. Listed({}) = {}
    BY DEF Listed
  <1>7. CASE refused = {}
    <2>1. first = {} /\ other = {}
      BY <1>3, <1>5, <1>7
    <2>2. ASSUME NEW k \in BOOLEAN PROVE certs(k, {}) = {}
      <3>1. Noting({}, "certificate", refused, Digest) = {}
        BY <1>6, <1>7, NotingAgain
      <3> QED
        BY <3>1
    <2>3. certs(i, {}) = certs(j, {})
      BY <2>2
    <2>4. all(i, {}) = all(j, {})
      BY <2>3
    <2> HIDE DEF certs, crls, loaded, all
    <2> QED
      BY <1>1, <2>1, <2>3, <2>4
  <1>8. CASE refused # {}
    <2>1. /\ ~ Early(q)
          /\ crlsOf = {} /\ ocspsOf = {}
          /\ LookedUp(m, q) \cap Rejected = refused
          /\ \A c, d \in refused :
                (Digest[c] =< Digest[d])
                   <=> (Position(m, q)[c] =< Position(m, q)[d])
      BY <1>2, <1>8 DEF ListedAlike, Revocation
    <2>2. first = {} /\ other = {}
      BY <1>5, <2>1 DEF Answerable
    <2> DEFINE noted == Noting({}, "certificate", refused, Digest)
    <2>3. ASSUME NEW list
          PROVE  Noting(Noting(list, "crl", crlsOf, Digest),
                        "ocsp", ocspsOf, Digest) = list
      BY <2>1, NotingAgain
    <2>4. Noting({}, "certificate", refused, Position(m, q)) = noted
      BY <2>1, NotingAlike
    <2>5. Noting(noted, "certificate", refused, Position(m, q)) = noted
      <3>1. {"certificate"} \X refused \subseteq Listed(noted)
        BY <1>4, <1>6, NotingLists
      <3> HIDE DEF noted, refused
      <3> QED
        BY <3>1, NotingAgain
    <2>6. ASSUME NEW k \in BOOLEAN PROVE all(k, {}) = noted
      <3>1. loaded(k, {}) = certs(k, {})
        BY <2>3
      <3> QED
        BY <2>1, <2>4, <2>5, <3>1
    <2> HIDE DEF certs, crls, loaded, all
    <2> QED
      BY <1>1, <2>1, <2>2, <2>6
  <1> QED
    BY <1>7, <1>8

(* For whatever part of the uploads to a set gets into it, each question   *)
(* about the set finds its list of refused evidence the same.              *)
AlwaysListedAlike ==
    \A r \in Request : r.op = "adjudicate" =>
       \A R \in SUBSET Uploaded(r.set) : ListedAlike(ManifestOf(R), r.query)

(* Where that is so, every successful answer to one request is the same,   *)
(* byte for byte, for any number of instances and crashes.                 *)
LEMMA ExactSame ==
    ASSUME AlwaysListedAlike, AnswerInv, NEW r \in Request, NEW y, NEW z,
           Exact(r, y), Exact(r, z)
    PROVE  y = z
  <1>1. TypeInv /\ r.set \in SetId
    BY RequestFields DEF AnswerInv, Inv
  <1>2. CASE r.op # "adjudicate"
    BY <1>1, <1>2, ExactAlike
  <1>3. CASE r.op = "adjudicate"
    <2> DEFINE m == manifest[r.set]
    <2>1. phase[r.set] = "sealed" /\ m \in Manifest /\ r.query \in Query
      BY <1>1, <1>3, RequestFields DEF Exact, TypeInv, OpFits
    <2>2. ListedAlike(m, r.query)
      <3>1. /\ m = ManifestOf(rows[r.set])
            /\ rows[r.set] \in SUBSET Uploaded(r.set)
        BY <1>1, <2>1 DEF AnswerInv, Inv, Stored, Saying
      <3> QED
        BY <1>3, <3>1 DEF AlwaysListedAlike
    <2>3. /\ y = ResultReply(y.result) /\ Computed(y.result, r.set, m, r.query)
          /\ z = ResultReply(z.result) /\ Computed(z.result, r.set, m, r.query)
      BY <1>3 DEF Exact
    <2> HIDE DEF m
    <2>4. Answerable(m, r.query)
      BY <2>3 DEF Computed
    <2>5. PICK i \in BOOLEAN, first \in Listings(RefusedAnchors(r.query)) :
             y.result = ResultOf(r.set, m, r.query, i, first)
      BY <2>3 DEF Computed
    <2>6. PICK j \in BOOLEAN, other \in Listings(RefusedAnchors(r.query)) :
             z.result = ResultOf(r.set, m, r.query, j, other)
      BY <2>3 DEF Computed
    <2>7. ParseProblems(m, r.query, i, first) = ParseProblems(m, r.query, j, other)
      BY <2>1, <2>2, <2>4, ProblemsSame
    <2>8. y.result = z.result
      BY <2>5, <2>6, <2>7 DEF ResultOf
    <2> QED
      BY <2>3, <2>8
  <1> QED
    BY <1>2, <1>3

(* One request has one successful answer, where the name index cannot      *)
(* change the list of refused evidence.                                    *)
THEOREM OneAnswer ==
    ASSUME AlwaysListedAlike
    PROVE  Spec => []SameAnswer
  <1>1. AnswerInv => SameAnswer
    <2> SUFFICES ASSUME AnswerInv, NEW a \in replies, NEW b \in replies,
                        a.req = b.req, Succeeded(a), Succeeded(b)
                 PROVE  a.reply = b.reply
      BY DEF SameAnswer
    <2>1. a.req \in Request
      BY DEF AnswerInv, Inv, TypeInv, TypeOK, Answer
    <2>2. Exact(a.req, a.reply) /\ Exact(a.req, b.reply)
      BY DEF AnswerInv, Saying
    <2> QED
      BY <2>1, <2>2, ExactSame
  <1> QED
    BY AnswersExact, <1>1, PTL

(* A normalized question is asked about one set only.                      *)
OneSetPerQuery ==
    \A r, q \in Request :
       (r.op = "adjudicate" /\ q.op = "adjudicate" /\ r.query = q.query)
          => r.set = q.set

(* An adjudication that was answered can be read back and says the same,   *)
(* where the name index cannot change the list of refused evidence and no  *)
(* question is asked about two sets (the findings break it otherwise).     *)
THEOREM AnswersCanBeFetched ==
    ASSUME AlwaysListedAlike, OneSetPerQuery
    PROVE  Spec => []Fetchable
  <1>1. AnswerInv => Fetchable
    <2> SUFFICES ASSUME AnswerInv, NEW a \in replies,
                        a.req.op = "adjudicate", Succeeded(a)
                 PROVE  GetAdjudication(a.req.set, a.req.query) = a.reply
      BY DEF Fetchable
    <2> DEFINE r == a.req
               row == adjs[r.query]
    <2>1. r \in Request /\ r.query \in Query
      BY RequestFields DEF AnswerInv, Inv, TypeInv, TypeOK, Answer
    <2>2. Exact(r, a.reply) /\ row # None
      BY DEF AnswerInv, Saying, Filed
    <2>3. /\ phase[row.set] = "sealed"
          /\ AskedOf(r.query, row.set)
          /\ Computed(row.result, row.set, manifest[row.set], r.query)
      BY <2>1, <2>2 DEF AnswerInv, Saying, AdjsExact
    <2>4. row.set = r.set
      BY <2>1, <2>3 DEF AskedOf, OneSetPerQuery
    <2>5. Exact(r, ResultReply(row.result))
      <3>1. ResultReply(row.result).result = row.result
        BY DEF ResultReply
      <3> QED
        BY <2>3, <2>4, <3>1 DEF Exact
    <2>6. a.reply = ResultReply(row.result)
      BY <2>1, <2>2, <2>5, ExactSame
    <2> QED
      BY <2>2, <2>4, <2>6 DEF GetAdjudication
  <1> QED
    BY AnswersExact, <1>1, PTL
==============================================================================
