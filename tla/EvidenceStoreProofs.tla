------------------------- MODULE EvidenceStoreProofs -------------------------
(***************************************************************************)
(* Proofs about EvidenceStore, for any number of instances, requests and   *)
(* crashes.  Types first, then one inductive invariant, then what follows  *)
(* from it.                                                                *)
(***************************************************************************)
EXTENDS EvidenceStore, WellFoundedInduction, TLAPS

(* What seal collects is a manifest.                                       *)
LEMMA ManifestOfType ==
    ASSUME NEW R \in SUBSET Row
    PROVE  ManifestOf(R) \in Manifest
  BY DEF ManifestOf, Manifest, Earliest, Evidenced, Row, Kind, Time

LEMMA RequestFields ==
    ASSUME NEW r \in Request
    PROVE  /\ r.op \in Op
           /\ r.set \in SetId
           /\ r.batch \in SUBSET Row
           /\ Contents(r.batch) \in SUBSET Content
           /\ Key(r) \in Keys
           /\ (r.op = "items") <=> (r.batch # {})
           /\ (r.op = "adjudicate") => (r.query \in Query)
  <1>1. r \in RequestRecord
    BY RequestType
  <1>2. Contents(r.batch) \in SUBSET Content
    BY <1>1 DEF RequestRecord, Contents, Row
  <1> QED
    BY <1>1, <1>2, RequestType DEF RequestRecord, Key, Keys

LEMMA ReplyTypes ==
    /\ \A status \in Status : Plain(status) \in Reply
    /\ \A m \in Manifest \cup {None} : SealReply(m) \in Reply
    /\ \A res \in Result : ResultReply(res) \in Reply
  BY DEF Plain, SealReply, ResultReply, Reply, Status, Success

(* A piece of evidence that is noted keeps the list one of problems.       *)
LEMMA NotingType ==
    ASSUME NEW list \in ProblemList, NEW kind \in Kind,
           NEW C \in SUBSET Content, NEW rank
    PROVE  Noting(list, kind, C, rank) \in ProblemList
  <1> DEFINE new == {entry \in {kind} \X C : entry \notin Listed(list)}
  <1>1. Listed(list) \subseteq Kind \X Content
    BY DEF Listed, ProblemList
  <1>2. new \subseteq Kind \X Content
    OBVIOUS
  <1> HIDE DEF new
  <1>3. {pair \in new \X new : rank[pair[1][2]] =< rank[pair[2][2]]}
           \subseteq new \X new
    OBVIOUS
  <1>4. Noting(list, kind, C, rank) =
           list \cup (Listed(list) \X new)
                \cup {pair \in new \X new :
                         rank[pair[1][2]] =< rank[pair[2][2]]}
    BY DEF Noting, new
  <1> HIDE DEF new
  <1> QED
    BY <1>1, <1>2, <1>3, <1>4 DEF ProblemList

LEMMA ResultOfType ==
    ASSUME NEW s \in SetId, NEW m \in Manifest, NEW q \in Query,
           NEW indexed \in BOOLEAN, NEW first \in Listings(RefusedAnchors(q))
    PROVE  ResultOf(s, m, q, indexed, first) \in Result
  <1> DEFINE certs  == IF indexed THEN first
                       ELSE Noting(first, "certificate", m.certs \cap Rejected,
                                   Digest)
             crls   == Noting(certs, "crl",
                              {e.content : e \in m.crls} \cap Rejected, Digest)
             loaded == Noting(crls, "ocsp",
                              {e.content : e \in m.ocsps} \cap Rejected, Digest)
  <1>1. first \in ProblemList
    BY ContentType DEF Listings, RefusedAnchors, ProblemList, Kind
  <1>2. certs \in ProblemList
    BY <1>1, ContentType, NotingType DEF Kind
  <1>3. crls \in ProblemList
    BY <1>2, ContentType, NotingType DEF Kind
  <1>4. loaded \in ProblemList
    BY <1>3, ContentType, NotingType DEF Kind
  <1>5. Noting(loaded, "certificate", LookedUp(m, q) \cap Rejected,
               Position(m, q)) \in ProblemList
    BY <1>4, ContentType, NotingType DEF Kind
  <1>6. ParseProblems(m, q, indexed, first) \in ProblemList
    BY <1>2, <1>5 DEF ParseProblems
  <1> QED
    BY <1>6 DEF ResultOf, Result

LEMMA StatusTypes ==
    /\ \A R, B : SealStatus(R, B) \in Status
    /\ \A m, q, indexed, B : CoreStatus(m, q, indexed, B) \in Status
  BY DEF SealStatus, CoreStatus, Status, Success

------------------------------------------------------------------------------
(* Types *)

(* The call a handler is at tells which request it handles, and a sealed   *)
(* set has a manifest for it to read.                                      *)
OpFits ==
    /\ \A s \in SetId : phase[s] = "sealed" => manifest[s] \in Manifest
    /\ \A w \in Worker :
          /\ pc[w] = "create_set" => req[w].op = "create"
          /\ pc[w] \in {"put_blob", "assert_open", "add_items"}
                => req[w].op = "items"
          /\ pc[w] \in {"seal", "sidecar"} => req[w].op = "seal"
          /\ pc[w] \in {"read_set", "lookup", "run_core", "save_adjudication"}
                => req[w].op = "adjudicate"
          /\ pc[w] = "save_adjudication" => reply[w].result \in Result

TypeInv == TypeOK /\ OpFits

(* In a state of the right types a running handler has a request.          *)
LEMMA RunningHasRequest ==
    ASSUME TypeOK, NEW w \in Worker, pc[w] # "idle"
    PROVE  req[w] \in Request
  BY DEF TypeOK

LEMMA TypeInit == Init => TypeInv
  <1> SUFFICES ASSUME Init PROVE TypeInv
    OBVIOUS
  <1> QED
    BY CrashBound DEF Init, TypeInv, TypeOK, OpFits, Step

LEMMA TypeStep == TypeInv /\ [Next]_vars => TypeInv'
  <1> SUFFICES ASSUME TypeInv, [Next]_vars PROVE TypeInv'
    OBVIOUS
  <1> USE DEF TypeInv
  <1>1. CASE UNCHANGED vars
    BY <1>1 DEF vars, TypeOK, OpFits
  <1>2. ASSUME NEW w \in Worker, NEW r \in Request, Submit(w, r)
        PROVE  TypeInv'
    <2>1. r # None /\ Contents(r.batch) \in SUBSET Content
      BY RequestFields, NoneIsNoRecord
    <2> QED
      BY <1>2, <2>1 DEF Submit, TypeOK, OpFits, Goto, FirstCall, database,
                        history, Step
  <1>3. ASSUME NEW w \in Worker, GetSet(w)
        PROVE  TypeInv'
    BY <1>3, ReplyTypes DEF GetSet, TypeOK, OpFits, Goto, Raise, Build,
                            database, history, Step, Status, Success
  <1>4. ASSUME NEW w \in Worker, Idempotent(w)
        PROVE  TypeInv'
    <2>1. req[w] \in Request /\ Key(req[w]) \in Keys
      BY <1>4, RunningHasRequest, RequestFields DEF Idempotent
    <2>2. req[w].op \in Op
      BY <2>1, RequestFields
    <2> QED
      BY <1>4, <2>1, <2>2, ReplyTypes
         DEF Idempotent, SameContent, TypeOK, OpFits, Goto, Raise, Build, FirstWork, Op,
             database, history, Step, Status, Success
  <1>5. ASSUME NEW w \in Worker, CreateSet(w)
        PROVE  TypeInv'
    <2>1. phase' \in [SetId -> {"absent", "open", "sealed"}]
      BY <1>5 DEF CreateSet, TypeOK
    <2>2. Plain(201) \in Reply
      BY ReplyTypes DEF Status, Success
    <2> QED
      BY <1>5, <2>1, <2>2 DEF CreateSet, TypeOK, OpFits, Goto, Build,
                              history, Step
  <1>6. ASSUME NEW w \in Worker, PutBlob(w)
        PROVE  TypeInv'
    BY <1>6 DEF PutBlob, TypeOK, OpFits, Goto, database, history, Step
  <1>7. ASSUME NEW w \in Worker, AssertOpen(w)
        PROVE  TypeInv'
    BY <1>7, ReplyTypes DEF AssertOpen, TypeOK, OpFits, Goto, Raise, Build,
                            database, history, Step, Status, Success
  <1>8. ASSUME NEW w \in Worker, AddItems(w)
        PROVE  TypeInv'
    <2>1. req[w].batch \in SUBSET Row
      BY <1>8, RunningHasRequest, RequestFields DEF AddItems
    <2> QED
      BY <1>8, <2>1, ReplyTypes DEF AddItems, TypeOK, OpFits, Goto, Raise,
                                    Build, history, Step, Status, Success
  <1>9. ASSUME NEW w \in Worker, Seal(w)
        PROVE  TypeInv'
    <2>1. req[w] \in Request /\ req[w].set \in SetId
      BY <1>9, RunningHasRequest, RequestFields DEF Seal
    <2>2. ManifestOf(rows[req[w].set]) \in Manifest
      BY <2>1, ManifestOfType DEF TypeOK
    <2>3. /\ phase' \in [SetId -> {"absent", "open", "sealed"}]
          /\ manifest' \in [SetId -> Manifest \cup {None}]
          /\ \A s \in SetId : phase'[s] = "sealed" => manifest'[s] \in Manifest
      BY <1>9, <2>1, <2>2 DEF Seal, TypeOK, OpFits
    <2>4. PICK response \in Reply, step \in {"save", "sidecar", "respond"} :
             /\ Build(w, response, step)
             /\ step = "sidecar" => pc[w] = "seal"
      <3>1. CASE AlreadySealed(req[w].set)
        BY <1>9, <2>1, <3>1, ReplyTypes DEF Seal, TypeOK
      <3>2. CASE ~ AlreadySealed(req[w].set)
        <4>1. CASE Raise(w, 404) \/ Raise(w, SealStatus(rows[req[w].set], blobs))
          BY <4>1, ReplyTypes, StatusTypes DEF Raise, Status, Success
        <4>2. CASE Build(w, SealReply(ManifestOf(rows[req[w].set])), "sidecar")
          BY <1>9, <2>2, <4>2, ReplyTypes DEF Seal
        <4> QED
          BY <1>9, <3>2, <4>1, <4>2 DEF Seal
      <3> QED
        BY <3>1, <3>2
    <2> QED
      BY <1>9, <2>3, <2>4 DEF Seal, TypeOK, OpFits, Goto, Build, history, Step
  <1>10. ASSUME NEW w \in Worker, WriteSidecar(w)
         PROVE  TypeInv'
    <2>1. CASE Raise(w, 500)
      BY <1>10, <2>1, ReplyTypes
         DEF WriteSidecar, TypeOK, OpFits, Goto, Raise, Build, database,
             history, Step, Status, Success
    <2>2. CASE Goto(w, "save") /\ UNCHANGED reply
      BY <1>10, <2>2 DEF WriteSidecar, TypeOK, OpFits, Goto, database, history,
                         Step
    <2> QED
      BY <1>10, <2>1, <2>2 DEF WriteSidecar
  <1>11. ASSUME NEW w \in Worker, ReadSet(w)
         PROVE  TypeInv'
    <2>1. req[w] \in Request /\ req[w].set \in SetId
      BY <1>11, RunningHasRequest, RequestFields DEF ReadSet
    <2>2. phase[req[w].set] = "sealed" => manifest[req[w].set] \in Manifest
      BY <2>1 DEF OpFits
    <2> QED
      BY <1>11, <2>1, <2>2, ReplyTypes DEF ReadSet, TypeOK, OpFits, Goto, Raise, Build,
                             database, history, Step, Status, Success
  <1>12. ASSUME NEW w \in Worker, Lookup(w)
         PROVE  TypeInv'
    <2>1. req[w].query \in Query
      BY <1>12, RunningHasRequest, RequestFields DEF Lookup, OpFits
    <2>2. CASE RowOf(req[w].set, req[w].query)
      <3>1. adjs[req[w].query].result \in Result
        BY <2>1, <2>2 DEF RowOf, TypeOK
      <3> QED
        BY <1>12, <2>2, <3>1, ReplyTypes
           DEF Lookup, TypeOK, OpFits, Goto, Build, database, history, Step
    <2>3. CASE ~ RowOf(req[w].set, req[w].query)
      BY <1>12, <2>3 DEF Lookup, TypeOK, OpFits, Goto, database, history, Step
    <2> QED
      BY <2>2, <2>3
  <1>13. ASSUME NEW w \in Worker, RunCore(w)
         PROVE  TypeInv'
    <2>1. /\ req[w] \in Request
          /\ req[w].set \in SetId
          /\ req[w].query \in Query
      BY <1>13, RunningHasRequest, RequestFields DEF RunCore, OpFits
    <2>2. seen[w] \in Manifest /\ Indexed(req[w].set) \in BOOLEAN
      BY <1>13, <2>1 DEF RunCore, TypeOK, Indexed
    <2>3. CASE \E first \in Listings(RefusedAnchors(req[w].query)) :
                  Build(w, ResultReply(ResultOf(req[w].set, seen[w],
                           req[w].query, Indexed(req[w].set), first)),
                        "save_adjudication")
      <3>1. PICK first \in Listings(RefusedAnchors(req[w].query)) :
               Build(w, ResultReply(ResultOf(req[w].set, seen[w],
                        req[w].query, Indexed(req[w].set), first)),
                     "save_adjudication")
        BY <2>3
      <3> DEFINE result == ResultOf(req[w].set, seen[w], req[w].query,
                                    Indexed(req[w].set), first)
      <3>2. result \in Result
        BY <2>1, <2>2, ResultOfType
      <3> HIDE DEF result
      <3>3. ResultReply(result) \in Reply /\ ResultReply(result).result = result
        BY <3>2, ReplyTypes DEF ResultReply
      <3>4. Build(w, ResultReply(result), "save_adjudication")
        BY <3>1 DEF result
      <3> QED
        BY <1>13, <3>2, <3>3, <3>4 DEF RunCore, TypeOK, OpFits, Goto, Build,
                                       database, history, Step
    <2>4. CASE Raise(w, CoreStatus(seen[w], req[w].query,
                                   Indexed(req[w].set), blobs))
      <3> DEFINE status == CoreStatus(seen[w], req[w].query,
                                      Indexed(req[w].set), blobs)
      <3>1. status \in Status
        BY StatusTypes
      <3> HIDE DEF status
      <3>2. Raise(w, status)
        BY <2>4 DEF status
      <3> QED
        BY <1>13, <3>1, <3>2, ReplyTypes
           DEF RunCore, TypeOK, OpFits, Goto, Raise, Build, database, history,
               Step
    <2> QED
      BY <1>13, <2>3, <2>4 DEF RunCore
  <1>14. ASSUME NEW w \in Worker, SaveAdjudication(w)
         PROVE  TypeInv'
    <2>1. req[w].query \in Query /\ req[w].set \in SetId
      BY <1>14, RunningHasRequest, RequestFields DEF SaveAdjudication, OpFits
    <2>2. adjs' \in [Query -> [set : SetId, result : Result] \cup {None}]
      BY <1>14, <2>1 DEF SaveAdjudication, TypeOK, OpFits
    <2> QED
      BY <1>14, <2>2 DEF SaveAdjudication, TypeOK, OpFits, Goto, history, Step
  <1>15. ASSUME NEW w \in Worker, Save(w)
         PROVE  TypeInv'
    BY <1>15 DEF Save, TypeOK, OpFits, Goto, history, Step
  <1>16. ASSUME NEW w \in Worker, Respond(w)
         PROVE  TypeInv'
    BY <1>16 DEF Respond, Rest, TypeOK, OpFits, Goto, database, Step, Answer
  <1>17. ASSUME NEW w \in Worker, Crash(w)
         PROVE  TypeInv'
    BY <1>17, CrashBound DEF Crash, Rest, TypeOK, OpFits, Goto, database, Step
  <1> QED
    BY <1>1, <1>2, <1>3, <1>4, <1>5, <1>6, <1>7, <1>8, <1>9, <1>10, <1>11,
       <1>12, <1>13, <1>14, <1>15, <1>16, <1>17 DEF Next, Handle

(* Every reachable state is type-correct, whatever the numbers of          *)
(* instances, sets, requests and crashes.                                  *)
THEOREM TypeCorrect == Spec => []TypeOK
  <1>1. TypeInv => TypeOK
    BY DEF TypeInv
  <1> QED
    BY TypeInit, TypeStep, <1>1, PTL DEF Spec

------------------------------------------------------------------------------
(* The inductive invariant *)

Justified(a) == Abstract!Justified(a)

(* What the tables hold fits together.                                     *)
Stored ==
    \A s \in SetId :
       /\ phase[s] = "absent" => rows[s] = {}
       /\ phase[s] = "sealed" => manifest[s] = ManifestOf(rows[s])
       /\ Compatible(rows[s], rows[s])
       /\ Contents(rows[s]) \subseteq blobs

(* A handler has done what the call it is at relies on: an upload has      *)
(* written its blobs, an adjudication read the manifest that is still the  *)
(* one of the set, and a success that is built is true already.            *)
RunningAt(w) ==
    /\ pc[w] \in {"get_set", "idempotent"} => todo[w] = Contents(req[w].batch)
    /\ pc[w] = "put_blob" => Contents(req[w].batch) \subseteq blobs \cup todo[w]
    /\ pc[w] \in {"assert_open", "add_items"}
          => Contents(req[w].batch) \subseteq blobs
    /\ pc[w] \in {"lookup", "run_core", "save_adjudication"}
          => /\ phase[req[w].set] = "sealed"
             /\ seen[w] = manifest[req[w].set]
    /\ pc[w] \in {"sidecar", "save", "save_adjudication", "respond"}
          => (reply[w].status \in Success
                => Justified([req |-> req[w], reply |-> reply[w]]))
    /\ pc[w] = "save_adjudication"
          => /\ reply[w].result.set = req[w].set
             /\ reply[w].result.manifest = seen[w]
             /\ reply[w].result.query = req[w].query

Running == \A w \in Worker : RunningAt(w)

(* Everything kept to be answered later, or answered, is true.             *)
Kept ==
    /\ \A q \in Query : adjs[q] # None =>
          /\ phase[adjs[q].set] = "sealed"
          /\ adjs[q].result.set = adjs[q].set
          /\ adjs[q].result.manifest = manifest[adjs[q].set]
          /\ adjs[q].result.query = q
    /\ \A k \in Keys :
          (idem[k] # None /\ idem[k].reply.status \in Success)
             => Justified([req |-> idem[k].norm, reply |-> idem[k].reply])
    /\ \A a \in replies : Succeeded(a) => Justified(a)

Inv == TypeInv /\ Stored /\ Running /\ Kept

------------------------------------------------------------------------------
(* What is true of the tables stays true *)

Grows ==
    /\ \A s \in SetId :
          /\ phase[s] # "absent" => phase'[s] # "absent"
          /\ phase[s] = "sealed" => /\ phase'[s] = "sealed"
                                    /\ manifest'[s] = manifest[s]
                                    /\ rows'[s] = rows[s]
          /\ rows[s] \subseteq rows'[s]
    /\ blobs \subseteq blobs'

(* Only four calls write the sets, the items or the blobs.                 *)
LEMMA TableSteps ==
    ASSUME [Next]_vars
    PROVE  \/ \E w \in Worker :
                 CreateSet(w) \/ AddItems(w) \/ Seal(w) \/ PutBlob(w)
           \/ UNCHANGED <<phase, manifest, rows, blobs>>
  <1>1. CASE UNCHANGED vars
    BY <1>1 DEF vars
  <1>2. ASSUME NEW w \in Worker, NEW r \in Request, Submit(w, r)
        PROVE  UNCHANGED <<phase, manifest, rows, blobs>>
    BY <1>2 DEF Submit, database
  <1>3. ASSUME NEW w \in Worker,
               \/ GetSet(w) \/ Idempotent(w) \/ AssertOpen(w)
               \/ WriteSidecar(w) \/ ReadSet(w) \/ Lookup(w) \/ RunCore(w)
               \/ SaveAdjudication(w) \/ Save(w) \/ Respond(w) \/ Crash(w)
        PROVE  UNCHANGED <<phase, manifest, rows, blobs>>
    BY <1>3 DEF GetSet, Idempotent, AssertOpen, WriteSidecar, ReadSet, Lookup,
                RunCore, SaveAdjudication, Save, Respond, Crash, database
  <1> QED
    BY <1>1, <1>2, <1>3 DEF Next, Handle

LEMMA GrowsStep == TypeInv /\ [Next]_vars => Grows
  <1> SUFFICES ASSUME TypeInv, [Next]_vars PROVE Grows
    OBVIOUS
  <1>1. ASSUME NEW w \in Worker, CreateSet(w)
        PROVE  Grows
    BY <1>1 DEF CreateSet, Grows, TypeInv, TypeOK
  <1>2. ASSUME NEW w \in Worker, AddItems(w)
        PROVE  Grows
    BY <1>2 DEF AddItems, StillOpen, Raise, Build, Grows, TypeInv, TypeOK
  <1>3. ASSUME NEW w \in Worker, Seal(w)
        PROVE  Grows
    BY <1>3 DEF Seal, AlreadySealed, Raise, Build, Grows, TypeInv, TypeOK
  <1>4. ASSUME NEW w \in Worker, PutBlob(w)
        PROVE  Grows
    BY <1>4 DEF PutBlob, database, Grows
  <1>5. CASE UNCHANGED <<phase, manifest, rows, blobs>>
    BY <1>5 DEF Grows
  <1> QED
    BY <1>1, <1>2, <1>3, <1>4, <1>5, TableSteps

LEMMA JustifiedStable ==
    ASSUME Grows, NEW a \in Answer, Justified(a)
    PROVE  Justified(a)'
  <1>1. a.req \in Request /\ a.req.set \in SetId
    BY RequestFields DEF Answer
  <1> QED
    BY <1>1 DEF Grows, Justified, Abstract!Justified

------------------------------------------------------------------------------
(* The three parts of the invariant are preserved *)

LEMMA StoredStep == Inv /\ [Next]_vars => Stored'
  <1> SUFFICES ASSUME Inv, [Next]_vars PROVE Stored'
    OBVIOUS
  <1> USE DEF Inv
  <1>1. ASSUME NEW w \in Worker, CreateSet(w)
        PROVE  Stored'
    BY <1>1 DEF CreateSet, Stored, TypeInv, TypeOK
  <1>2. ASSUME NEW w \in Worker, AddItems(w)
        PROVE  Stored'
    <2>1. /\ req[w].set \in SetId
          /\ Contents(req[w].batch) \subseteq blobs
      BY <1>2, RunningHasRequest, RequestFields
         DEF AddItems, Running, RunningAt, TypeInv
    <2>2. CASE rows' = rows
      BY <1>2, <2>2 DEF AddItems, Stored
    <2>3. CASE /\ phase[req[w].set] = "open"
               /\ Compatible(rows[req[w].set], req[w].batch)
               /\ rows' = [rows EXCEPT ![req[w].set] = @ \cup req[w].batch]
      <3> DEFINE s == req[w].set
      <3>1. /\ rows'[s] = rows[s] \cup req[w].batch
            /\ \A t \in SetId \ {s} : rows'[t] = rows[t]
        BY <2>1, <2>3 DEF TypeInv, TypeOK
      <3>2. Compatible(rows'[s], rows'[s])
        BY <2>1, <2>3, <3>1 DEF Stored, Compatible
      <3>3. Contents(rows'[s]) \subseteq blobs
        BY <2>1, <3>1 DEF Stored, Contents
      <3> QED
        BY <1>2, <2>3, <3>1, <3>2, <3>3 DEF AddItems, Stored
    <2> QED
      BY <1>2, <2>2, <2>3 DEF AddItems, StillOpen
  <1>3. ASSUME NEW w \in Worker, Seal(w)
        PROVE  Stored'
    BY <1>3 DEF Seal, Stored, TypeInv, TypeOK
  <1>4. ASSUME NEW w \in Worker, PutBlob(w)
        PROVE  Stored'
    BY <1>4 DEF PutBlob, database, Stored
  <1>5. CASE UNCHANGED <<phase, manifest, rows, blobs>>
    BY <1>5 DEF Stored
  <1> QED
    BY <1>1, <1>2, <1>3, <1>4, <1>5, TableSteps

(* The other calls that write are the ones that keep an answer.            *)
LEMMA KeepingSteps ==
    ASSUME [Next]_vars
    PROVE  \/ \E w \in Worker : SaveAdjudication(w) \/ Save(w) \/ Respond(w)
           \/ UNCHANGED <<idem, adjs, replies>>
  BY DEF Next, Handle, Submit, GetSet, Idempotent, CreateSet, PutBlob,
         AssertOpen, AddItems, Seal, WriteSidecar, ReadSet, Lookup, RunCore,
         Crash, database, history, vars

LEMMA KeptStep == Inv /\ [Next]_vars => Kept'
  <1> SUFFICES ASSUME Inv, [Next]_vars PROVE Kept'
    OBVIOUS
  <1> USE DEF Inv
  <1>1. Grows
    BY GrowsStep
  <1>2. \A a \in Answer : Justified(a) => Justified(a)'
    BY <1>1, JustifiedStable
  <1>3. ASSUME NEW q \in Query, adjs'[q] # None, adjs'[q] = adjs[q]
        PROVE  /\ phase'[adjs'[q].set] = "sealed"
               /\ adjs'[q].result.set = adjs'[q].set
               /\ adjs'[q].result.manifest = manifest'[adjs'[q].set]
               /\ adjs'[q].result.query = q
    BY <1>1, <1>3 DEF Kept, TypeInv, TypeOK, Grows
  <1>4. ASSUME NEW k \in Keys, idem'[k] # None, idem'[k] = idem[k],
               idem'[k].reply.status \in Success
        PROVE  Justified([req |-> idem[k].norm, reply |-> idem[k].reply])'
    <2>1. [req |-> idem[k].norm, reply |-> idem[k].reply] \in Answer
      BY <1>4 DEF TypeInv, TypeOK, Answer
    <2> QED
      BY <1>2, <1>4, <2>1 DEF Kept, Justified, Abstract!Justified
  <1>5. ASSUME NEW a \in replies, Succeeded(a)
        PROVE  Justified(a)'
    BY <1>2, <1>5 DEF Kept, TypeInv, TypeOK
  <1>6. CASE UNCHANGED <<idem, adjs, replies>>
    BY <1>3, <1>4, <1>5, <1>6 DEF Kept
  <1>7. ASSUME NEW w \in Worker, SaveAdjudication(w)
        PROVE  Kept'
    <2>1. /\ req[w].query \in Query
          /\ req[w].set \in SetId
      BY <1>7, RunningHasRequest, RequestFields
         DEF SaveAdjudication, TypeInv, OpFits
    <2>2. ASSUME NEW q \in Query, adjs'[q] # None, adjs'[q] # adjs[q]
          PROVE  /\ q = req[w].query
                 /\ adjs'[q] = [set |-> req[w].set, result |-> reply[w].result]
      BY <1>7, <2>1, <2>2 DEF SaveAdjudication, TypeInv, TypeOK
    <2>3. /\ phase[req[w].set] = "sealed"
          /\ reply[w].result.set = req[w].set
          /\ reply[w].result.manifest = manifest[req[w].set]
          /\ reply[w].result.query = req[w].query
      BY <1>7 DEF SaveAdjudication, Running, RunningAt
    <2>4. UNCHANGED <<idem, replies, phase, manifest, rows>>
      BY <1>7 DEF SaveAdjudication, history
    <2> QED
      BY <1>3, <1>4, <1>5, <2>1, <2>2, <2>3, <2>4 DEF Kept
  <1>8. ASSUME NEW w \in Worker, Save(w)
        PROVE  Kept'
    <2>1. /\ req[w] \in Request
          /\ reply[w] \in Reply
          /\ Key(req[w]) \in Keys
      BY <1>8, RunningHasRequest, RequestFields DEF Save, TypeInv, TypeOK
    <2>2. reply[w].status \in Success
             => Justified([req |-> req[w], reply |-> reply[w]])
      BY <1>8 DEF Save, Running, RunningAt
    <2>3. [req |-> req[w], reply |-> reply[w]] \in Answer
      BY <2>1 DEF Answer
    <2>4. ASSUME NEW k \in Keys, idem'[k] # None, idem'[k] # idem[k]
          PROVE  idem'[k] = [norm |-> req[w], reply |-> reply[w]]
      BY <1>8, <2>1, <2>4 DEF Save, TypeInv, TypeOK
    <2>5. ASSUME NEW k \in Keys, idem'[k] # None, idem'[k] # idem[k],
                 idem'[k].reply.status \in Success
          PROVE  Justified([req |-> idem[k].norm, reply |-> idem[k].reply])'
      BY <1>2, <2>2, <2>3, <2>4, <2>5 DEF Justified, Abstract!Justified
    <2>6. UNCHANGED <<adjs, replies>>
      BY <1>8 DEF Save, history
    <2> QED
      BY <1>3, <1>4, <1>5, <2>5, <2>6 DEF Kept
  <1>9. ASSUME NEW w \in Worker, Respond(w)
        PROVE  Kept'
    <2>1. req[w] \in Request /\ reply[w] \in Reply
      BY <1>9, RunningHasRequest DEF Respond, TypeInv, TypeOK
    <2>2. reply[w].status \in Success
             => Justified([req |-> req[w], reply |-> reply[w]])
      BY <1>9 DEF Respond, Running, RunningAt
    <2>3. [req |-> req[w], reply |-> reply[w]] \in Answer
      BY <2>1 DEF Answer
    <2>4. \A a \in replies' : a \in replies
                              \/ a = [req |-> req[w], reply |-> reply[w]]
      BY <1>9 DEF Respond
    <2>5. UNCHANGED <<adjs, idem>>
      BY <1>9 DEF Respond, database
    <2> QED
      BY <1>2, <1>3, <1>4, <1>5, <2>2, <2>3, <2>4, <2>5 DEF Kept, Succeeded
  <1> QED
    BY <1>6, <1>7, <1>8, <1>9, KeepingSteps

(* A step of one instance leaves what the others hold as it is, and what   *)
(* they rely on true.                                                      *)
SameLocals(v) ==
    /\ pc'[v] = pc[v]
    /\ req'[v] = req[v]
    /\ todo'[v] = todo[v]
    /\ seen'[v] = seen[v]
    /\ reply'[v] = reply[v]

LEMMA OthersRest ==
    ASSUME TypeInv, NEW w \in Worker,
           (\E r \in Request : Submit(w, r)) \/ Handle(w) \/ Crash(w)
    PROVE  \A v \in Worker \ {w} : SameLocals(v)
  <1>1. CASE \E r \in Request : Submit(w, r)
    BY <1>1 DEF Submit, Goto, SameLocals, TypeInv, TypeOK
  <1>2. CASE GetSet(w) \/ Idempotent(w) \/ CreateSet(w) \/ PutBlob(w)
    BY <1>2 DEF GetSet, Idempotent, CreateSet, PutBlob, Goto, Raise, Build,
                SameLocals, TypeInv, TypeOK
  <1>3. CASE AssertOpen(w) \/ AddItems(w) \/ Seal(w) \/ WriteSidecar(w)
    BY <1>3 DEF AssertOpen, AddItems, Seal, WriteSidecar, Goto, Raise, Build,
                SameLocals, TypeInv, TypeOK
  <1>4. CASE ReadSet(w) \/ Lookup(w) \/ RunCore(w)
    BY <1>4 DEF ReadSet, Lookup, RunCore, Goto, Raise, Build,
                SameLocals, TypeInv, TypeOK
  <1>5. CASE SaveAdjudication(w) \/ Save(w) \/ Respond(w) \/ Crash(w)
    BY <1>5 DEF SaveAdjudication, Save, Respond, Crash, Rest, Goto,
                SameLocals, TypeInv, TypeOK
  <1> QED
    BY <1>1, <1>2, <1>3, <1>4, <1>5 DEF Handle

LEMMA RunningFrame ==
    ASSUME Inv, Grows, NEW v \in Worker, SameLocals(v)
    PROVE  RunningAt(v)'
  <1>1. CASE pc[v] = "idle"
    BY <1>1 DEF RunningAt, SameLocals
  <1>2. CASE pc[v] # "idle"
    <2>1. req[v] \in Request /\ req[v].set \in SetId
      BY <1>2, RunningHasRequest, RequestFields DEF Inv, TypeInv
    <2>2. ASSUME pc[v] \in {"sidecar", "save", "save_adjudication", "respond"},
                 reply[v].status \in Success
          PROVE  Justified([req |-> req[v], reply |-> reply[v]])'
      <3>1. [req |-> req[v], reply |-> reply[v]] \in Answer
        BY <2>1, <2>2 DEF Inv, TypeInv, TypeOK, Answer
      <3>2. \A a \in Answer : Justified(a) => Justified(a)'
        BY JustifiedStable
      <3> QED
        BY <2>2, <3>1, <3>2
           DEF Inv, Running, RunningAt, SameLocals, Justified, Abstract!Justified
    <2>3. RunningAt(v)
      BY DEF Inv, Running
    <2> QED
      BY <2>1, <2>2, <2>3 DEF RunningAt, SameLocals, Grows
  <1> QED
    BY <1>1, <1>2

LEMMA RunningStep == Inv /\ [Next]_vars => Running'
  <1> SUFFICES ASSUME Inv, [Next]_vars PROVE Running'
    OBVIOUS
  <1>1. Grows
    BY GrowsStep DEF Inv
  <1>2. CASE UNCHANGED vars
    BY <1>1, <1>2, RunningFrame DEF vars, SameLocals, Running
  <1>3. ASSUME NEW w \in Worker,
               (\E r \in Request : Submit(w, r)) \/ Handle(w) \/ Crash(w),
               RunningAt(w)'
        PROVE  Running'
    BY <1>1, <1>3, OthersRest, RunningFrame DEF Running, Inv
  <1> USE DEF Inv, TypeInv
  <1>4. ASSUME NEW w \in Worker, NEW r \in Request, Submit(w, r)
        PROVE  RunningAt(w)'
    BY <1>4 DEF Submit, FirstCall, Goto, TypeOK, RunningAt
  <1>5. ASSUME NEW w \in Worker, GetSet(w)
        PROVE  RunningAt(w)'
    BY <1>5 DEF GetSet, Raise, Build, Plain, Success, Goto, TypeOK, Running,
                RunningAt
  <1>6. ASSUME NEW w \in Worker, Idempotent(w)
        PROVE  RunningAt(w)'
    <2>1. /\ req[w] \in Request
          /\ req[w].op \in Op
          /\ Key(req[w]) \in Keys
          /\ todo[w] = Contents(req[w].batch)
      BY <1>6, RunningHasRequest, RequestFields DEF Idempotent, SameContent, Running, RunningAt
    <2>2. CASE idem[Key(req[w])] = None
      BY <1>6, <2>1, <2>2 DEF Idempotent, SameContent, FirstWork, Op, Goto, TypeOK, RunningAt
    <2>3. CASE idem[Key(req[w])] # None /\ idem[Key(req[w])].norm = req[w]
      <3> DEFINE row == idem[Key(req[w])]
      <3>1. row.reply.status \in Success
               => Justified([req |-> req[w], reply |-> row.reply])
        BY <2>1, <2>3 DEF Kept
      <3>2. /\ pc' = [pc EXCEPT ![w] = "respond"]
            /\ reply' = [reply EXCEPT ![w] = row.reply]
            /\ UNCHANGED <<phase, manifest, rows, req>>
        BY <1>6, <2>3 DEF Idempotent, SameContent, Build, Goto, database
      <3>3. pc'[w] = "respond" /\ reply'[w] = row.reply /\ req'[w] = req[w]
        BY <3>2 DEF TypeOK
      <3>4. reply'[w].status \in Success
               => Justified([req |-> req[w], reply |-> reply[w]])'
        BY <3>1, <3>2, <3>3 DEF Justified, Abstract!Justified
      <3> QED
        BY <3>3, <3>4 DEF RunningAt
    <2>4. CASE idem[Key(req[w])] # None /\ idem[Key(req[w])].norm # req[w]
      BY <1>6, <2>4 DEF Idempotent, SameContent, Raise, Build, Plain, Success, Goto, TypeOK,
                        RunningAt
    <2> QED
      BY <2>2, <2>3, <2>4
  <1>7. ASSUME NEW w \in Worker, CreateSet(w)
        PROVE  RunningAt(w)'
    <2>1. /\ req[w].op = "create"
          /\ req[w].set \in SetId
      BY <1>7, RunningHasRequest, RequestFields DEF CreateSet, OpFits
    <2> QED
      BY <1>7, <2>1 DEF CreateSet, Build, Goto, TypeOK, RunningAt,
                        Justified, Abstract!Justified
  <1>8. ASSUME NEW w \in Worker, PutBlob(w)
        PROVE  RunningAt(w)'
    <2>1. PICK c \in todo[w] :
             /\ blobs' = blobs \cup {c}
             /\ todo' = [todo EXCEPT ![w] = @ \ {c}]
             /\ pc' = [pc EXCEPT ![w] = IF todo[w] = {c} THEN "assert_open"
                                                        ELSE "put_blob"]
      BY <1>8 DEF PutBlob, Goto
    <2>2. Contents(req[w].batch) \subseteq blobs \cup todo[w]
      BY <1>8 DEF PutBlob, Running, RunningAt
    <2>3. Contents(req[w].batch) \subseteq blobs' \cup todo'[w]
      BY <2>1, <2>2 DEF TypeOK
    <2>4. pc'[w] = "assert_open" => Contents(req[w].batch) \subseteq blobs'
      BY <2>1, <2>2 DEF TypeOK
    <2>5. pc'[w] \in {"put_blob", "assert_open"} /\ req' = req
      BY <1>8, <2>1 DEF PutBlob, TypeOK
    <2> QED
      BY <2>3, <2>4, <2>5 DEF RunningAt, Contents
  <1>9. ASSUME NEW w \in Worker, AssertOpen(w)
        PROVE  RunningAt(w)'
    BY <1>9 DEF AssertOpen, Raise, Build, Plain, Success, Goto, TypeOK,
                Running, RunningAt
  <1>10. ASSUME NEW w \in Worker, AddItems(w)
         PROVE  RunningAt(w)'
    <2>1. /\ req[w].op = "items"
          /\ req[w].set \in SetId
      BY <1>10, RunningHasRequest, RequestFields DEF AddItems, OpFits
    <2> QED
      BY <1>10, <2>1 DEF AddItems, Raise, Build, Plain, Success, Goto, TypeOK,
                         RunningAt, Justified, Abstract!Justified
  <1>11. ASSUME NEW w \in Worker, Seal(w)
         PROVE  RunningAt(w)'
    <2>1. /\ req[w].op = "seal"
          /\ req[w].set \in SetId
      BY <1>11, RunningHasRequest, RequestFields DEF Seal, OpFits
    <2>2. \A R, B : SealStatus(R, B) \in Success => SealStatus(R, B) = 200
      BY DEF SealStatus, Success
    <2>3. CASE AlreadySealed(req[w].set)
      BY <1>11, <2>1, <2>3 DEF Seal, AlreadySealed, SealReply, Build, Goto,
         TypeOK, RunningAt, Justified, Abstract!Justified
    <2>4. CASE /\ ~ AlreadySealed(req[w].set)
               /\ phase' = [phase EXCEPT ![req[w].set] = "sealed"]
               /\ manifest' = [manifest EXCEPT ![req[w].set] =
                                  ManifestOf(rows[req[w].set])]
               /\ Build(w, SealReply(ManifestOf(rows[req[w].set])), "sidecar")
      <3>1. /\ phase'[req[w].set] = "sealed"
            /\ manifest'[req[w].set] = ManifestOf(rows[req[w].set])
            /\ req' = req
            /\ pc'[w] = "sidecar"
            /\ reply'[w] = SealReply(ManifestOf(rows[req[w].set]))
        BY <1>11, <2>1, <2>4 DEF Seal, Build, Goto, TypeOK
      <3>2. reply'[w].manifest = manifest'[req'[w].set]
        BY <3>1 DEF SealReply
      <3> QED
        BY <2>1, <3>1, <3>2 DEF RunningAt, Justified, Abstract!Justified
    <2>5. ASSUME NEW status, status \notin Success, Raise(w, status)
          PROVE  RunningAt(w)'
      BY <1>11, <2>5 DEF Raise, Build, Plain, Goto, TypeOK, RunningAt
    <2> QED
      BY <1>11, <2>2, <2>3, <2>4, <2>5 DEF Seal, Success
  <1>12. ASSUME NEW w \in Worker, WriteSidecar(w)
         PROVE  RunningAt(w)'
    <2>1. CASE Raise(w, 500)
      BY <1>12, <2>1 DEF WriteSidecar, database, Raise, Build, Plain, Success,
                         Goto, TypeOK, RunningAt
    <2>2. CASE Goto(w, "save") /\ UNCHANGED reply
      BY <1>12, <2>2 DEF WriteSidecar, database, Goto, TypeOK, Running,
                         RunningAt, Justified, Abstract!Justified
    <2> QED
      BY <1>12, <2>1, <2>2 DEF WriteSidecar
  <1>13. ASSUME NEW w \in Worker, ReadSet(w)
         PROVE  RunningAt(w)'
    BY <1>13 DEF ReadSet, database, Raise, Build, Plain, Success, Goto, TypeOK,
                 RunningAt
  <1>14. ASSUME NEW w \in Worker, Lookup(w)
         PROVE  RunningAt(w)'
    <2>1. /\ req[w].op = "adjudicate"
          /\ req[w].set \in SetId
          /\ req[w].query \in Query
      BY <1>14, RunningHasRequest, RequestFields DEF Lookup, OpFits
    <2> QED
      BY <1>14, <2>1 DEF Lookup, RowOf, database, ResultReply, Build, Goto,
         TypeOK, Kept, Running, RunningAt, Justified, Abstract!Justified
  <1>15. ASSUME NEW w \in Worker, RunCore(w)
         PROVE  RunningAt(w)'
    <2>1. /\ req[w].op = "adjudicate"
          /\ req[w].set \in SetId
      BY <1>15, RunningHasRequest, RequestFields DEF RunCore, OpFits
    <2>2. \A m, q, indexed, B : CoreStatus(m, q, indexed, B) \in Success =>
                                 CoreStatus(m, q, indexed, B) = 201
      BY DEF CoreStatus, Success
    <2> QED
      BY <1>15, <2>1, <2>2 DEF RunCore, database, ResultReply, ResultOf, Raise,
         Build, Plain, Goto, TypeOK, Running, RunningAt, Justified,
         Abstract!Justified
  <1>16. ASSUME NEW w \in Worker, SaveAdjudication(w)
         PROVE  RunningAt(w)'
    BY <1>16 DEF SaveAdjudication, Goto, TypeOK, Running, RunningAt,
                 Justified, Abstract!Justified
  <1>17. ASSUME NEW w \in Worker, Save(w)
         PROVE  RunningAt(w)'
    BY <1>17 DEF Save, Goto, TypeOK, Running, RunningAt,
                 Justified, Abstract!Justified
  <1>18. ASSUME NEW w \in Worker, Respond(w) \/ Crash(w)
         PROVE  RunningAt(w)'
    BY <1>18 DEF Respond, Crash, Rest, Goto, TypeOK, RunningAt
  <1> QED
    BY <1>2, <1>3, <1>4, <1>5, <1>6, <1>7, <1>8, <1>9, <1>10, <1>11, <1>12,
       <1>13, <1>14, <1>15, <1>16, <1>17, <1>18 DEF Next, Handle

------------------------------------------------------------------------------
(* What follows *)

LEMMA InvInit == Init => Inv
  <1> SUFFICES ASSUME Init PROVE Inv
    OBVIOUS
  <1>1. TypeInv
    BY TypeInit
  <1>2. Stored
    BY DEF Init, Stored, Compatible, Contents
  <1>3. Running
    BY DEF Init, Running, RunningAt
  <1>4. Kept
    BY DEF Init, Kept
  <1> QED
    BY <1>1, <1>2, <1>3, <1>4 DEF Inv

THEOREM Invariance == Spec => []Inv
  <1>1. Inv /\ [Next]_vars => Inv'
    BY TypeStep, StoredStep, RunningStep, KeptStep DEF Inv
  <1> QED
    BY InvInit, <1>1, PTL DEF Spec

(* A row is never committed before the blobs it names.                     *)
THEOREM BlobsBeforeRows == Spec => []BlobsOfRows
  <1>1. Inv => BlobsOfRows
    BY DEF Inv, Stored, BlobsOfRows
  <1> QED
    BY Invariance, <1>1, PTL

(* Acknowledged uploads agree on the refs they share, whatever the         *)
(* interleaving of the instances that handled them.                        *)
THEOREM RefsAreStable == Spec => []RefMeansOneContent
  <1>1. Inv => RefMeansOneContent
    <2> SUFFICES ASSUME Inv,
                        NEW a \in replies, a.req.op = "items", Succeeded(a),
                        NEW b \in replies, b.req.op = "items", Succeeded(b),
                        a.req.set = b.req.set,
                        NEW row \in a.req.batch, NEW other \in b.req.batch,
                        row.ref = other.ref
                 PROVE  row = other
      BY DEF RefMeansOneContent
    <2>1. a.req.set \in SetId
      BY RequestFields DEF Inv, TypeInv, TypeOK, Answer
    <2>2. /\ a.req.batch \subseteq rows[a.req.set]
          /\ b.req.batch \subseteq rows[a.req.set]
      BY DEF Inv, Kept, Justified, Abstract!Justified
    <2>3. Compatible(rows[a.req.set], rows[a.req.set])
      BY <2>1 DEF Inv, Stored
    <2> QED
      BY <2>2, <2>3 DEF Compatible
  <1> QED
    BY Invariance, <1>1, PTL

(* A set of points in time has an earliest one.                            *)
LEMMA EarliestExists ==
    ASSUME NEW T, T \subseteq Nat, T # {}
    PROVE  \E t \in T : \A u \in T : t <= u
  <1> DEFINE less == OpToRel(<, Nat)
  <1>1. \A t, u \in Nat : u < t => <<u, t>> \in less
    BY DEF OpToRel
  <1>2. IsWellFoundedOn(less, Nat)
    BY NatLessThanWellFounded
  <1> HIDE DEF less
  <1>3. PICK t \in T : \A u \in T : ~ (<<u, t>> \in less)
    BY <1>2, WFMin
  <1>4. ASSUME NEW u \in T PROVE t <= u
    <2>1. t \in Nat /\ u \in Nat
      OBVIOUS
    <2>2. ~ (u < t)
      BY <1>1, <1>3, <2>1
    <2> QED
      BY <2>1, <2>2
  <1> QED
    BY <1>4

(* The manifest collects every row, with a time of possession that is no   *)
(* later: the deduplication of seal drops no evidence.                     *)
LEMMA ManifestCollects ==
    ASSUME NEW R \in SUBSET Row, NEW row \in R
    PROVE  Collected(ManifestOf(R), row)
  <1> DEFINE same == {r \in R : r.kind = row.kind /\ r.content = row.content}
  <1>1. row \in Row /\ row.kind \in Kind
    BY DEF Row
  <1>2. CASE row.kind = "certificate"
    BY <1>2 DEF Collected, ManifestOf
  <1>3. CASE row.kind \in {"crl", "ocsp"}
    <2>1. PICK first \in same : \A r \in same : first.at <= r.at
      <3> DEFINE times == {r.at : r \in same}
      <3>1. times \subseteq Nat /\ times # {}
        BY DEF Row, Time
      <3>2. PICK t \in times : \A u \in times : t <= u
        BY <3>1, EarliestExists
      <3> QED
        BY <3>2
    <2>2. [content |-> first.content, at |-> first.at] \in Earliest(R, row.kind)
      BY <2>1 DEF Earliest
    <2>3. first.content = row.content /\ first.at <= row.at
      BY <2>1
    <2> QED
      BY <1>3, <2>2, <2>3 DEF Collected, ManifestOf
  <1> QED
    BY <1>1, <1>2, <1>3 DEF Kind

(* No acknowledged upload is missing from the manifest of its sealed set.  *)
THEOREM UploadsAreKept == Spec => []NoUploadLost
  <1>1. Inv => NoUploadLost
    <2> SUFFICES ASSUME Inv, NEW a \in replies, a.req.op = "items",
                        Succeeded(a), phase[a.req.set] = "sealed",
                        NEW row \in a.req.batch
                 PROVE  Collected(manifest[a.req.set], row)
      BY DEF NoUploadLost
    <2>1. a.req.set \in SetId
      BY RequestFields DEF Inv, TypeInv, TypeOK, Answer
    <2>2. row \in rows[a.req.set]
      BY DEF Inv, Kept, Justified, Abstract!Justified
    <2>3. manifest[a.req.set] = ManifestOf(rows[a.req.set])
      BY <2>1 DEF Inv, Stored
    <2>4. rows[a.req.set] \in SUBSET Row
      BY <2>1 DEF Inv, TypeInv, TypeOK
    <2> QED
      BY <2>2, <2>3, <2>4, ManifestCollects
  <1> QED
    BY Invariance, <1>1, PTL

(* A sealed set never changes.                                             *)
THEOREM SealedIsImmutable == Spec => SealedForGood
  <1>1. Inv /\ [Next]_vars =>
          [\A s \in SetId : phase[s] = "sealed" =>
              /\ phase'[s] = "sealed"
              /\ rows'[s] = rows[s]
              /\ manifest'[s] = manifest[s]]_vars
    BY GrowsStep DEF Inv, Grows
  <1> QED
    BY Invariance, <1>1, PTL DEF Spec, SealedForGood

------------------------------------------------------------------------------
(* The refinement *)

(* EvidenceSets speaks of the same batches, manifests and answers.         *)
LEMMA SameVocabulary ==
    /\ Abstract!Answer = Answer
    /\ \A R : Abstract!ManifestOf(R) = ManifestOf(R)
    /\ \A R, B : Abstract!Compatible(R, B) <=> Compatible(R, B)
    /\ \A a : Abstract!Succeeded(a) <=> Succeeded(a)
  <1>1. Abstract!Answer = Answer
    BY DEF Answer, Reply, Status, Success, Manifest, Result, ProblemList, Kind,
           Evidenced, Time, Abstract!Answer, Abstract!Reply,
           Abstract!Status, Abstract!Success, Abstract!Manifest,
           Abstract!Result, Abstract!ProblemList, Abstract!Kind,
           Abstract!Evidenced, Abstract!Time
  <1>2. \A R : Abstract!ManifestOf(R) = ManifestOf(R)
    BY DEF ManifestOf, Earliest, Abstract!ManifestOf, Abstract!Earliest
  <1>3. \A R, B : Abstract!Compatible(R, B) <=> Compatible(R, B)
    BY DEF Compatible, Abstract!Compatible
  <1>4. \A a : Abstract!Succeeded(a) <=> Succeeded(a)
    BY DEF Succeeded, Success, Abstract!Succeeded, Abstract!Success
  <1> QED
    BY <1>1, <1>2, <1>3, <1>4

LEMMA AbstractStep ==
    Inv /\ Inv' /\ [Next]_vars => [Abstract!Next]_(Abstract!vars)
  <1> SUFFICES ASSUME Inv, Inv', [Next]_vars
               PROVE  Abstract!Next \/ UNCHANGED Abstract!vars
    BY DEF Abstract!vars
  <1> USE DEF Abstract!vars
  <1>1. ASSUME NEW w \in Worker, CreateSet(w)
        PROVE  Abstract!Next \/ UNCHANGED Abstract!vars
    <2>1. req[w].set \in SetId
      BY <1>1, RunningHasRequest, RequestFields DEF CreateSet, Inv, TypeInv
    <2>2. CASE phase[req[w].set] = "absent"
      BY <1>1, <2>1, <2>2 DEF CreateSet, history, Inv, TypeInv, TypeOK,
                              Abstract!Next, Abstract!Create
    <2>3. CASE phase[req[w].set] # "absent"
      BY <1>1, <2>1, <2>3 DEF CreateSet, history, Inv, TypeInv, TypeOK
    <2> QED
      BY <2>2, <2>3
  <1>2. ASSUME NEW w \in Worker, AddItems(w)
        PROVE  Abstract!Next \/ UNCHANGED Abstract!vars
    <2>1. req[w] \in Request
      BY <1>2, RunningHasRequest DEF AddItems, Inv, TypeInv
    <2>2. CASE StillOpen(req[w]) /\ Compatible(rows[req[w].set], req[w].batch)
      <3>1. Abstract!Upload(req[w].set, req[w].batch)
        BY <1>2, <2>2, SameVocabulary
           DEF AddItems, StillOpen, history, Abstract!Upload
      <3> QED
        BY <2>1, <3>1 DEF Abstract!Next
    <2>3. CASE ~ (StillOpen(req[w]) /\ Compatible(rows[req[w].set], req[w].batch))
      BY <1>2, <2>3 DEF AddItems, history
    <2> QED
      BY <2>2, <2>3
  <1>3. ASSUME NEW w \in Worker, Seal(w)
        PROVE  Abstract!Next \/ UNCHANGED Abstract!vars
    <2>1. req[w].set \in SetId
      BY <1>3, RunningHasRequest, RequestFields DEF Seal, Inv, TypeInv
    <2>2. CASE UNCHANGED <<phase, manifest>>
      BY <1>3, <2>2 DEF Seal, history
    <2>3. CASE ~ UNCHANGED <<phase, manifest>>
      <3>1. phase[req[w].set] = "open"
        BY <1>3, <2>1, <2>3 DEF Seal, AlreadySealed, Inv, TypeInv, TypeOK
      <3>2. Abstract!Seal(req[w].set)
        BY <1>3, <2>3, <3>1, SameVocabulary DEF Seal, history, Abstract!Seal
      <3> QED
        BY <2>1, <3>2 DEF Abstract!Next
    <2> QED
      BY <2>2, <2>3
  <1>4. ASSUME NEW w \in Worker, Respond(w)
        PROVE  Abstract!Next \/ UNCHANGED Abstract!vars
    <2> DEFINE a == [req |-> req[w], reply |-> reply[w]]
    <2>1. a \in Answer
      BY <1>4, RunningHasRequest DEF Respond, Inv, TypeInv, TypeOK, Answer
    <2>2. Succeeded(a) => Abstract!Justified(a)
      BY <1>4 DEF Respond, Inv, Running, RunningAt, Succeeded, Justified
    <2>3. UNCHANGED <<phase, rows, manifest>>
      BY <1>4 DEF Respond, database
    <2>4. CASE replies' = replies
      BY <2>3, <2>4
    <2>5. CASE replies' = replies \cup {a}
      <3>1. a \in replies'
        BY <2>5
      <3>2. Abstract!Respond
        BY <2>1, <2>2, <2>3, <2>5, <3>1, SameVocabulary DEF Abstract!Respond
      <3> QED
        BY <3>2 DEF Abstract!Next
    <2> QED
      BY <1>4, <2>4, <2>5 DEF Respond
  <1>5. CASE UNCHANGED <<phase, rows, manifest, replies>>
    BY <1>5
  <1>6. ASSUME NEW w \in Worker, PutBlob(w) \/ SaveAdjudication(w) \/ Save(w)
        PROVE  UNCHANGED <<phase, rows, manifest, replies>>
    BY <1>6 DEF PutBlob, SaveAdjudication, Save, database, history
  <1> QED
    BY <1>1, <1>2, <1>3, <1>4, <1>5, <1>6, TableSteps, KeepingSteps

(* The store implements the life cycle EvidenceSets promises.              *)
THEOREM Refinement == Spec => ImplementsEvidenceSets
  <1>1. Init => Abstract!Init
    BY DEF Init, Abstract!Init
  <1> QED
    BY Invariance, <1>1, AbstractStep, PTL
       DEF Spec, ImplementsEvidenceSets, Abstract!Spec
==============================================================================
