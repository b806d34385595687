---------------------------- MODULE EvidenceStore ----------------------------
(***************************************************************************)
(* The evidence store as two (or more) API instances run it on one shared  *)
(* volume: app/storage.py (SQLite tables and blob files) driven by the     *)
(* mutating handlers of app/api.py and by adjudicate in app/adjudge.py.    *)
(*                                                                         *)
(* A worker is one API instance.  A handler holds no lock of its own: it   *)
(* calls the store several times, each call is one SQL transaction or one  *)
(* file operation, and between two calls the other instance may do         *)
(* anything.  So one action is one store call, with the reading of its     *)
(* result by the handler up to the next call; pc[w] names the call the     *)
(* handler of w makes next.  An instance may die between two calls; what   *)
(* it committed stays, what it held in memory is gone.                     *)
(***************************************************************************)
EXTENDS Evidence

CONSTANTS
    Worker,         \* the API instances sharing the volume
    MaxCrashes      \* bound: how often an instance may die in a behaviour

ASSUME CrashBound == MaxCrashes \in Nat

VARIABLES
    phase,      \* table sets, state: absent (no row), open or sealed
    manifest,   \* table sets, manifest_json
    rows,       \* table items, by set
    idem,       \* table idempotency: key -> [norm, reply] or None
    adjs,       \* table adjudications: query -> [set, result] or None
    blobs,      \* the files under blobs/
    sidecar,    \* SetId -> whether packages/<set>.nameindex.json exists
    pc,         \* Worker -> the store call its handler makes next
    req,        \* Worker -> the request being handled, or None
    todo,       \* Worker -> contents of the batch not yet written as blobs
    seen,       \* Worker -> the manifest its handler read, or None
    reply,      \* Worker -> the response its handler has built, or None
    replies,    \* the answers clients have received
    crashes     \* how often an instance has died

database == <<phase, manifest, rows, idem, adjs>>
locals == <<pc, req, todo, seen, reply>>
history == <<replies, crashes>>
vars == <<phase, manifest, rows, idem, adjs, blobs, sidecar,
          pc, req, todo, seen, reply, replies, crashes>>

Step == {"idle", "get_set", "idempotent", "create_set", "put_blob",
         "assert_open", "add_items", "seal", "sidecar", "read_set", "lookup",
         "run_core", "save_adjudication", "save", "respond"}

(* The primary key (scope, request_id) of the table idempotency.           *)
Key(r) == <<r.op, IF r.op = "create" THEN None ELSE r.set, r.rid>>
Keys == {Key(r) : r \in Request}

Init ==
    /\ phase = [s \in SetId |-> "absent"]
    /\ manifest = [s \in SetId |-> None]
    /\ rows = [s \in SetId |-> {}]
    /\ idem = [k \in Keys |-> None]
    /\ adjs = [q \in Query |-> None]
    /\ blobs = {}
    /\ sidecar = [s \in SetId |-> FALSE]
    /\ pc = [w \in Worker |-> "idle"]
    /\ req = [w \in Worker |-> None]
    /\ todo = [w \in Worker |-> {}]
    /\ seen = [w \in Worker |-> None]
    /\ reply = [w \in Worker |-> None]
    /\ replies = {}
    /\ crashes = 0

------------------------------------------------------------------------------
(* Moving a handler from one store call to the next *)

Goto(w, step) == pc' = [pc EXCEPT ![w] = step]

(* The handler has its response; step is the call that is left to make.    *)
Build(w, response, step) ==
    /\ reply' = [reply EXCEPT ![w] = response]
    /\ Goto(w, step)

(* Mutant: a refusal is recorded under the request id like a success.      *)
RaiseAndSave(w, status) == Build(w, Plain(status), "save")

(* An exception ends the handler: the error is answered and not recorded.  *)
Raise(w, status) == Build(w, Plain(status), "respond")

FirstCall(r) == IF r.op \in {"items", "seal"} THEN "get_set" ELSE "idempotent"

(* Mutant: an upload goes to its rows at once and leaves the blobs out.    *)
FirstWorkRowsFirst(r) ==
    CASE r.op = "create"     -> "create_set"
      [] r.op = "items"      -> "assert_open"
      [] r.op = "seal"       -> "seal"
      [] r.op = "adjudicate" -> "read_set"

FirstWork(r) ==
    CASE r.op = "create"     -> "create_set"
      [] r.op = "items"      -> "put_blob"
      [] r.op = "seal"       -> "seal"
      [] r.op = "adjudicate" -> "read_set"

(* A client sends a request, for the first time or again, to an instance   *)
(* that is handling none.                                                  *)
Submit(w, r) ==
    /\ pc[w] = "idle"
    /\ req' = [req EXCEPT ![w] = r]
    /\ todo' = [todo EXCEPT ![w] = Contents(r.batch)]
    /\ Goto(w, FirstCall(r))
    /\ UNCHANGED <<database, blobs, sidecar, seen, reply, history>>

(* store.get_set at the head of the items and seal handlers: 404 if the    *)
(* set does not exist.                                                     *)
GetSet(w) ==
    /\ pc[w] = "get_set"
    /\ IF phase[req[w].set] = "absent"
         THEN Raise(w, 404)
         ELSE Goto(w, "idempotent") /\ UNCHANGED reply
    /\ UNCHANGED <<database, blobs, sidecar, req, todo, seen, history>>

(* The saved normalized digest is the one of this request.                 *)
SameContent(saved, r) == saved.norm = r

(* store.idempotent: the row of the key is replayed if it was saved for    *)
(* the same normalized content and is a conflict if it was not.            *)
Idempotent(w) ==
    /\ pc[w] = "idempotent"
    /\ LET row == idem[Key(req[w])] IN
         \/ /\ row = None
            /\ Goto(w, FirstWork(req[w]))
            /\ UNCHANGED reply
         \/ /\ row # None
            /\ SameContent(row, req[w])
            /\ Build(w, row.reply, "respond")
         \/ /\ row # None
            /\ ~ SameContent(row, req[w])
            /\ Raise(w, 409)
    /\ UNCHANGED <<database, blobs, sidecar, req, todo, seen, history>>

(* store.create_set: INSERT OR IGNORE, so a set that exists stays as it    *)
(* is and is answered like a new one.                                      *)
CreateSet(w) ==
    /\ pc[w] = "create_set"
    /\ phase' = [phase EXCEPT ![req[w].set] = IF @ = "absent" THEN "open" ELSE @]
    /\ Build(w, Plain(201), "save")
    /\ UNCHANGED <<manifest, rows, idem, adjs, blobs, sidecar,
                   req, todo, seen, history>>

(* store.put_blob for one item: nothing if the file exists, else a         *)
(* temporary file renamed into place.                                      *)
PutBlob(w) ==
    /\ pc[w] = "put_blob"
    /\ \E c \in todo[w] :
         /\ blobs' = blobs \cup {c}
         /\ todo' = [todo EXCEPT ![w] = @ \ {c}]
         /\ Goto(w, IF todo[w] = {c} THEN "assert_open" ELSE "put_blob")
    /\ UNCHANGED <<database, sidecar, req, seen, reply, history>>

(* store.assert_open: the unlocked look at the state before the upload.    *)
AssertOpen(w) ==
    /\ pc[w] = "assert_open"
    /\ IF phase[req[w].set] # "open"
         THEN Raise(w, IF phase[req[w].set] = "absent" THEN 404 ELSE 409)
         ELSE Goto(w, "add_items") /\ UNCHANGED reply
    /\ UNCHANGED <<database, blobs, sidecar, req, todo, seen, history>>

(* Mutant: add_items relies on the assert_open before it.                  *)
StillOpenAssumed(r) == TRUE

(* The state as store.add_items reads it inside its transaction.           *)
StillOpen(r) == phase[r.set] = "open"

(* store.add_items: the whole batch is inserted in one transaction, or     *)
(* the transaction is rolled back.                                         *)
AddItems(w) ==
    /\ pc[w] = "add_items"
    /\ LET r == req[w] IN
         IF StillOpen(r) /\ Compatible(rows[r.set], r.batch)
           THEN /\ rows' = [rows EXCEPT ![r.set] = @ \cup r.batch]
                /\ Build(w, Plain(200), "save")
           ELSE /\ Raise(w, IF phase[r.set] = "absent" THEN 404 ELSE 409)
                /\ UNCHANGED rows
    /\ UNCHANGED <<phase, manifest, idem, adjs, blobs, sidecar,
                   req, todo, seen, history>>

(* store.seal, up to its commit: a sealed set answers the manifest it has; *)
(* an open one is collected, checked against the limits and sealed in the  *)
(* same transaction.                                                       *)
AlreadySealed(s) == phase[s] = "sealed"

Seal(w) ==
    /\ pc[w] = "seal"
    /\ LET s == req[w].set
           m == ManifestOf(rows[s])
           status == IF phase[s] = "absent" THEN 404
                                            ELSE SealStatus(rows[s], blobs)
       IN
         \/ /\ AlreadySealed(s)
            /\ Build(w, SealReply(manifest[s]), "save")
            /\ UNCHANGED <<phase, manifest>>
         \/ /\ ~ AlreadySealed(s)
            /\ status = 200
            /\ phase' = [phase EXCEPT ![s] = "sealed"]
            /\ manifest' = [manifest EXCEPT ![s] = m]
            /\ Build(w, SealReply(m), "sidecar")
         \/ /\ ~ AlreadySealed(s)
            /\ status # 200
            /\ Raise(w, status)
            /\ UNCHANGED <<phase, manifest>>
    /\ UNCHANGED <<rows, idem, adjs, blobs, sidecar, req, todo, seen, history>>

(* The end of store.seal, after the commit: the name index is renamed into *)
(* place.  Only the instance that sealed the set writes it, once.  If the  *)
(* write fails, the seal raises although it is committed, and the set has  *)
(* no name index for good.                                                 *)
WriteSidecar(w) ==
    /\ pc[w] = "sidecar"
    /\ \/ /\ sidecar' = [sidecar EXCEPT ![req[w].set] = TRUE]
          /\ Goto(w, "save")
          /\ UNCHANGED reply
       \/ /\ Raise(w, 500)
          /\ UNCHANGED sidecar
    /\ UNCHANGED <<database, blobs, req, todo, seen, history>>

(* adjudicate: get_set, then only a sealed set goes on, with its manifest. *)
ReadSet(w) ==
    /\ pc[w] = "read_set"
    /\ LET s == req[w].set IN
         \/ /\ phase[s] = "absent"
            /\ Raise(w, 404)
            /\ UNCHANGED seen
         \/ /\ phase[s] = "open"
            /\ Raise(w, 409)
            /\ UNCHANGED seen
         \/ /\ phase[s] = "sealed"
            /\ seen' = [seen EXCEPT ![w] = manifest[s]]
            /\ Goto(w, "lookup")
            /\ UNCHANGED reply
    /\ UNCHANGED <<database, blobs, sidecar, req, todo, history>>

(* store.get_adjudication_by_request: the row of this set and query.       *)
RowOf(s, q) == adjs[q] # None /\ adjs[q].set = s

Lookup(w) ==
    /\ pc[w] = "lookup"
    /\ IF RowOf(req[w].set, req[w].query)
         THEN Build(w, ResultReply(adjs[req[w].query].result), "save")
         ELSE Goto(w, "run_core") /\ UNCHANGED reply
    /\ UNCHANGED <<database, blobs, sidecar, req, todo, seen, history>>

(* run_core reads blobs and, if the file exists, the name index; without   *)
(* the file it parses every certificate of the set instead.                *)
Indexed(s) == sidecar[s]

RunCore(w) ==
    /\ pc[w] = "run_core"
    /\ LET r == req[w]
           indexed == Indexed(r.set)
           status == CoreStatus(seen[w], r.query, indexed, blobs)
       IN \/ /\ status = 201
             /\ \E first \in Listings(RefusedAnchors(r.query)) :
                   Build(w, ResultReply(ResultOf(r.set, seen[w], r.query,
                                                 indexed, first)),
                         "save_adjudication")
          \/ status # 201 /\ Raise(w, status)
    /\ UNCHANGED <<database, blobs, sidecar, req, todo, seen, history>>

(* store.save_adjudication: INSERT OR IGNORE under the primary key id,     *)
(* which is the digest of the query alone.                                 *)
RowTaken(s, q) == adjs[q] # None

(* Mutant: the insert is never committed.                                  *)
SaveAdjudicationUncommitted(w) ==
    /\ pc[w] = "save_adjudication"
    /\ Goto(w, "save")
    /\ UNCHANGED <<database, blobs, sidecar, req, todo, seen, reply, history>>

SaveAdjudication(w) ==
    /\ pc[w] = "save_adjudication"
    /\ LET r == req[w] IN
         adjs' = IF RowTaken(r.set, r.query)
                   THEN adjs
                   ELSE [adjs EXCEPT ![r.query] =
                            [set |-> r.set, result |-> reply[w].result]]
    /\ Goto(w, "save")
    /\ UNCHANGED <<phase, manifest, rows, idem, blobs, sidecar,
                   req, todo, seen, reply, history>>

(* The save function of store.idempotent: INSERT OR IGNORE, the first row  *)
(* of a key stays.                                                         *)
Save(w) ==
    /\ pc[w] = "save"
    /\ LET k == Key(req[w]) IN
         idem' = [idem EXCEPT ![k] =
                    IF @ = None THEN [norm |-> req[w], reply |-> reply[w]]
                                ELSE @]
    /\ Goto(w, "respond")
    /\ UNCHANGED <<phase, manifest, rows, adjs, blobs, sidecar,
                   req, todo, seen, reply, history>>

(* Mutant: an instance that answered still holds the request.              *)
RestKeepsRequest(w) ==
    /\ Goto(w, "idle")
    /\ UNCHANGED req
    /\ todo' = [todo EXCEPT ![w] = {}]
    /\ seen' = [seen EXCEPT ![w] = None]
    /\ reply' = [reply EXCEPT ![w] = None]

Rest(w) ==
    /\ Goto(w, "idle")
    /\ req' = [req EXCEPT ![w] = None]
    /\ todo' = [todo EXCEPT ![w] = {}]
    /\ seen' = [seen EXCEPT ![w] = None]
    /\ reply' = [reply EXCEPT ![w] = None]

(* The answers the properties look at: successes and conflicts.            *)
Noted(status) == status \in Success \cup {409}

(* The response reaches the client.  (A response that is lost is a client  *)
(* that sends the request again.)                                          *)
Respond(w) ==
    /\ pc[w] = "respond"
    /\ replies' = IF Noted(reply[w].status)
                    THEN replies \cup {[req |-> req[w], reply |-> reply[w]]}
                    ELSE replies
    /\ Rest(w)
    /\ UNCHANGED <<database, blobs, sidecar, crashes>>

(* The instance dies between two store calls and is restarted.             *)
Crash(w) ==
    /\ pc[w] # "idle"
    /\ crashes < MaxCrashes
    /\ crashes' = crashes + 1
    /\ Rest(w)
    /\ UNCHANGED <<database, blobs, sidecar, replies>>

(* The next store call of a running handler. *)
Handle(w) ==
    \/ GetSet(w) \/ Idempotent(w) \/ CreateSet(w) \/ PutBlob(w)
    \/ AssertOpen(w) \/ AddItems(w) \/ Seal(w) \/ WriteSidecar(w)
    \/ ReadSet(w) \/ Lookup(w) \/ RunCore(w) \/ SaveAdjudication(w)
    \/ Save(w) \/ Respond(w)

Next ==
    \E w \in Worker :
        \/ \E r \in Request : Submit(w, r)
        \/ Handle(w)
        \/ Crash(w)

Spec == Init /\ [][Next]_vars

------------------------------------------------------------------------------
(* Reading an adjudication back *)

(* GET .../sets/s/adjudications/q, and the same test before the package is *)
(* built: the row must exist and belong to the set of the URL.             *)
GetAdjudication(s, q) ==
    IF adjs[q] # None /\ adjs[q].set = s
      THEN ResultReply(adjs[q].result)
      ELSE Plain(404)

------------------------------------------------------------------------------
(* Properties *)

(* The variables have their types, and the locals of a handler fit the     *)
(* call it is about to make: an idle instance holds nothing, a handler     *)
(* about to save or adjudicate holds the response or the manifest it needs *)
(* (save and save_adjudication dereference them without a test).           *)
TypeOK ==
    /\ phase \in [SetId -> {"absent", "open", "sealed"}]
    /\ manifest \in [SetId -> Manifest \cup {None}]
    /\ rows \in [SetId -> SUBSET Row]
    /\ idem \in [Keys -> [norm : Request, reply : Reply] \cup {None}]
    /\ adjs \in [Query -> [set : SetId, result : Result] \cup {None}]
    /\ blobs \subseteq Content
    /\ sidecar \in [SetId -> BOOLEAN]
    /\ pc \in [Worker -> Step]
    /\ req \in [Worker -> Request \cup {None}]
    /\ todo \in [Worker -> SUBSET Content]
    /\ seen \in [Worker -> Manifest \cup {None}]
    /\ reply \in [Worker -> Reply \cup {None}]
    /\ replies \subseteq Answer
    /\ crashes \in 0 .. MaxCrashes
    /\ \A w \in Worker :
          /\ (pc[w] = "idle") <=> (req[w] = None)
          /\ pc[w] \in {"sidecar", "save", "save_adjudication", "respond"}
                => reply[w] \in Reply
          /\ pc[w] \in {"lookup", "run_core"} => seen[w] \in Manifest

(* The evidence of a row is in the manifest m, possessed no later than the *)
(* row says.                                                               *)
Collected(m, row) ==
    LET listed == IF row.kind = "crl" THEN m.crls ELSE m.ocsps IN
    IF row.kind = "certificate"
      THEN row.content \in m.certs
      ELSE \E e \in listed : e.content = row.content /\ e.at <= row.at

(* An upload answered 200 is in the manifest once its set is sealed,       *)
(* whichever instance sealed it and whenever the answer arrived: the       *)
(* unlocked assert_open of the items handler may be stale when add_items   *)
(* runs, and the state is read again inside the transaction.               *)
NoUploadLost ==
    \A a \in replies :
        (a.req.op = "items" /\ Succeeded(a) /\ phase[a.req.set] = "sealed")
            => \A row \in a.req.batch : Collected(manifest[a.req.set], row)

(* A row is committed only after every blob it names is on disk, across    *)
(* crashes between put_blob and add_items: seal and run_core read the      *)
(* blobs of committed rows and would answer 404 for a set that exists.     *)
BlobsOfRows ==
    \A s \in SetId : Contents(rows[s]) \subseteq blobs

(* Within a set a client_ref means one content for ever: two uploads that  *)
(* were both acknowledged agree on every ref they share, even if two       *)
(* instances handled them at the same time.                                *)
RefMeansOneContent ==
    \A a, b \in replies :
        (/\ a.req.op = "items" /\ Succeeded(a)
         /\ b.req.op = "items" /\ Succeeded(b)
         /\ a.req.set = b.req.set)
            => \A row \in a.req.batch, other \in b.req.batch :
                  row.ref = other.ref => row = other

(* A sealed set is immutable: no step changes its state, its rows or its   *)
(* manifest (storage.py: "racing seals produce one immutable manifest").   *)
SealedForGood ==
    [][\A s \in SetId : phase[s] = "sealed" =>
          /\ phase'[s] = "sealed"
          /\ rows'[s] = rows[s]
          /\ manifest'[s] = manifest[s]]_vars

(* The store implements the life cycle of EvidenceSets: batches are        *)
(* atomic, a seal sees whole batches, and whatever an instance answers     *)
(* with success - fresh, replayed or recomputed after a crash - is true of *)
(* what is stored.                                                         *)
Abstract == INSTANCE EvidenceSets
                WITH phase <- phase, rows <- rows, manifest <- manifest,
                     replies <- replies
ImplementsEvidenceSets == Abstract!Spec

(* Another content holds the idempotency key of r.                         *)
KeyTaken(r) == idem[Key(r)] # None /\ idem[Key(r)].norm # r

OverLimit(m) == TooManyObjects(m) \/ RevocationEntries(m) > MaxEntries

(* A conflict is answered for a cause, and the cause that was answered     *)
(* persists: the key belongs to other content, the set is sealed, a ref is *)
(* in use, the set is over a limit (its rows never shrink).  Only that of  *)
(* an adjudication, an open set, may pass.  A request so refused succeeds  *)
(* nowhere and never, with three exceptions: an adjudication refused       *)
(* before the seal; an upload refused for the seal whose rows were stored  *)
(* before it and whose first handler saves its answer later; and two       *)
(* contents of one key that were checked at once (OneContentPerKey).       *)
RefusedForCause ==
    \A a \in replies :
        a.reply.status = 409 =>
            /\ \/ KeyTaken(a.req)
               \/ /\ a.req.op = "items"
                  /\ \/ phase[a.req.set] = "sealed"
                     \/ ~ Compatible(rows[a.req.set], a.req.batch)
               \/ a.req.op = "seal" /\ OverLimit(ManifestOf(rows[a.req.set]))
               \/ a.req.op = "adjudicate" /\ phase[a.req.set] # "absent"
            /\ \A b \in replies :
                  (b.req = a.req /\ Succeeded(b)) =>
                     \/ KeyTaken(a.req)
                     \/ a.req.op = "adjudicate"
                     \/ /\ a.req.op = "items"
                        /\ phase[a.req.set] = "sealed"
                        /\ a.req.batch \subseteq rows[a.req.set]

(* Every successful answer to one request is the same answer, byte for     *)
(* byte, whichever instance gives it and whether it was replayed or        *)
(* computed again, the order of parse_rejected included (README section 6).*)
SameAnswer ==
    \A a, b \in replies :
        (a.req = b.req /\ Succeeded(a) /\ Succeeded(b)) => a.reply = b.reply

(* An adjudication answered with 201 can be read back, with the same       *)
(* result, and its package downloaded (README section 2).                  *)
Fetchable ==
    \A a \in replies :
        (a.req.op = "adjudicate" /\ Succeeded(a))
            => GetAdjudication(a.req.set, a.req.query) = a.reply

(* One request id never succeeds with two different contents in a scope    *)
(* (README section 6: the same id with other content is a 409).            *)
OneContentPerKey ==
    \A a, b \in replies :
        (Succeeded(a) /\ Succeeded(b) /\ Key(a.req) = Key(b.req))
            => a.req = b.req

------------------------------------------------------------------------------
(* Liveness *)

Done(r) == \E a \in replies : a.req = r /\ Succeeded(a)

(* A running handler makes its calls until it answers or its instance      *)
(* dies, and a client sends its request again until it succeeds; an        *)
(* instance is free again and again and serves every such client in turn.  *)
Fairness ==
    /\ \A w \in Worker : WF_vars(Handle(w))
    /\ \A r \in Request :
          SF_vars(\E w \in Worker : ~ Done(r) /\ Submit(w, r))

FairSpec == Spec /\ Fairness

(* What no further attempt can change: an upload to a sealed set, a seal   *)
(* of a set over a limit, a question a sealed set cannot answer.           *)
Hopeless(r) ==
    \/ r.op = "items" /\ phase[r.set] = "sealed"
    \/ r.op = "seal" /\ SealStatus(rows[r.set], blobs) # 200
    \/ /\ r.op = "adjudicate"
       /\ phase[r.set] = "sealed"
       /\ CoreStatus(manifest[r.set], r.query, Indexed(r.set), blobs) # 201

(* A client that keeps trying succeeds, although requests overtake each    *)
(* other and instances die: refusals are not recorded under the request's  *)
(* id, so that a seal sent before the set exists or an adjudication sent   *)
(* before it is sealed does not spoil the id.  Only what the stored state  *)
(* rules out for good may stay without a success.                          *)
PersistenceWins ==
    <>(\A r \in Request : Done(r) \/ Hopeless(r))
==============================================================================
