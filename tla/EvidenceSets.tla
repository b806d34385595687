---------------------------- MODULE EvidenceSets ----------------------------
(***************************************************************************)
(* What the store promises its clients, without instances, idempotency     *)
(* rows, blobs or crashes: a set is created, grows by whole batches while  *)
(* it is open, and is sealed once, with a manifest computed from all of    *)
(* its rows.  A success is answered only after its effect, and the effect  *)
(* stays; a result answered for a set was computed from the manifest that  *)
(* every seal of the set answers.                                          *)
(***************************************************************************)
EXTENDS Evidence

VARIABLES
    phase,      \* SetId -> absent, open or sealed
    rows,       \* SetId -> the rows stored for the set
    manifest,   \* SetId -> the manifest fixed by the seal, or None
    replies     \* the answers clients have received

vars == <<phase, rows, manifest, replies>>

Init ==
    /\ phase = [s \in SetId |-> "absent"]
    /\ rows = [s \in SetId |-> {}]
    /\ manifest = [s \in SetId |-> None]
    /\ replies = {}

(* What must be true of the stored state for the success a to be answered. *)
Justified(a) ==
    LET s == a.req.set IN
    /\ a.req.op = "create" => phase[s] # "absent"
    /\ a.req.op = "items" => a.req.batch \subseteq rows[s]
    /\ a.req.op = "seal" => /\ phase[s] = "sealed"
                           /\ a.reply.manifest = manifest[s]
    /\ a.req.op = "adjudicate" => /\ phase[s] = "sealed"
                                 /\ a.reply.result.set = s
                                 /\ a.reply.result.manifest = manifest[s]
                                 /\ a.reply.result.query = a.req.query

Create(s) ==
    /\ phase[s] = "absent"
    /\ phase' = [phase EXCEPT ![s] = "open"]
    /\ UNCHANGED <<rows, manifest, replies>>

Upload(s, batch) ==
    /\ phase[s] = "open"
    /\ Compatible(rows[s], batch)
    /\ rows' = [rows EXCEPT ![s] = @ \cup batch]
    /\ UNCHANGED <<phase, manifest, replies>>

Seal(s) ==
    /\ phase[s] = "open"
    /\ phase' = [phase EXCEPT ![s] = "sealed"]
    /\ manifest' = [manifest EXCEPT ![s] = ManifestOf(rows[s])]
    /\ UNCHANGED <<rows, replies>>

(* One more answer; a refusal promises nothing.                            *)
Respond ==
    /\ \E a \in replies' :
         /\ a \in Answer
         /\ Succeeded(a) => Justified(a)
         /\ replies' = replies \cup {a}
    /\ UNCHANGED <<phase, rows, manifest>>

Next ==
    \/ \E s \in SetId : Create(s) \/ Seal(s)
    \/ \E r \in Request : Upload(r.set, r.batch)
    \/ Respond

Spec == Init /\ [][Next]_vars
==============================================================================
