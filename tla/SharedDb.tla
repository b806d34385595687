------------------------------- MODULE SharedDb -------------------------------
(***************************************************************************)
(* The database file of two API instances below the calls of EvidenceStore *)
(* (app/storage.py): each instance has one connection, which its threads   *)
(* share under a lock, and waits for the write lock of the other no longer *)
(* than busy_timeout.  What a call leaves behind on the connection when it *)
(* fails is what the next call of the instance finds there.                *)
(*                                                                         *)
(* Of SQLite in WAL mode and of Python's sqlite3: one connection at a time *)
(* holds the write lock; a transaction reads the snapshot of its first     *)
(* statement and may write only if that is still the newest; execute opens *)
(* a transaction before an INSERT, and BEGIN IMMEDIATE takes the write     *)
(* lock before it finds that a transaction is open already.                *)
(***************************************************************************)
EXTENDS Integers, FiniteSets

CONSTANTS
    Instance,       \* the API instances, one connection each
    MaxCalls,       \* bound: how many writing calls a behaviour has
    MaxRestarts     \* bound: how often an instance is restarted

ASSUME DbBounds ==
    Instance # {} /\ MaxCalls \in Nat /\ MaxRestarts \in Nat

VARIABLES
    tx,         \* the connection: none, open (nothing read yet), reading, writing
    snap,       \* how much of committed the open transaction sees
    pc,         \* rest, or inside a call: insert (done, not committed), batch,
                \* index (a seal is committed, its name index not yet written)
    call,       \* the number of the last writing call of the instance
    pending,    \* the calls whose rows are in the open transaction
    calls,      \* how many writing calls have begun
    committed,  \* the calls whose rows are in the database
    failed,     \* the calls that raised
    restarts

vars == <<tx, snap, pc, call, pending, calls, committed, failed, restarts>>

Version == Cardinality(committed)

Init ==
    /\ tx = [i \in Instance |-> "none"]
    /\ snap = [i \in Instance |-> 0]
    /\ pc = [i \in Instance |-> "rest"]
    /\ call = [i \in Instance |-> 0]
    /\ pending = [i \in Instance |-> {}]
    /\ calls = 0
    /\ committed = {}
    /\ failed = {}
    /\ restarts = 0

(* A statement of i may write: nobody else does, and i has read nothing    *)
(* that has changed since.                                                 *)
MayWrite(i) ==
    /\ \A j \in Instance \ {i} : tx[j] # "writing"
    /\ tx[i] = "reading" => snap[i] = Version

NewCall(i) ==
    /\ pc[i] = "rest"
    /\ calls < MaxCalls
    /\ calls' = calls + 1
    /\ call' = [call EXCEPT ![i] = calls + 1]

Fail(c) == failed' = failed \cup {c}

(* Mutant: a cursor that is not read to its end keeps the snapshot.        *)
LeaveReading(i) ==
    /\ tx' = [tx EXCEPT ![i] = "reading"]
    /\ pc' = [pc EXCEPT ![i] = "rest"]
    /\ pending' = [pending EXCEPT ![i] = {}]

(* The transaction ends, by commit, rollback or loss of the connection.    *)
Leave(i) ==
    /\ tx' = [tx EXCEPT ![i] = "none"]
    /\ pc' = [pc EXCEPT ![i] = "rest"]
    /\ pending' = [pending EXCEPT ![i] = {}]

------------------------------------------------------------------------------
(* get_set, list_items, idempotent, get_adjudication: a SELECT, which sees *)
(* what is committed unless a transaction was left open.                   *)
Read(i) ==
    /\ pc[i] = "rest"
    /\ tx[i] = "open"
    /\ tx' = [tx EXCEPT ![i] = "reading"]
    /\ snap' = [snap EXCEPT ![i] = Version]
    /\ UNCHANGED <<pc, call, pending, calls, committed, failed, restarts>>

(* create_set, save of idempotent and save_adjudication: an INSERT, for    *)
(* which a transaction is opened, and a commit.                            *)
Insert(i) ==
    /\ NewCall(i)
    /\ MayWrite(i)
    /\ tx' = [tx EXCEPT ![i] = "writing"]
    /\ pc' = [pc EXCEPT ![i] = "insert"]
    /\ pending' = [pending EXCEPT ![i] = @ \cup {calls + 1}]
    /\ UNCHANGED <<snap, committed, failed, restarts>>

(* The INSERT has waited for busy_timeout, or is refused at once on an old *)
(* snapshot; nothing rolls back the transaction opened for it.             *)
InsertBusy(i) ==
    /\ NewCall(i)
    /\ ~ MayWrite(i)
    /\ tx' = [tx EXCEPT ![i] = IF @ = "none" THEN "open" ELSE @]
    /\ Fail(calls + 1)
    /\ UNCHANGED <<snap, pc, pending, committed, restarts>>

(* Mutant: a plain BEGIN, which takes no lock before the first write.      *)
BeginDeferred(i) ==
    /\ NewCall(i)
    /\ tx[i] = "none"
    /\ tx' = [tx EXCEPT ![i] = "reading"]
    /\ snap' = [snap EXCEPT ![i] = Version]
    /\ pc' = [pc EXCEPT ![i] = "batch"]
    /\ UNCHANGED <<pending, committed, failed, restarts>>

(* add_items and seal: BEGIN IMMEDIATE, and the rows of the set are read.  *)
Begin(i) ==
    /\ NewCall(i)
    /\ tx[i] = "none"
    /\ MayWrite(i)
    /\ tx' = [tx EXCEPT ![i] = "writing"]
    /\ snap' = [snap EXCEPT ![i] = Version]
    /\ pc' = [pc EXCEPT ![i] = "batch"]
    /\ UNCHANGED <<pending, committed, failed, restarts>>

(* It waits in vain.                                                       *)
BeginBusy(i) ==
    /\ NewCall(i)
    /\ tx[i] = "none"
    /\ ~ MayWrite(i)
    /\ Fail(calls + 1)
    /\ UNCHANGED <<tx, snap, pc, pending, committed, restarts>>

(* It fails because a transaction is open, outside of the try whose        *)
(* handler rolls back; the write lock is taken all the same if it is free. *)
BeginInside(i) ==
    /\ NewCall(i)
    /\ tx[i] # "none"
    /\ tx' = [tx EXCEPT ![i] = IF MayWrite(i) THEN "writing" ELSE @]
    /\ Fail(calls + 1)
    /\ UNCHANGED <<snap, pc, pending, committed, restarts>>

(* The rows of the batch, or the manifest, are written.                    *)
Write(i) ==
    /\ pc[i] = "batch"
    /\ call[i] \notin pending[i]
    /\ pending' = [pending EXCEPT ![i] = @ \cup {call[i]}]
    /\ UNCHANGED <<tx, snap, pc, call, calls, committed, failed, restarts>>

(* The end of a call without a name index to write: an INSERT, the batch   *)
(* of add_items, a seal that finds the set sealed.                         *)
Commit(i) ==
    /\ pc[i] \in {"insert", "batch"}
    /\ committed' = committed \cup pending[i]
    /\ Leave(i)
    /\ UNCHANGED <<snap, call, calls, failed, restarts>>

(* seal commits the manifest and goes on to write the name index, still in *)
(* the try of the transaction and under the lock of its instance.          *)
CommitSeal(i) ==
    /\ pc[i] = "batch"
    /\ call[i] \in pending[i]
    /\ committed' = committed \cup pending[i]
    /\ tx' = [tx EXCEPT ![i] = "none"]
    /\ pc' = [pc EXCEPT ![i] = "index"]
    /\ pending' = [pending EXCEPT ![i] = {}]
    /\ UNCHANGED <<snap, call, calls, failed, restarts>>

WriteIndex(i) ==
    /\ pc[i] = "index"
    /\ pc' = [pc EXCEPT ![i] = "rest"]
    /\ UNCHANGED <<tx, snap, call, pending, calls, committed, failed, restarts>>

(* The file cannot be written: the rollback finds nothing to undo, and the *)
(* seal raises although it is committed.                                   *)
IndexFails(i) ==
    /\ pc[i] = "index"
    /\ pc' = [pc EXCEPT ![i] = "rest"]
    /\ Fail(call[i])
    /\ UNCHANGED <<tx, snap, call, pending, calls, committed, restarts>>

(* Mutant: the exception is passed on without a rollback.                  *)
AbandonOpen(i) ==
    /\ pc[i] = "batch"
    /\ pc' = [pc EXCEPT ![i] = "rest"]
    /\ Fail(call[i])
    /\ UNCHANGED <<tx, snap, call, pending, calls, committed, restarts>>

(* A conflict, a limit, or an error after some rows were written.          *)
Abandon(i) ==
    /\ pc[i] = "batch"
    /\ Leave(i)
    /\ Fail(call[i])
    /\ UNCHANGED <<snap, call, calls, committed, restarts>>

(* The container is restarted; SQLite drops what was not committed.        *)
Restart(i) ==
    /\ restarts < MaxRestarts
    /\ restarts' = restarts + 1
    /\ failed' = IF pc[i] = "rest" THEN failed ELSE failed \cup {call[i]}
    /\ Leave(i)
    /\ UNCHANGED <<snap, call, calls, committed>>

Next ==
    \E i \in Instance :
        \/ Read(i)
        \/ Insert(i) \/ InsertBusy(i)
        \/ Begin(i) \/ BeginBusy(i) \/ BeginInside(i)
        \/ Write(i) \/ Commit(i) \/ Abandon(i)
        \/ CommitSeal(i) \/ WriteIndex(i) \/ IndexFails(i)
        \/ Restart(i)

Spec == Init /\ [][Next]_vars

------------------------------------------------------------------------------
TypeOK ==
    /\ tx \in [Instance -> {"none", "open", "reading", "writing"}]
    /\ snap \in [Instance -> Nat]
    /\ pc \in [Instance -> {"rest", "insert", "batch", "index"}]
    /\ call \in [Instance -> Nat]
    /\ pending \in [Instance -> SUBSET (1 .. calls)]
    /\ calls \in 0 .. MaxCalls
    /\ committed \subseteq 1 .. calls
    /\ failed \subseteq 1 .. calls
    /\ restarts \in 0 .. MaxRestarts
    /\ \A i \in Instance :
          /\ pc[i] \in {"insert", "batch"} => tx[i] = "writing"
          /\ pc[i] = "index" => tx[i] = "none"

(* What a call that raised has not committed by then is never committed:   *)
(* it is not left on the connection for the next call to commit            *)
(* (add_items: "Atomic batch insert").  A call that has committed raises   *)
(* only as a seal that cannot write its name index or is cut off there.    *)
RaisedIsOver ==
    [][\A c \in failed' \cap committed' :
          /\ c \in committed
          /\ c \in failed \/ \E i \in Instance : pc[i] = "index" /\ call[i] = c]_vars

(* The state and the rows that add_items and seal have read are still the  *)
(* newest when they write: neither instance commits under the other's      *)
(* check of the state, whatever transactions were left open before.        *)
BatchOnNewest == \A i \in Instance : pc[i] = "batch" => snap[i] = Version

(* Whatever transactions were left open, some instance can write: not all  *)
(* of them can be shut out at a time.  It may be one alone: a call that    *)
(* found a transaction open may have left the write lock with its own idle *)
(* instance, and then the other one cannot write until that instance makes *)
(* an INSERT or is restarted.                                              *)
SomeoneCanWrite == \E i \in Instance : MayWrite(i)

(* A call fails only while another one is at work, as the busy timeout has *)
(* it; README section 9: every state change is done within BEGIN IMMEDIATE *)
(* (which rolls back when it fails), and racing seals get one manifest.    *)
RaisesOnlyUnderContention ==
    [][failed' # failed => \E i \in Instance : pc[i] # "rest"]_vars
==============================================================================
