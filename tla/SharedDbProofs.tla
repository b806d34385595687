---------------------------- MODULE SharedDbProofs ----------------------------
(***************************************************************************)
(* Proofs about SharedDb, for any number of instances, calls and restarts. *)
(***************************************************************************)
EXTENDS SharedDb, FiniteSetTheorems, TLAPS

(* One instance at most holds the write lock.                              *)
OneWriter ==
    \A i, j \in Instance : tx[i] = "writing" /\ tx[j] = "writing" => i = j

(* An open transaction holds rows of the call that runs in it and of no    *)
(* other, so that what a failed call leaves open is empty; a seal that     *)
(* writes its name index is committed.                                     *)
Contained ==
    \A i \in Instance :
        /\ pc[i] \in {"rest", "index"} => pending[i] = {}
        /\ pc[i] = "index" => call[i] \in committed
        /\ pc[i] \in {"insert", "batch"} =>
              /\ pending[i] \subseteq {call[i]}
              /\ call[i] \in 1 .. calls
              /\ call[i] \notin failed \cup committed

Inv == TypeOK /\ OneWriter /\ Contained /\ BatchOnNewest /\ SomeoneCanWrite

(* The version is a number: only finitely many calls have begun.           *)
LEMMA VersionType ==
    ASSUME TypeOK
    PROVE  Version \in Nat
<1>1. IsFiniteSet(1 .. calls)
  BY FS_Interval DEF TypeOK
<1>2. IsFiniteSet(committed)
  BY <1>1, FS_Subset DEF TypeOK
<1> QED
  BY <1>2, FS_CardinalityType DEF Version

LEMMA Initially == Init => Inv
<1> SUFFICES ASSUME Init PROVE Inv
  OBVIOUS
<1>1. TypeOK
  BY DbBounds DEF Init, TypeOK
<1>2. OneWriter /\ Contained /\ BatchOnNewest
  BY DEF Init, OneWriter, Contained, BatchOnNewest
<1>3. SomeoneCanWrite
  BY DbBounds DEF Init, SomeoneCanWrite, MayWrite
<1> QED
  BY <1>1, <1>2, <1>3 DEF Inv

(* An action that leaves committed alone leaves the version alone.         *)
LEMMA SameVersion == committed' = committed => Version' = Version
  BY DEF Version

LEMMA TypeStep == Inv /\ [Next]_vars => TypeOK'
<1> SUFFICES ASSUME Inv, [Next]_vars PROVE TypeOK'
  OBVIOUS
<1> USE DbBounds
<1>0. TypeOK /\ Version \in Nat
  BY VersionType DEF Inv
<1>1. ASSUME NEW i \in Instance, Read(i) PROVE TypeOK'
  BY <1>0, <1>1 DEF TypeOK, Read
<1>2. ASSUME NEW i \in Instance, Insert(i) PROVE TypeOK'
  BY <1>0, <1>2 DEF TypeOK, Insert, NewCall
<1>3. ASSUME NEW i \in Instance, InsertBusy(i) \/ BeginBusy(i) \/ BeginInside(i)
      PROVE TypeOK'
  <2>1. CASE InsertBusy(i)
    <3>1. pc[i] = "rest" /\ calls + 1 \in 1 .. (calls + 1)
      BY <1>0, <2>1 DEF TypeOK, InsertBusy, NewCall
    <3>2. \A j \in Instance :
             /\ pc'[j] \in {"insert", "batch"} => tx'[j] = "writing"
             /\ pc'[j] = "index" => tx'[j] = "none"
      BY <1>0, <2>1, <3>1 DEF TypeOK, InsertBusy
    <3> QED BY <1>0, <2>1, <3>1, <3>2 DEF TypeOK, InsertBusy, NewCall, Fail
  <2>2. CASE BeginBusy(i)
    BY <1>0, <2>2 DEF TypeOK, BeginBusy, NewCall, Fail
  <2>3. CASE BeginInside(i)
    <3>1. \A j \in Instance :
             /\ pc'[j] \in {"insert", "batch"} => tx'[j] = "writing"
             /\ pc'[j] = "index" => tx'[j] = "none"
      BY <1>0, <2>3 DEF TypeOK, BeginInside, NewCall
    <3> QED BY <1>0, <2>3, <3>1 DEF TypeOK, BeginInside, NewCall, Fail
  <2> QED BY <1>3, <2>1, <2>2, <2>3
<1>4. ASSUME NEW i \in Instance, Begin(i) PROVE TypeOK'
  BY <1>0, <1>4 DEF TypeOK, Begin, NewCall
<1>5. ASSUME NEW i \in Instance, Write(i) PROVE TypeOK'
  <2>1. call[i] \in 1 .. calls
    BY <1>5 DEF Inv, Contained, Write
  <2> QED BY <1>0, <1>5, <2>1 DEF TypeOK, Write
<1>6. ASSUME NEW i \in Instance,
             Commit(i) \/ CommitSeal(i) \/ WriteIndex(i) PROVE TypeOK'
  <2>1. CASE Commit(i)
    BY <1>0, <2>1 DEF TypeOK, Commit, Leave
  <2>2. CASE CommitSeal(i)
    BY <1>0, <2>2 DEF TypeOK, CommitSeal
  <2>3. CASE WriteIndex(i)
    BY <1>0, <2>3 DEF TypeOK, WriteIndex
  <2> QED BY <1>6, <2>1, <2>2, <2>3
<1>7. ASSUME NEW i \in Instance, Abandon(i) \/ IndexFails(i) \/ Restart(i)
      PROVE TypeOK'
  <2>1. pc[i] # "rest" => call[i] \in 1 .. calls
    BY <1>0 DEF Inv, Contained, TypeOK
  <2>2. CASE Abandon(i)
    BY <1>0, <2>1, <2>2 DEF TypeOK, Abandon, Leave, Fail
  <2>3. CASE Restart(i)
    <3>1. failed' \subseteq 1 .. calls /\ restarts' \in 0 .. MaxRestarts
      <4>1. failed \subseteq 1 .. calls
        BY <1>0 DEF TypeOK
      <4>2. failed' \subseteq 1 .. calls
        BY <2>1, <2>3, <4>1 DEF Restart
      <4> QED BY <1>0, <2>3, <4>2 DEF TypeOK, Restart
    <3>2. \A j \in Instance :
             /\ pc'[j] \in {"insert", "batch"} => tx'[j] = "writing"
             /\ pc'[j] = "index" => tx'[j] = "none"
      BY <1>0, <2>3 DEF TypeOK, Restart, Leave
    <3> QED BY <1>0, <2>3, <3>1, <3>2 DEF TypeOK, Restart, Leave
  <2>4. CASE IndexFails(i)
    BY <1>0, <2>1, <2>4 DEF TypeOK, IndexFails, Fail
  <2> QED BY <1>7, <2>2, <2>3, <2>4
<1>8. CASE UNCHANGED vars
  BY <1>0, <1>8 DEF TypeOK, vars
<1> QED
  BY <1>1, <1>2, <1>3, <1>4, <1>5, <1>6, <1>7, <1>8 DEF Next

(* The lock is taken only where nobody else holds it.                      *)
LEMMA WriterStep == Inv /\ [Next]_vars => OneWriter'
<1> SUFFICES ASSUME Inv, [Next]_vars PROVE OneWriter'
  OBVIOUS
<1> USE DEF Inv, TypeOK, OneWriter
<1>1. ASSUME NEW i \in Instance,
             \/ Read(i) \/ BeginBusy(i) \/ Write(i) \/ Commit(i)
             \/ CommitSeal(i) \/ WriteIndex(i) \/ IndexFails(i)
             \/ Abandon(i) \/ Restart(i)
      PROVE OneWriter'
  BY <1>1 DEF Read, BeginBusy, Write, Commit, CommitSeal, WriteIndex,
              IndexFails, Abandon, Restart, Leave
<1>2. ASSUME NEW i \in Instance, Insert(i) \/ Begin(i) PROVE OneWriter'
  BY <1>2 DEF Insert, Begin, MayWrite
<1>3. ASSUME NEW i \in Instance, InsertBusy(i) PROVE OneWriter'
  BY <1>3 DEF InsertBusy
<1>4. ASSUME NEW i \in Instance, BeginInside(i) PROVE OneWriter'
  <2>1. CASE MayWrite(i)
    BY <1>4, <2>1 DEF BeginInside, MayWrite
  <2>2. CASE ~ MayWrite(i)
    BY <1>4, <2>2 DEF BeginInside
  <2> QED BY <2>1, <2>2
<1>5. CASE UNCHANGED vars
  BY <1>5 DEF vars
<1> QED
  BY <1>1, <1>2, <1>3, <1>4, <1>5 DEF Next

(* A call in a transaction excludes every other, so it alone commits or is *)
(* abandoned; a new call has a number that neither set holds.              *)
LEMMA ContainedStep == Inv /\ [Next]_vars => Contained'
<1> SUFFICES ASSUME Inv, [Next]_vars PROVE Contained'
  OBVIOUS
<1> USE DEF Inv, TypeOK, Contained
<1>0. calls + 1 \notin 1 .. calls /\ 1 .. calls \subseteq 1 .. (calls + 1)
      /\ calls + 1 \in 1 .. (calls + 1)
  BY DbBounds
<1>1. \A i, j \in Instance :
         (pc[i] \in {"insert", "batch"} /\ pc[j] \in {"insert", "batch"}) => i = j
  BY DEF OneWriter
<1>2. ASSUME NEW i \in Instance, Read(i)
      PROVE Contained'
  BY <1>2 DEF Read
<1>3. ASSUME NEW i \in Instance, Insert(i) \/ Begin(i)
      PROVE Contained'
  <2>1. pc[i] = "rest" /\ calls' = calls + 1 /\ pending[i] = {}
        /\ call' = [call EXCEPT ![i] = calls + 1]
        /\ committed' = committed /\ failed' = failed
    BY <1>3 DEF Insert, Begin, NewCall
  <2>2. pc'[i] \in {"insert", "batch"}
        /\ \A j \in Instance \ {i} : pc'[j] = pc[j] /\ pending'[j] = pending[j]
    BY <1>3 DEF Insert, Begin
  <2>3. pending'[i] \subseteq {calls + 1}
    BY <1>3, <2>1 DEF Insert, Begin
  <2>4. \A j \in Instance \ {i} : call'[j] = call[j]
    BY <2>1
  <2>5. call'[i] = calls + 1 /\ calls + 1 \notin failed \cup committed
    BY <1>0, <2>1
  <2> QED BY <1>0, <2>1, <2>2, <2>3, <2>4, <2>5
<1>4. ASSUME NEW i \in Instance, InsertBusy(i) \/ BeginBusy(i) \/ BeginInside(i)
      PROVE Contained'
  <2>1. pc[i] = "rest" /\ calls' = calls + 1 /\ pc' = pc /\ pending' = pending
        /\ call' = [call EXCEPT ![i] = calls + 1]
        /\ committed' = committed /\ failed' = failed \cup {calls + 1}
    BY <1>4 DEF InsertBusy, BeginBusy, BeginInside, NewCall, Fail
  <2>2. \A j \in Instance : pc[j] # "rest" =>
          call'[j] = call[j] /\ call[j] # calls + 1
    BY <1>0, <2>1
  <2> QED BY <1>0, <2>1, <2>2
<1>5. ASSUME NEW i \in Instance, Write(i)
      PROVE Contained'
  BY <1>5 DEF Write
<1>6. ASSUME NEW i \in Instance, Commit(i) \/ CommitSeal(i)
      PROVE Contained'
  <2>1. /\ pc[i] \in {"insert", "batch"} /\ call' = call
        /\ committed' = committed \cup pending[i]
    BY <1>6 DEF Commit, CommitSeal
  <2>2. /\ \A j \in Instance \ {i} : pc'[j] = pc[j] /\ pending'[j] = pending[j]
        /\ pc'[i] \in {"rest", "index"} /\ pending'[i] = {}
    BY <1>6 DEF Commit, CommitSeal, Leave
  <2>3. pc'[i] = "index" => call[i] \in pending[i]
    BY <1>6 DEF Commit, CommitSeal, Leave
  <2>4. \A j \in Instance \ {i} : pc'[j] \in {"rest", "index"}
    BY <1>1, <2>1, <2>2
  <2> QED BY <2>1, <2>2, <2>3, <2>4
<1>7. ASSUME NEW i \in Instance, Abandon(i)
      PROVE Contained'
  <2>1. pc[i] \in {"insert", "batch"} /\ call' = call /\ committed' = committed
    BY <1>7 DEF Abandon
  <2>2. /\ \A j \in Instance \ {i} : pc'[j] = pc[j] /\ pending'[j] = pending[j]
        /\ pc'[i] = "rest" /\ pending'[i] = {}
    BY <1>7 DEF Abandon, Leave
  <2>3. \A j \in Instance \ {i} : pc'[j] \in {"rest", "index"}
    BY <1>1, <2>1, <2>2
  <2> QED BY <2>1, <2>2, <2>3
<1>8. ASSUME NEW i \in Instance, WriteIndex(i) \/ IndexFails(i)
      PROVE Contained'
  <2>1. /\ call' = call /\ committed' = committed /\ pending' = pending
        /\ calls' = calls /\ pc[i] = "index"
        /\ failed' \subseteq failed \cup {call[i]}
    BY <1>8 DEF WriteIndex, IndexFails, Fail
  <2>2. pc' = [pc EXCEPT ![i] = "rest"]
    BY <1>8 DEF WriteIndex, IndexFails
  <2>3. call[i] \in committed
    BY <2>1
  <2> QED BY <2>1, <2>2, <2>3
<1>9. ASSUME NEW i \in Instance, Restart(i)
      PROVE Contained'
  <2>1. /\ call' = call /\ committed' = committed /\ calls' = calls
        /\ failed' = IF pc[i] = "rest" THEN failed ELSE failed \cup {call[i]}
    BY <1>9 DEF Restart
  <2>2. /\ \A j \in Instance \ {i} : pc'[j] = pc[j] /\ pending'[j] = pending[j]
        /\ pc'[i] = "rest" /\ pending'[i] = {}
    BY <1>9 DEF Restart, Leave
  <2>3. ASSUME NEW j \in Instance \ {i}, pc[j] \in {"insert", "batch"}
        PROVE  call[j] \notin failed'
    <3>1. CASE pc[i] = "rest"
      BY <2>1, <2>3, <3>1
    <3>2. CASE pc[i] = "index"
      BY <2>1, <2>3, <3>2
    <3> QED BY <1>1, <2>3, <3>1, <3>2
  <2> QED BY <2>1, <2>2, <2>3
<1>10. CASE UNCHANGED vars
  BY <1>10 DEF vars
<1> QED
  BY <1>2, <1>3, <1>4, <1>5, <1>6, <1>7, <1>8, <1>9, <1>10 DEF Next

(* Only a call in a transaction commits, and it has not raised; only a     *)
(* call that writes a name index raises after its commit.                  *)
LEMMA OverStep ==
    ASSUME Inv, [Next]_vars, NEW c \in failed' \cap committed'
    PROVE  /\ c \in committed
           /\ c \in failed \/ \E i \in Instance : pc[i] = "index" /\ call[i] = c
<1> USE DEF Inv, TypeOK, Contained
<1>1. CASE failed' = failed /\ committed' = committed
  BY <1>1
<1>2. ASSUME NEW i \in Instance, InsertBusy(i) \/ BeginBusy(i) \/ BeginInside(i)
      PROVE  c \in committed /\ c \in failed
  <2>1. committed' = committed /\ failed' = failed \cup {calls + 1}
    BY <1>2 DEF InsertBusy, BeginBusy, BeginInside, Fail
  <2>2. calls + 1 \notin 1 .. calls
    BY DbBounds
  <2> QED BY <2>1, <2>2
<1>3. ASSUME NEW i \in Instance, Commit(i) \/ CommitSeal(i)
      PROVE  c \in committed /\ c \in failed
  <2>1. /\ pc[i] \in {"insert", "batch"} /\ failed' = failed
        /\ committed' = committed \cup pending[i]
    BY <1>3 DEF Commit, CommitSeal
  <2> QED BY <2>1
<1>4. ASSUME NEW i \in Instance, Abandon(i) \/ IndexFails(i) \/ Restart(i)
      PROVE  /\ c \in committed
             /\ c \in failed \/ (pc[i] = "index" /\ call[i] = c)
  <2>1. /\ committed' = committed
        /\ failed' = IF pc[i] = "rest" THEN failed ELSE failed \cup {call[i]}
    BY <1>4 DEF Abandon, IndexFails, Restart, Fail
  <2> QED BY <2>1
<1>5. ASSUME NEW i \in Instance,
             Read(i) \/ Insert(i) \/ Begin(i) \/ Write(i) \/ WriteIndex(i)
      PROVE  failed' = failed /\ committed' = committed
  BY <1>5 DEF Read, Insert, Begin, Write, WriteIndex
<1>6. CASE UNCHANGED vars
  BY <1>1, <1>6 DEF vars
<1> QED
  BY <1>1, <1>2, <1>3, <1>4, <1>5, <1>6 DEF Next

(* While a batch runs nobody else commits, and a transaction that reads    *)
(* the newest, or none, is left to somebody by every step.                 *)
LEMMA NewestStep ==
    Inv /\ [Next]_vars => BatchOnNewest' /\ SomeoneCanWrite'
<1> SUFFICES ASSUME Inv, [Next]_vars
             PROVE  BatchOnNewest' /\ SomeoneCanWrite'
  OBVIOUS
<1> USE DEF Inv, TypeOK, BatchOnNewest
<1>1. \A i, j \in Instance :
         (pc[i] \in {"insert", "batch"} /\ pc[j] \in {"insert", "batch"}) => i = j
  BY DEF OneWriter
<1>2. \/ \E k \in Instance : tx[k] = "writing"
      \/ \E k \in Instance : tx[k] = "reading" => snap[k] = Version
  BY DEF SomeoneCanWrite, MayWrite
<1>3. ASSUME OneWriter',
             \/ \E k \in Instance : tx'[k] = "writing"
             \/ \E k \in Instance : tx'[k] = "reading" => snap'[k] = Version'
      PROVE  SomeoneCanWrite'
  <2>1. CASE \E k \in Instance : tx'[k] = "writing"
    BY <1>3, <2>1 DEF OneWriter, SomeoneCanWrite, MayWrite
  <2>2. CASE \A k \in Instance : tx'[k] # "writing"
    BY <1>3, <2>2 DEF SomeoneCanWrite, MayWrite
  <2> QED BY <2>1, <2>2
<1>4. OneWriter'
  BY WriterStep
<1>5. ASSUME NEW i \in Instance, Read(i)
      PROVE BatchOnNewest' /\ SomeoneCanWrite'
  <2>1. Version' = Version
    BY <1>5, SameVersion DEF Read
  <2>2. snap'[i] = Version'
    BY <1>5, <2>1 DEF Read
  <2> QED BY <1>3, <1>4, <1>5, <2>1, <2>2 DEF Read
<1>6. ASSUME NEW i \in Instance, Insert(i) \/ Begin(i)
      PROVE BatchOnNewest' /\ SomeoneCanWrite'
  <2>1. Version' = Version
    BY <1>6, SameVersion DEF Insert, Begin
  <2>2. tx'[i] = "writing"
    BY <1>6 DEF Insert, Begin
  <2>3. BatchOnNewest'
    BY <1>6, <2>1 DEF Insert, Begin
  <2> QED BY <1>3, <1>4, <2>2, <2>3
<1>7. ASSUME NEW i \in Instance, InsertBusy(i) \/ BeginBusy(i) \/ BeginInside(i)
      PROVE BatchOnNewest' /\ SomeoneCanWrite'
  <2>1. Version' = Version /\ snap' = snap /\ pc' = pc
    BY <1>7, SameVersion DEF InsertBusy, BeginBusy, BeginInside
  <2>2. \A k \in Instance : /\ tx[k] = "writing" => tx'[k] = "writing"
                            /\ tx'[k] = "reading" => tx[k] = "reading"
    <3>1. CASE InsertBusy(i)
      BY <3>1 DEF InsertBusy
    <3>2. CASE BeginBusy(i)
      BY <3>2 DEF BeginBusy
    <3>3. CASE BeginInside(i)
      BY <3>3 DEF BeginInside
    <3> QED BY <1>7, <3>1, <3>2, <3>3
  <2> QED BY <1>2, <1>3, <1>4, <2>1, <2>2
<1>8. ASSUME NEW i \in Instance, Write(i)
      PROVE BatchOnNewest' /\ SomeoneCanWrite'
  <2>1. Version' = Version
    BY <1>8, SameVersion DEF Write
  <2> QED BY <1>2, <1>3, <1>4, <1>8, <2>1 DEF Write
<1>9. ASSUME NEW i \in Instance, Commit(i) \/ CommitSeal(i) \/ Abandon(i)
      PROVE BatchOnNewest' /\ SomeoneCanWrite'
  <2>1. /\ pc[i] \in {"insert", "batch"} /\ pc'[i] # "batch"
        /\ \A j \in Instance \ {i} : pc'[j] = pc[j]
    BY <1>9 DEF Commit, CommitSeal, Abandon, Leave
  <2>2. \A j \in Instance : pc'[j] # "batch"
    BY <1>1, <2>1
  <2>3. tx'[i] = "none"
    BY <1>9 DEF Commit, CommitSeal, Abandon, Leave
  <2> QED BY <1>3, <1>4, <2>2, <2>3
<1>10. ASSUME NEW i \in Instance, Restart(i)
       PROVE BatchOnNewest' /\ SomeoneCanWrite'
  <2>1. Version' = Version
    BY <1>10, SameVersion DEF Restart
  <2>2. tx'[i] = "none"
    BY <1>10 DEF Restart, Leave
  <2> QED BY <1>3, <1>4, <1>10, <2>1, <2>2 DEF Restart, Leave
<1>11. ASSUME NEW i \in Instance, WriteIndex(i) \/ IndexFails(i)
       PROVE BatchOnNewest' /\ SomeoneCanWrite'
  <2>1. /\ Version' = Version /\ tx' = tx /\ snap' = snap
        /\ pc' = [pc EXCEPT ![i] = "rest"]
    BY <1>11, SameVersion DEF WriteIndex, IndexFails
  <2> QED BY <1>2, <1>3, <1>4, <2>1
<1>12. CASE UNCHANGED vars
  BY <1>12, <1>2, <1>3, <1>4, SameVersion DEF vars
<1> QED
  BY <1>5, <1>6, <1>7, <1>8, <1>9, <1>10, <1>11, <1>12 DEF Next

(* Every reachable state satisfies the inductive invariant.                *)
THEOREM Invariance == Spec => []Inv
<1>1. Inv /\ [Next]_vars => Inv'
  BY TypeStep, WriterStep, ContainedStep, NewestStep DEF Inv
<1> QED
  BY Initially, <1>1, PTL DEF Spec

(* TypeOK: the tables and connections are well typed, a call inside a      *)
(* transaction holds the write lock, and a seal that writes its name index *)
(* has left it.                                                            *)
THEOREM TypeCorrect == Spec => []TypeOK
<1>1. Inv => TypeOK
  BY DEF Inv
<1> QED
  BY Invariance, <1>1, PTL

(* RaisedIsOver: what a call of storage.py that raised has not committed   *)
(* is never committed, although its connection, perhaps in an open         *)
(* transaction, is used again; a seal alone raises after its commit, while *)
(* it writes the name index.                                               *)
THEOREM FailuresAreOver == Spec => RaisedIsOver
<1>1. Inv /\ [Next]_vars =>
        [\A c \in failed' \cap committed' :
            /\ c \in committed
            /\ c \in failed \/ \E i \in Instance : pc[i] = "index" /\ call[i] = c]_vars
  BY OverStep
<1> QED
  BY Invariance, <1>1, PTL DEF Spec, RaisedIsOver

(* BatchOnNewest: add_items and seal act on the newest state of the set.   *)
THEOREM BatchesAreSerial == Spec => []BatchOnNewest
<1>1. Inv => BatchOnNewest
  BY DEF Inv
<1> QED
  BY Invariance, <1>1, PTL

(* SomeoneCanWrite: however many transactions are left open, some instance *)
(* can write.                                                              *)
THEOREM NoStandstill == Spec => []SomeoneCanWrite
<1>1. Inv => SomeoneCanWrite
  BY DEF Inv
<1> QED
  BY Invariance, <1>1, PTL
==============================================================================
