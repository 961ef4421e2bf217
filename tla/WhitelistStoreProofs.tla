------------------------ MODULE WhitelistStoreProofs ------------------------
(***************************************************************************)
(* Proofs about WhitelistStore, for any replicas, addresses and bounds.    *)
(***************************************************************************)
EXTENDS WhitelistStore, TLAPS

(* No copy and no stamp is of a version still to be written, and a process *)
(* that is down has read nothing. *)
Bounded ==
    \A p \in Replicas : /\ basis[p] <= version /\ seen[p] <= version
                        /\ pc[p] = "down" => basis[p] = Unread

(* A file has one process. *)
OneProcess ==
    mode = "filesystem" => \A p, q \in Replicas : Up(p) /\ Up(q) => p = q

(* The change an operation is about to report is in the copy. *)
OpInCopy ==
    \A p \in Replicas : /\ op[p].kind = "add" => op[p].ip \in memory[p]
                        /\ op[p].kind = "delete" => op[p].ip \notin memory[p]

(* Between the replacement of the file and the stat, the file is the copy, *)
(* unless it was edited. *)
FileIsCopy ==
    \A p \in Replicas :
      pc[p] = "stat" => mode = "filesystem" /\ (writer = p => memory[p] = stored)

(* The last writer has the current version as long as it runs. *)
WriterIsCurrent ==
    \A p \in Replicas : writer = p /\ basis[p] # Unread => basis[p] = version

(* A copy of the current version answers by what was reported. *)
CopyAgrees ==
    ~overwritten => \A p \in Replicas : basis[p] = version => Agrees(memory[p])

(* A copy that the stamp says is that of the file is, and so is the one an *)
(* operation has refreshed. *)
StampIsTrue ==
    mode = "filesystem" /\ ~misread =>
      \A p \in Replicas :
        /\ Up(p) /\ (version = 0 \/ seen[p] = version) => basis[p] = version
        /\ pc[p] \in {"write", "stat"} => basis[p] = version

IInv ==
    /\ TypeOK
    /\ Bounded
    /\ OneProcess
    /\ OpInCopy
    /\ FileIsCopy
    /\ WriterIsCurrent
    /\ AcknowledgedLast
    /\ CopyAgrees
    /\ StampIsTrue
    /\ AloneLosesNothing

-----------------------------------------------------------------------------
(* The initial states satisfy the invariant. *)
LEMMA InitInv == Init => IInv
  <1> SUFFICES ASSUME Init PROVE IInv
    OBVIOUS
  <1> USE NamesAssumption DEF Init, Unread, Up
  <1>1. TypeOK
    <2>1. op \in [Replicas -> Ops]
      BY DEF Ops
    <2>2. \A p \in Replicas : op[p] = NoOp
      OBVIOUS
    <2> QED  BY <2>1, <2>2 DEF TypeOK, Outside
  <1>2. Bounded /\ OneProcess /\ OpInCopy /\ FileIsCopy
    BY DEF Bounded, OneProcess, OpInCopy, FileIsCopy, NoOp
  <1>3. WriterIsCurrent /\ StampIsTrue /\ AloneLosesNothing
    BY DEF WriterIsCurrent, StampIsTrue, AloneLosesNothing
  <1>4. AcknowledgedLast /\ CopyAgrees
    BY DEF AcknowledgedLast, CopyAgrees, Agrees
  <1> QED  BY <1>1, <1>2, <1>3, <1>4 DEF IInv

(* The load at the start keeps the invariant. *)
LEMMA StartInv ==
  ASSUME IInv, NEW p \in Replicas, Start(p)
  PROVE  IInv'
  <1> USE NamesAssumption, BoundsAssumption DEF Start, storage, bounds, Unread, Up, Idle
  <1>1. TypeOK'
    BY DEF IInv, TypeOK, Ops, NoOp, Outside
  <1>2. Bounded'
    BY DEF IInv, TypeOK, Bounded
  <1>3. OneProcess'
    BY DEF IInv, TypeOK, OneProcess
  <1>4. OpInCopy'
    BY DEF IInv, TypeOK, OpInCopy, Ops, NoOp
  <1>5. FileIsCopy'
    BY DEF IInv, TypeOK, Bounded, OneProcess, FileIsCopy, Outside
  <1>6. WriterIsCurrent'
    BY DEF IInv, TypeOK, Bounded, WriterIsCurrent, Outside
  <1>7. AcknowledgedLast'
    BY DEF IInv, TypeOK, Bounded, OpInCopy, FileIsCopy, AcknowledgedLast, CopyAgrees, Agrees, Ops, NoOp
  <1>8. CopyAgrees'
    BY DEF IInv, TypeOK, Bounded, OneProcess, OpInCopy, FileIsCopy, AcknowledgedLast, CopyAgrees, Agrees, Ops, NoOp
  <1>9. StampIsTrue'
    BY DEF IInv, TypeOK, Bounded, OneProcess, StampIsTrue
  <1>10. AloneLosesNothing'
    BY DEF IInv, TypeOK, StampIsTrue, AloneLosesNothing
  <1> QED  BY <1>1, <1>2, <1>3, <1>4, <1>5, <1>6, <1>7, <1>8, <1>9, <1>10 DEF IInv

(* A crash keeps the invariant. *)
LEMMA CrashInv ==
  ASSUME IInv, NEW p \in Replicas, Crash(p)
  PROVE  IInv'
  <1> USE NamesAssumption, BoundsAssumption DEF Crash, storage, Unread, Up, Idle
  <1>1. TypeOK'
    BY DEF IInv, TypeOK, Ops, NoOp, Outside
  <1>2. Bounded'
    BY DEF IInv, TypeOK, Bounded
  <1>3. OneProcess'
    BY DEF IInv, TypeOK, OneProcess
  <1>4. OpInCopy'
    BY DEF IInv, TypeOK, OpInCopy, Ops, NoOp
  <1>5. FileIsCopy'
    BY DEF IInv, TypeOK, Bounded, OneProcess, FileIsCopy, Outside
  <1>6. WriterIsCurrent'
    BY DEF IInv, TypeOK, Bounded, WriterIsCurrent, Outside
  <1>7. AcknowledgedLast'
    BY DEF IInv, TypeOK, Bounded, OpInCopy, FileIsCopy, AcknowledgedLast, CopyAgrees, Agrees, Ops, NoOp
  <1>8. CopyAgrees'
    BY DEF IInv, TypeOK, Bounded, OneProcess, OpInCopy, FileIsCopy, AcknowledgedLast, CopyAgrees, Agrees, Ops, NoOp
  <1>9. StampIsTrue'
    BY DEF IInv, TypeOK, Bounded, OneProcess, StampIsTrue
  <1>10. AloneLosesNothing'
    BY DEF IInv, TypeOK, StampIsTrue, AloneLosesNothing
  <1> QED  BY <1>1, <1>2, <1>3, <1>4, <1>5, <1>6, <1>7, <1>8, <1>9, <1>10 DEF IInv

(* The refresh interval keeps the invariant. *)
LEMMA IntervalInv ==
  ASSUME IInv, NEW p \in Replicas, IntervalPasses(p)
  PROVE  IInv'
  <1> USE NamesAssumption, BoundsAssumption DEF IntervalPasses, storage, bounds, Unread, Up, Idle
  <1>1. TypeOK'
    BY DEF IInv, TypeOK, Ops, NoOp, Outside
  <1>2. Bounded'
    BY DEF IInv, TypeOK, Bounded
  <1>3. OneProcess'
    BY DEF IInv, TypeOK, OneProcess
  <1>4. OpInCopy'
    BY DEF IInv, TypeOK, OpInCopy, Ops, NoOp
  <1>5. FileIsCopy'
    BY DEF IInv, TypeOK, Bounded, OneProcess, FileIsCopy, Outside
  <1>6. WriterIsCurrent'
    BY DEF IInv, TypeOK, Bounded, WriterIsCurrent, Outside
  <1>7. AcknowledgedLast'
    BY DEF IInv, TypeOK, Bounded, OpInCopy, FileIsCopy, AcknowledgedLast, CopyAgrees, Agrees, Ops, NoOp
  <1>8. CopyAgrees'
    BY DEF IInv, TypeOK, Bounded, OneProcess, OpInCopy, FileIsCopy, AcknowledgedLast, CopyAgrees, Agrees, Ops, NoOp
  <1>9. StampIsTrue'
    BY DEF IInv, TypeOK, Bounded, OneProcess, StampIsTrue
  <1>10. AloneLosesNothing'
    BY DEF IInv, TypeOK, StampIsTrue, AloneLosesNothing
  <1> QED  BY <1>1, <1>2, <1>3, <1>4, <1>5, <1>6, <1>7, <1>8, <1>9, <1>10 DEF IInv

(* The patch of the secret keeps the invariant. *)
LEMMA PatchInv ==
  ASSUME IInv, NEW p \in Replicas, PatchSecret(p)
  PROVE  IInv'
  <1> USE NamesAssumption, BoundsAssumption DEF PatchSecret, Replace, Report, bounds, Unread, Up, Idle
  <1>1. TypeOK'
    BY DEF IInv, TypeOK, Ops, NoOp, Outside
  <1>2. Bounded'
    BY DEF IInv, TypeOK, Bounded
  <1>3. OneProcess'
    BY DEF IInv, TypeOK, OneProcess
  <1>4. OpInCopy'
    BY DEF IInv, TypeOK, OpInCopy, Ops, NoOp
  <1>5. FileIsCopy'
    BY DEF IInv, TypeOK, Bounded, OneProcess, FileIsCopy, Outside
  <1>6. WriterIsCurrent'
    BY DEF IInv, TypeOK, Bounded, WriterIsCurrent, Outside
  <1>a. ~overwritten' => Agrees(memory[p]) /\ basis[p] = version
    <2>1. ~overwritten' => ~overwritten /\ basis[p] = version
      OBVIOUS
    <2> QED  BY <2>1 DEF IInv, CopyAgrees
  <1>b. ~overwritten' => Agrees(memory[p])'
    BY <1>a DEF IInv, TypeOK, OpInCopy, Agrees, Ops, NoOp
  <1>7. AcknowledgedLast'
    BY <1>b DEF AcknowledgedLast, Agrees
  <1>8. CopyAgrees'
    BY <1>b DEF IInv, TypeOK, Bounded, CopyAgrees, Agrees
  <1>9. StampIsTrue'
    BY DEF IInv, TypeOK, Bounded, OneProcess, StampIsTrue
  <1>10. AloneLosesNothing'
    BY DEF IInv, TypeOK, StampIsTrue, AloneLosesNothing
  <1> QED  BY <1>1, <1>2, <1>3, <1>4, <1>5, <1>6, <1>7, <1>8, <1>9, <1>10 DEF IInv

(* The replacement of the file keeps the invariant. *)
LEMMA ReplaceFileInv ==
  ASSUME IInv, NEW p \in Replicas, ReplaceFile(p)
  PROVE  IInv'
  <1> USE NamesAssumption, BoundsAssumption DEF ReplaceFile, Replace, bounds, Unread, Up, Idle
  <1>1. TypeOK'
    BY DEF IInv, TypeOK, Ops, NoOp, Outside
  <1>2. Bounded'
    BY DEF IInv, TypeOK, Bounded
  <1>3. OneProcess'
    BY DEF IInv, TypeOK, OneProcess
  <1>4. OpInCopy'
    BY DEF IInv, TypeOK, OpInCopy, Ops, NoOp
  <1>5. FileIsCopy'
    BY DEF IInv, TypeOK, Bounded, OneProcess, FileIsCopy, Outside
  <1>6. WriterIsCurrent'
    BY DEF IInv, TypeOK, Bounded, WriterIsCurrent, Outside
  <1>a. ~overwritten' => Agrees(memory[p])
    <2>1. ~overwritten' => ~overwritten /\ basis[p] = version
      OBVIOUS
    <2> QED  BY <2>1 DEF IInv, CopyAgrees
  <1>7. AcknowledgedLast'
    BY <1>a DEF AcknowledgedLast, Agrees
  <1>8. CopyAgrees'
    BY <1>a DEF IInv, TypeOK, Bounded, CopyAgrees, Agrees
  <1>9. StampIsTrue'
    BY DEF IInv, TypeOK, Bounded, OneProcess, StampIsTrue
  <1>10. AloneLosesNothing'
    BY DEF IInv, TypeOK, StampIsTrue, AloneLosesNothing
  <1> QED  BY <1>1, <1>2, <1>3, <1>4, <1>5, <1>6, <1>7, <1>8, <1>9, <1>10 DEF IInv

(* A failed write keeps the invariant. *)
LEMMA WriteFailsInv ==
  ASSUME IInv, NEW p \in Replicas, WriteFails(p)
  PROVE  IInv'
  <1> USE NamesAssumption, BoundsAssumption DEF WriteFails, storage, stamps, bounds, Unread, Up, Idle
  <1>1. TypeOK'
    BY DEF IInv, TypeOK, Ops, NoOp, Outside
  <1>2. Bounded'
    BY DEF IInv, TypeOK, Bounded
  <1>3. OneProcess'
    BY DEF IInv, TypeOK, OneProcess
  <1>4. OpInCopy'
    BY DEF IInv, TypeOK, OpInCopy, Ops, NoOp
  <1>5. FileIsCopy'
    BY DEF IInv, TypeOK, Bounded, OneProcess, FileIsCopy, Outside
  <1>6. WriterIsCurrent'
    BY DEF IInv, TypeOK, Bounded, WriterIsCurrent, Outside
  <1>7. AcknowledgedLast'
    BY DEF IInv, TypeOK, Bounded, OpInCopy, FileIsCopy, AcknowledgedLast, CopyAgrees, Agrees, Ops, NoOp
  <1>8. CopyAgrees'
    BY DEF IInv, TypeOK, Bounded, OneProcess, OpInCopy, FileIsCopy, AcknowledgedLast, CopyAgrees, Agrees, Ops, NoOp
  <1>9. StampIsTrue'
    BY DEF IInv, TypeOK, Bounded, OneProcess, StampIsTrue
  <1>10. AloneLosesNothing'
    BY DEF IInv, TypeOK, StampIsTrue, AloneLosesNothing
  <1> QED  BY <1>1, <1>2, <1>3, <1>4, <1>5, <1>6, <1>7, <1>8, <1>9, <1>10 DEF IInv

(* The stat after a load or a write keeps the invariant. *)
LEMMA StatInv ==
  ASSUME IInv, NEW p \in Replicas, StatFile(p)
  PROVE  IInv'
  <1> USE NamesAssumption, BoundsAssumption DEF StatFile, Report, storage, bounds, Unread, Up, Idle
  <1>1. TypeOK'
    BY DEF IInv, TypeOK, Ops, NoOp, Outside
  <1>2. Bounded'
    BY DEF IInv, TypeOK, Bounded
  <1>3. OneProcess'
    BY DEF IInv, TypeOK, OneProcess
  <1>4. OpInCopy'
    BY DEF IInv, TypeOK, OpInCopy, Ops, NoOp
  <1>5. FileIsCopy'
    BY DEF IInv, TypeOK, Bounded, OneProcess, FileIsCopy, Outside
  <1>6. WriterIsCurrent'
    BY DEF IInv, TypeOK, Bounded, WriterIsCurrent, Outside
  <1>7. AcknowledgedLast'
    BY DEF IInv, TypeOK, Bounded, OpInCopy, FileIsCopy, AcknowledgedLast, CopyAgrees, Agrees, Ops, NoOp
  <1>8. CopyAgrees'
    BY DEF IInv, TypeOK, Bounded, OneProcess, OpInCopy, FileIsCopy, AcknowledgedLast, CopyAgrees, Agrees, Ops, NoOp
  <1>9. StampIsTrue'
    BY DEF IInv, TypeOK, Bounded, OneProcess, StampIsTrue
  <1>10. AloneLosesNothing'
    BY DEF IInv, TypeOK, StampIsTrue, AloneLosesNothing
  <1> QED  BY <1>1, <1>2, <1>3, <1>4, <1>5, <1>6, <1>7, <1>8, <1>9, <1>10 DEF IInv

(* A lookup keeps the invariant. *)
LEMMA LookupInv ==
  ASSUME IInv, NEW p \in Replicas, NEW read \in BOOLEAN, Lookup(p, read)
  PROVE  IInv'
  <1> USE NamesAssumption, BoundsAssumption DEF Lookup, Stamp, Stale, Entries, storage, bounds, Unread, Up, Idle
  <1>1. TypeOK'
    BY DEF IInv, TypeOK, Ops, NoOp, Outside
  <1>2. Bounded'
    BY DEF IInv, TypeOK, Bounded
  <1>3. OneProcess'
    BY DEF IInv, TypeOK, OneProcess
  <1>4. OpInCopy'
    BY DEF IInv, TypeOK, OpInCopy, Ops, NoOp
  <1>5. FileIsCopy'
    BY DEF IInv, TypeOK, Bounded, OneProcess, FileIsCopy, Outside
  <1>6. WriterIsCurrent'
    BY DEF IInv, TypeOK, Bounded, WriterIsCurrent, Outside
  <1>7. AcknowledgedLast'
    BY DEF IInv, TypeOK, Bounded, OpInCopy, FileIsCopy, AcknowledgedLast, CopyAgrees, Agrees, Ops, NoOp
  <1>8. CopyAgrees'
    BY DEF IInv, TypeOK, Bounded, OneProcess, OpInCopy, FileIsCopy, AcknowledgedLast, CopyAgrees, Agrees, Ops, NoOp
  <1>9. StampIsTrue'
    BY DEF IInv, TypeOK, Bounded, OneProcess, StampIsTrue
  <1>10. AloneLosesNothing'
    BY DEF IInv, TypeOK, StampIsTrue, AloneLosesNothing
  <1> QED  BY <1>1, <1>2, <1>3, <1>4, <1>5, <1>6, <1>7, <1>8, <1>9, <1>10 DEF IInv

(* An add of a present address keeps the invariant. *)
LEMMA PresentInv ==
  ASSUME IInv, NEW p \in Replicas, NEW i \in Ips, NEW read \in BOOLEAN, AlreadyPresent(p, i, read)
  PROVE  IInv'
  <1> USE NamesAssumption, BoundsAssumption DEF AlreadyPresent, Stamp, Stale, Entries, storage, bounds, Unread, Up, Idle
  <1>1. TypeOK'
    BY DEF IInv, TypeOK, Ops, NoOp, Outside
  <1>2. Bounded'
    BY DEF IInv, TypeOK, Bounded
  <1>3. OneProcess'
    BY DEF IInv, TypeOK, OneProcess
  <1>4. OpInCopy'
    BY DEF IInv, TypeOK, OpInCopy, Ops, NoOp
  <1>5. FileIsCopy'
    BY DEF IInv, TypeOK, Bounded, OneProcess, FileIsCopy, Outside
  <1>6. WriterIsCurrent'
    BY DEF IInv, TypeOK, Bounded, WriterIsCurrent, Outside
  <1>7. AcknowledgedLast'
    BY DEF IInv, TypeOK, Bounded, OpInCopy, FileIsCopy, AcknowledgedLast, CopyAgrees, Agrees, Ops, NoOp
  <1>8. CopyAgrees'
    BY DEF IInv, TypeOK, Bounded, OneProcess, OpInCopy, FileIsCopy, AcknowledgedLast, CopyAgrees, Agrees, Ops, NoOp
  <1>9. StampIsTrue'
    BY DEF IInv, TypeOK, Bounded, OneProcess, StampIsTrue
  <1>10. AloneLosesNothing'
    BY DEF IInv, TypeOK, StampIsTrue, AloneLosesNothing
  <1> QED  BY <1>1, <1>2, <1>3, <1>4, <1>5, <1>6, <1>7, <1>8, <1>9, <1>10 DEF IInv

(* What add_ip, delete_entry and record_rejected_ip have in common. *)
LEMMA ChangeInv ==
  ASSUME IInv, NEW p \in Replicas, NEW read \in BOOLEAN,
         NEW entries \in SUBSET Ips, NEW o \in Ops, Change(p, read, entries, o),
         \A i \in Ips : i # o.ip => (i \in entries <=> i \in Entries(p, read)),
         o.kind = "add" => o.ip \in entries,
         o.kind = "delete" => o.ip \notin entries
  PROVE  IInv'
  <1> USE NamesAssumption, BoundsAssumption DEF Change, Stamp, storage, Unread, Up, Idle
  <1>1. TypeOK'
    <2>1. /\ memory' \in [Replicas -> SUBSET Ips]
          /\ op' \in [Replicas -> Ops]
          /\ pc' \in [Replicas -> {"down", "idle", "write", "stat"}]
      BY DEF IInv, TypeOK
    <2>2. /\ basis' \in [Replicas -> Nat \cup {Unread}]
          /\ seen' \in [Replicas -> Nat \cup {Unread}]
          /\ refreshDue' \in [Replicas -> BOOLEAN]
      BY DEF IInv, TypeOK
    <2>3. promise' \in [Ips -> {"in", "out", "open", "present"}]
      BY DEF IInv, TypeOK
    <2>4. \A q \in Replicas : op'[q] # NoOp => pc'[q] \in {"write", "stat"}
      BY DEF IInv, TypeOK
    <2>5. /\ mode' \in {"filesystem", "k8"}
          /\ stored' \in SUBSET Ips /\ version' \in Nat /\ writer' \in Replicas \cup {Outside}
          /\ overwritten' \in BOOLEAN /\ misread' \in BOOLEAN
          /\ changes' \in Nat /\ crashes' \in Nat
      BY DEF IInv, TypeOK
    <2> QED  BY <2>1, <2>2, <2>3, <2>4, <2>5 DEF TypeOK
  <1>2. Bounded'
    BY DEF IInv, TypeOK, Bounded
  <1>3. OneProcess'
    BY DEF IInv, TypeOK, OneProcess
  <1>4. OpInCopy'
    BY DEF IInv, TypeOK, OpInCopy, Ops, NoOp
  <1>5. FileIsCopy'
    BY DEF IInv, TypeOK, FileIsCopy
  <1>6. WriterIsCurrent'
    BY DEF IInv, TypeOK, WriterIsCurrent
  <1>7. AcknowledgedLast'
    BY DEF IInv, TypeOK, AcknowledgedLast, Agrees
  <1>8. CopyAgrees'
    BY DEF IInv, TypeOK, AcknowledgedLast, CopyAgrees, Agrees, Entries
  <1>9. StampIsTrue'
    <2> SUFFICES ASSUME mode' = "filesystem", ~misread', NEW q \in Replicas
                 PROVE  /\ Up(q)' /\ (version' = 0 \/ seen'[q] = version') => basis'[q] = version'
                        /\ pc'[q] \in {"write", "stat"} => basis'[q] = version'
      BY DEF StampIsTrue
    <2>1. ~misread /\ (Stale(p) => read)
      OBVIOUS
    <2>2. /\ Up(q) /\ (version = 0 \/ seen[q] = version) => basis[q] = version
          /\ pc[q] \in {"write", "stat"} => basis[q] = version
      BY <2>1 DEF IInv, StampIsTrue
    <2>3. CASE q = p
      BY <2>1, <2>2, <2>3 DEF IInv, TypeOK, Stale
    <2>4. CASE q # p
      BY <2>2, <2>4 DEF IInv, TypeOK
    <2> QED  BY <2>3, <2>4
  <1>10. AloneLosesNothing'
    BY DEF IInv, TypeOK, AloneLosesNothing
  <1> QED  BY <1>1, <1>2, <1>3, <1>4, <1>5, <1>6, <1>7, <1>8, <1>9, <1>10 DEF IInv

(* The record of a refused client keeps the invariant. *)
LEMMA RejectedInv ==
  ASSUME IInv, NEW p \in Replicas, NEW read \in BOOLEAN, RecordRejected(p, read)
  PROVE  IInv'
  <1>1. Entries(p, read) \in SUBSET Ips
    BY DEF IInv, TypeOK, Entries
  <1>2. NoOp \in Ops /\ NoOp.kind = "none"
    BY DEF Ops, NoOp
  <1> QED  BY ChangeInv, <1>1, <1>2 DEF RecordRejected

(* An add keeps the invariant. *)
LEMMA AddInv ==
  ASSUME IInv, NEW p \in Replicas, NEW i \in Ips, NEW read \in BOOLEAN, AddIp(p, i, read)
  PROVE  IInv'
  <1> DEFINE o == [kind |-> "add", ip |-> i]
  <1>1. Entries(p, read) \cup {i} \in SUBSET Ips
    BY DEF IInv, TypeOK, Entries
  <1>2. o \in Ops /\ o.kind = "add" /\ o.ip = i
    BY DEF Ops
  <1>3. Change(p, read, Entries(p, read) \cup {i}, o)
    BY DEF AddIp
  <1> HIDE DEF o
  <1> QED  BY ChangeInv, <1>1, <1>2, <1>3

(* A delete keeps the invariant. *)
LEMMA DeleteInv ==
  ASSUME IInv, NEW p \in Replicas, NEW i \in Ips, NEW read \in BOOLEAN,
         DeleteEntry(p, i, read)
  PROVE  IInv'
  <1> DEFINE o == [kind |-> "delete", ip |-> i]
  <1>1. Entries(p, read) \ {i} \in SUBSET Ips
    BY DEF IInv, TypeOK, Entries
  <1>2. o \in Ops /\ o.kind = "delete" /\ o.ip = i
    BY DEF Ops
  <1>3. Change(p, read, Entries(p, read) \ {i}, o)
    BY DEF DeleteEntry
  <1> HIDE DEF o
  <1> QED  BY ChangeInv, <1>1, <1>2, <1>3

(* An edit of the file by hand keeps the invariant. *)
LEMMA EditInv ==
  ASSUME IInv, EditFile
  PROVE  IInv'
  <1> USE NamesAssumption, BoundsAssumption DEF EditFile, Replace, stamps, Unread, Up, Idle
  <1>1. TypeOK'
    BY DEF IInv, TypeOK, Ops, NoOp, Outside
  <1>2. Bounded'
    BY DEF IInv, TypeOK, Bounded
  <1>3. OneProcess'
    BY DEF IInv, TypeOK, OneProcess
  <1>4. OpInCopy'
    BY DEF IInv, TypeOK, OpInCopy, Ops, NoOp
  <1>5. FileIsCopy'
    BY DEF IInv, TypeOK, Bounded, OneProcess, FileIsCopy, Outside
  <1>6. WriterIsCurrent'
    BY DEF IInv, TypeOK, Bounded, WriterIsCurrent, Outside
  <1>7. AcknowledgedLast'
    BY DEF IInv, TypeOK, Bounded, OpInCopy, FileIsCopy, AcknowledgedLast, CopyAgrees, Agrees, Ops, NoOp
  <1>8. CopyAgrees'
    BY DEF IInv, TypeOK, Bounded, OneProcess, OpInCopy, FileIsCopy, AcknowledgedLast, CopyAgrees, Agrees, Ops, NoOp
  <1>9. StampIsTrue'
    <2>1. ~misread' => ~misread /\ \A q \in Replicas : pc[q] \notin {"write", "stat"}
      OBVIOUS
    <2>2. version' # 0 /\ \A q \in Replicas : seen'[q] # version'
      BY DEF IInv, TypeOK, Bounded
    <2> QED  BY <2>1, <2>2 DEF StampIsTrue
  <1>10. AloneLosesNothing'
    BY DEF IInv, TypeOK, StampIsTrue, AloneLosesNothing
  <1> QED  BY <1>1, <1>2, <1>3, <1>4, <1>5, <1>6, <1>7, <1>8, <1>9, <1>10 DEF IInv

-----------------------------------------------------------------------------
(* Every step of the specification keeps the invariant. *)
LEMMA NextInv == IInv /\ [Next]_vars => IInv'
  <1> SUFFICES ASSUME IInv, [Next]_vars PROVE IInv'
    OBVIOUS
  <1>1. CASE Next
    <2>1. CASE EditFile
      BY <2>1, EditInv
    <2>2. ASSUME NEW p \in Replicas,
                 \/ Start(p) \/ Crash(p) \/ IntervalPasses(p) \/ PatchSecret(p)
                 \/ ReplaceFile(p) \/ WriteFails(p) \/ StatFile(p)
          PROVE  IInv'
      BY <2>2, StartInv, CrashInv, IntervalInv, PatchInv, ReplaceFileInv, WriteFailsInv, StatInv
    <2>3. ASSUME NEW p \in Replicas, NEW read \in BOOLEAN,
                 Lookup(p, read) \/ RecordRejected(p, read)
          PROVE  IInv'
      BY <2>3, LookupInv, RejectedInv
    <2>4. ASSUME NEW p \in Replicas, NEW read \in BOOLEAN, NEW i \in Ips,
                 AlreadyPresent(p, i, read) \/ AddIp(p, i, read) \/ DeleteEntry(p, i, read)
          PROVE  IInv'
      BY <2>4, PresentInv, AddInv, DeleteInv
    <2> QED  BY <1>1, <2>1, <2>2, <2>3, <2>4 DEF Next
  <1>2. CASE UNCHANGED vars
    BY <1>2
    DEF vars, storage, stamps, bounds, IInv, TypeOK, Bounded, OneProcess, OpInCopy,
        FileIsCopy, WriterIsCurrent, AcknowledgedLast, CopyAgrees, StampIsTrue,
        AloneLosesNothing, Agrees, Up
  <1> QED  BY <1>1, <1>2

(* The strengthened invariant holds in every reachable state. *)
THEOREM Invariance == Spec => []IInv
  BY InitInv, NextInv, PTL DEF Spec

(* Type correctness; no operation outlives the hold of its lock. *)
THEOREM Typing == Spec => []TypeOK
  <1>1. IInv => TypeOK
    BY DEF IInv
  <1> QED  BY Invariance, <1>1, PTL

(* The storage says of an address what was last reported of it, unless a   *)
(* process wrote over a version it did not know. *)
THEOREM Acknowledged == Spec => []AcknowledgedLast
  <1>1. IInv => AcknowledgedLast
    BY DEF IInv
  <1> QED  BY Invariance, <1>1, PTL

(* A reported change is in force in the process that made it and in every  *)
(* process that has read it. *)
THEOREM InForce == Spec => []TakesEffect
  <1>1. IInv => TakesEffect
    BY DEF IInv, TakesEffect, WriterIsCurrent, CopyAgrees
  <1> QED  BY Invariance, <1>1, PTL

(* One process that can read its file whenever it looks loses no edit. *)
THEOREM NothingLost == Spec => []AloneLosesNothing
  <1>1. IInv => AloneLosesNothing
    BY DEF IInv
  <1> QED  BY Invariance, <1>1, PTL
=============================================================================
