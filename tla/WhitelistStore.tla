---------------------------- MODULE WhitelistStore ----------------------------
(***************************************************************************)
(* rdp_proxy/whitelist.py: a copy of the whitelist in the memory of every  *)
(* process, and the file or the Kubernetes secret it is kept in.  An       *)
(* operation holds the lock of its process: it refreshes the copy, changes *)
(* it and writes the whole of it back.  A secret may be shared by several  *)
(* replicas, each with a lock of its own; a file has one process, and      *)
(* hands that replace it from outside.  Reads and writes may fail, and a   *)
(* process may crash between any two steps.                                *)
(* The list of rejected addresses is left out, but not the writes that it  *)
(* causes: each refused client has the whole whitelist written.            *)
(***************************************************************************)
EXTENDS Integers

CONSTANTS Replicas,   \* processes that share the storage
          Ips,
          MaxChanges, \* bound: operations that write
          MaxCrashes  \* bound: crashes

ASSUME BoundsAssumption == MaxChanges \in Nat /\ MaxCrashes \in Nat

Unread  == -1         \* no version: the copy was never read, or has no stamp
Outside == "outside"  \* who replaces the file by hand
NoIp    == "none"
ASSUME NamesAssumption == Outside \notin Replicas /\ NoIp \notin Ips

VARIABLES
    mode,        \* "filesystem" or "k8"
    stored,      \* the entries in the storage
    version,     \* counts the writes that reached it; the file's time stamp
    writer,      \* who made the last of them
    memory,      \* _entries_by_cipher
    seen,        \* _last_loaded_mtime_ns
    refreshDue,  \* the refresh interval of the secret has passed
    basis,       \* the version the copy in memory was read from or written as
    pc,          \* what the operation that holds the lock has still to do
    op,          \* that operation
    promise,     \* the last report about an address
    overwritten, \* a write replaced a version its writer did not know
    misread,     \* a file could not be read, or was edited before its stat
    changes, crashes \* how many there were

storage == <<stored, version, writer>>
stamps  == <<seen, refreshDue, basis>>
bounds  == <<changes, crashes>>
vars    == <<mode, storage, memory, stamps, pc, op, promise, overwritten, misread, bounds>>

NoOp == [kind |-> "none", ip |-> NoIp]
Ops  == {NoOp} \cup [kind : {"add", "delete"}, ip : Ips]
Up(p)   == pc[p] # "down"
Idle(p) == pc[p] = "idle"

Init ==
    /\ mode \in {"filesystem", "k8"}
    /\ stored = {} /\ version = 0 /\ writer = Outside
    /\ memory = [p \in Replicas |-> {}]
    /\ seen = [p \in Replicas |-> Unread]
    /\ basis = [p \in Replicas |-> Unread]
    /\ refreshDue = [p \in Replicas |-> TRUE]
    /\ pc = [p \in Replicas |-> "down"]
    /\ op = [p \in Replicas |-> NoOp]
    /\ promise = [i \in Ips |-> "out"]
    /\ overwritten = FALSE /\ misread = FALSE
    /\ changes = 0 /\ crashes = 0

-----------------------------------------------------------------------------
(* Fault: the time stamp is taken even if the load failed. *)
StartFault(p) ==
    /\ pc[p] = "down"
    /\ mode = "filesystem" => \A q \in Replicas : ~Up(q)
    /\ refreshDue' = [refreshDue EXCEPT ![p] = TRUE]
    /\ \E read \in BOOLEAN :
         /\ mode = "filesystem" /\ version = 0 => read
         /\ memory' = [memory EXCEPT ![p] = IF read THEN stored ELSE {}]
         /\ basis' = [basis EXCEPT ![p] = IF read THEN version ELSE Unread]
         /\ pc' = [pc EXCEPT ![p] = IF mode = "filesystem" THEN "stat" ELSE "idle"]
    /\ seen' = [seen EXCEPT ![p] = Unread]
    /\ UNCHANGED <<mode, storage, op, promise, overwritten, misread, bounds>>

(* The constructor reads the storage; a failure leaves the copy empty.  A  *)
(* missing file (version 0) reads as an empty list.  The time stamp of a   *)
(* file is taken after its text was read, and only if it was.              *)
Start(p) ==
    /\ pc[p] = "down"
    /\ mode = "filesystem" => \A q \in Replicas : ~Up(q)
    /\ refreshDue' = [refreshDue EXCEPT ![p] = TRUE]
    /\ \E read \in BOOLEAN :
         /\ mode = "filesystem" /\ version = 0 => read
         /\ memory' = [memory EXCEPT ![p] = IF read THEN stored ELSE {}]
         /\ basis' = [basis EXCEPT ![p] = IF read THEN version ELSE Unread]
         /\ pc' = [pc EXCEPT ![p] = IF read /\ mode = "filesystem" THEN "stat" ELSE "idle"]
    /\ seen' = [seen EXCEPT ![p] = Unread]
    /\ UNCHANGED <<mode, storage, op, promise, overwritten, misread, bounds>>

(* What a process had in memory is gone; so is what it was about to report. *)
Crash(p) ==
    /\ Up(p) /\ crashes < MaxCrashes
    /\ crashes' = crashes + 1
    /\ pc' = [pc EXCEPT ![p] = "down"]
    /\ op' = [op EXCEPT ![p] = NoOp]
    /\ memory' = [memory EXCEPT ![p] = {}]
    /\ seen' = [seen EXCEPT ![p] = Unread]
    /\ basis' = [basis EXCEPT ![p] = Unread]
    /\ UNCHANGED <<mode, storage, refreshDue, promise, overwritten, misread, changes>>

(* The three seconds between two refreshes of a secret pass. *)
IntervalPasses(p) ==
    /\ mode = "k8" /\ Up(p) /\ ~refreshDue[p]
    /\ refreshDue' = [refreshDue EXCEPT ![p] = TRUE]
    /\ UNCHANGED <<mode, storage, memory, seen, basis, pc, op, promise, overwritten, misread, bounds>>

(* Fault: the refresh goes by the stamp of the local file in both modes. *)
StaleFault(p) == version > 0 /\ seen[p] # version /\ mode = "filesystem"

(* Whether _refresh_if_needed_locked looks at the storage: a file that is  *)
(* missing is not looked at, whatever the copy holds.                      *)
Stale(p) ==
    IF mode = "filesystem" THEN version > 0 /\ seen[p] # version ELSE refreshDue[p]

(* Fault: the refresh stamps the copy and does not adopt what it read. *)
EntriesFault(p, read) == memory[p]

(* The entries an operation works on: it may read a stale copy anew, and   *)
(* when the stat or the read fails it goes on with the old one.  The stamp *)
(* of a file and its text are taken together: a change between the two     *)
(* only has the next refresh read again.                                   *)
Entries(p, read) == IF read THEN stored ELSE memory[p]

Stamp(p, read) ==
    /\ read => Stale(p)
    /\ basis' = [basis EXCEPT ![p] = IF read THEN version ELSE @]
    /\ seen' = [seen EXCEPT ![p] = IF read /\ mode = "filesystem" THEN version ELSE @]
    /\ refreshDue' = [refreshDue EXCEPT ![p] = IF read /\ mode = "k8" THEN FALSE ELSE @]
    /\ misread' = (misread \/ (mode = "filesystem" /\ Stale(p) /\ ~read))

(* contains, the two listings, and a delete that finds nothing. *)
Lookup(p, read) ==
    /\ Idle(p)
    /\ Stamp(p, read)
    /\ memory' = [memory EXCEPT ![p] = Entries(p, read)]
    /\ UNCHANGED <<mode, storage, pc, op, promise, overwritten, bounds>>

(* add_ip of an address that the copy holds: reported, nothing written. *)
AlreadyPresent(p, i, read) ==
    /\ Idle(p) /\ i \in Entries(p, read)
    /\ Stamp(p, read)
    /\ memory' = [memory EXCEPT ![p] = Entries(p, read)]
    /\ promise' = [promise EXCEPT ![i] = IF @ = "in" THEN "in" ELSE "present"]
    /\ UNCHANGED <<mode, storage, pc, op, overwritten, bounds>>

(* Refresh and change the copy; the write is still to come. *)
Change(p, read, entries, o) ==
    /\ Idle(p) /\ changes < MaxChanges
    /\ changes' = changes + 1
    /\ Stamp(p, read)
    /\ memory' = [memory EXCEPT ![p] = entries]
    /\ pc' = [pc EXCEPT ![p] = "write"]
    /\ op' = [op EXCEPT ![p] = o]
    /\ promise' = [i \in Ips |-> IF i = o.ip THEN "open" ELSE promise[i]]
    /\ UNCHANGED <<mode, storage, overwritten, crashes>>

AddIp(p, i, read) ==
    /\ i \notin Entries(p, read)
    /\ Change(p, read, Entries(p, read) \cup {i}, [kind |-> "add", ip |-> i])

DeleteEntry(p, i, read) ==
    /\ i \in Entries(p, read)
    /\ Change(p, read, Entries(p, read) \ {i}, [kind |-> "delete", ip |-> i])

(* record_rejected_ip, and add_ip of an entry in the old format. *)
RecordRejected(p, read) == Change(p, read, Entries(p, read), NoOp)

-----------------------------------------------------------------------------
(* The whole copy replaces what is stored. *)
Replace(p, entries) ==
    /\ stored' = entries
    /\ version' = version + 1
    /\ writer' = p

(* What the caller is told once the write is done.  A file that was edited *)
(* since then is what the edit made it.                                    *)
Report(p) ==
    /\ promise' = [i \in Ips |->
                     IF i # op[p].ip \/ writer' # p THEN promise[i]
                     ELSE IF op[p].kind = "add" THEN "in" ELSE "out"]
    /\ op' = [op EXCEPT ![p] = NoOp]
    /\ pc' = [pc EXCEPT ![p] = "idle"]

(* The secret is patched, without regard to what it holds; the answer may  *)
(* be lost on its way back.                                                *)
PatchSecret(p) ==
    /\ mode = "k8" /\ pc[p] = "write"
    /\ Replace(p, memory[p])
    /\ basis' = [basis EXCEPT ![p] = version + 1]
    /\ overwritten' = (overwritten \/ basis[p] # version)
    /\ \/ Report(p)
       \/ /\ op' = [op EXCEPT ![p] = NoOp]
          /\ pc' = [pc EXCEPT ![p] = "idle"]
          /\ UNCHANGED promise
    /\ UNCHANGED <<mode, memory, seen, refreshDue, misread, bounds>>

(* The temporary file takes the place of the file. *)
ReplaceFile(p) ==
    /\ mode = "filesystem" /\ pc[p] = "write"
    /\ Replace(p, memory[p])
    /\ basis' = [basis EXCEPT ![p] = version + 1]
    /\ overwritten' = (overwritten \/ basis[p] # version)
    /\ pc' = [pc EXCEPT ![p] = "stat"]
    /\ UNCHANGED <<mode, memory, seen, refreshDue, op, promise, misread, bounds>>

(* Fault: the operation is not ended when the write raises. *)
WriteFailsUnendedFault(p) ==
    /\ pc[p] = "write"
    /\ pc' = [pc EXCEPT ![p] = "idle"]
    /\ UNCHANGED <<mode, storage, memory, stamps, op, promise, overwritten, misread, bounds>>

(* Fault: the exception of a write is caught and success reported. *)
WriteFailsFault(p) ==
    /\ pc[p] = "write"
    /\ pc' = [pc EXCEPT ![p] = "idle"]
    /\ op' = [op EXCEPT ![p] = NoOp]
    /\ promise' = [i \in Ips |->
                     IF i # op[p].ip THEN promise[i]
                     ELSE IF op[p].kind = "add" THEN "in" ELSE "out"]
    /\ UNCHANGED <<mode, storage, memory, stamps, overwritten, misread, bounds>>

(* The write raises: the storage is as it was, the copy stays changed. *)
WriteFails(p) ==
    /\ pc[p] = "write"
    /\ pc' = [pc EXCEPT ![p] = "idle"]
    /\ op' = [op EXCEPT ![p] = NoOp]
    /\ UNCHANGED <<mode, storage, memory, stamps, promise, overwritten, misread, bounds>>

(* After a load or a replacement: the stamp of the file as it is by now.  *)
(* An error leaves none; a missing file has none either way, since Stale   *)
(* does not look at it.                                                    *)
StatFile(p) ==
    /\ pc[p] = "stat"
    /\ UNCHANGED storage
    /\ \E s \in {version, Unread} : seen' = [seen EXCEPT ![p] = s]
    /\ Report(p)
    /\ UNCHANGED <<mode, memory, refreshDue, basis, overwritten, misread, bounds>>

(* The file is edited by hand or restored from a copy. *)
EditFile ==
    /\ mode = "filesystem" /\ changes < MaxChanges
    /\ changes' = changes + 1
    /\ \E entries \in SUBSET Ips :
         /\ Replace(Outside, entries)
         /\ promise' = [i \in Ips |-> IF i \in entries THEN "in" ELSE "out"]
    /\ misread' = (misread \/ \E p \in Replicas : pc[p] \in {"write", "stat"})
    /\ UNCHANGED <<mode, memory, stamps, pc, op, overwritten, crashes>>

-----------------------------------------------------------------------------
Next ==
    \/ EditFile
    \/ \E p \in Replicas :
         \/ Start(p)
         \/ Crash(p)
         \/ IntervalPasses(p)
         \/ PatchSecret(p)
         \/ ReplaceFile(p)
         \/ WriteFails(p)
         \/ StatFile(p)
         \/ \E read \in BOOLEAN :
              \/ Lookup(p, read)
              \/ RecordRejected(p, read)
              \/ \E i \in Ips :
                   \/ AlreadyPresent(p, i, read)
                   \/ AddIp(p, i, read)
                   \/ DeleteEntry(p, i, read)

Spec == Init /\ [][Next]_vars

(* Processes are restarted, threads run on, the interval passes; clients   *)
(* keep connecting, and a storage that is asked again and again answers    *)
(* once in a while.                                                        *)
Fairness ==
    \A p \in Replicas :
      /\ WF_vars(Start(p))
      /\ WF_vars(IntervalPasses(p))
      /\ WF_vars(PatchSecret(p) \/ ReplaceFile(p) \/ WriteFails(p))
      /\ WF_vars(StatFile(p))
      /\ SF_vars(Lookup(p, TRUE))

FairSpec == Spec /\ Fairness

-----------------------------------------------------------------------------
(* Every variable has its type, and an idle process has no operation left. *)
TypeOK ==
    /\ mode \in {"filesystem", "k8"}
    /\ stored \in SUBSET Ips /\ version \in Nat /\ writer \in Replicas \cup {Outside}
    /\ memory \in [Replicas -> SUBSET Ips]
    /\ seen \in [Replicas -> Nat \cup {Unread}]
    /\ basis \in [Replicas -> Nat \cup {Unread}]
    /\ refreshDue \in [Replicas -> BOOLEAN]
    /\ pc \in [Replicas -> {"down", "idle", "write", "stat"}]
    /\ op \in [Replicas -> Ops]
    /\ promise \in [Ips -> {"in", "out", "open", "present"}]
    /\ \A p \in Replicas : op[p] # NoOp => pc[p] \in {"write", "stat"}
    /\ overwritten \in BOOLEAN /\ misread \in BOOLEAN
    /\ changes \in Nat /\ crashes \in Nat

Agrees(entries) ==
    \A i \in Ips : /\ promise[i] = "in" => i \in entries
                   /\ promise[i] = "out" => i \notin entries

(* What was last reported of an address, saved or deleted, is what the     *)
(* storage says of it, through failed writes, failed reads, lost answers   *)
(* and restarts, unless some process wrote over a version it did not know  *)
(* (whitelist.py:485: the whole copy is written, not the change).          *)
AcknowledgedLast == ~overwritten => Agrees(stored)

(* A change takes effect at once (README.md:194): the process that made    *)
(* the last one has it in its copy whatever refreshes follow, and every    *)
(* process that has read the current version answers by what was reported. *)
TakesEffect ==
    \A p \in Replicas :
      /\ writer = p /\ basis[p] # Unread => basis[p] = version
      /\ basis[p] = version /\ ~overwritten => Agrees(memory[p])

(* A process that is alone with its file, and can read it whenever it      *)
(* looks, never writes over what it does not know: neither a failed load   *)
(* at the start nor a failed write or stat makes it lose an edit.          *)
AloneLosesNothing == mode = "filesystem" /\ ~misread => ~overwritten

(* Once changes stop every replica answers from the secret as it is        *)
(* (README.md:93), also one whose last write failed or whose load did.     *)
ReplicasConverge ==
    mode = "k8" => <>[](\A p \in Replicas : Idle(p) /\ memory[p] = stored)

(* An address reported as already present is in the storage.  Does not     *)
(* hold: after a write that failed the copy is ahead of it                 *)
(* (whitelist.py:333-342), and a second request finds the address there.   *)
PresentIsStored == ~overwritten => \A i \in Ips : promise[i] = "present" => i \in stored

=============================================================================
