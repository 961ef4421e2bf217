--------------------------- MODULE DisconnectNotice ---------------------------
(***************************************************************************)
(* The notice that offers to keep or to shut down the instance after a     *)
(* session: rdp_proxy/proxy.py counts starts and ends of connections in a  *)
(* generation and lets a thread sleep for 30 seconds before it decides;    *)
(* rdp_proxy/notifications.py sends the message, records its id afterwards *)
(* and deletes it when the next connection is established.  The instances  *)
(* of both for one target, with connections that only start and end.       *)
(***************************************************************************)
EXTENDS Integers, FiniteSets

CONSTANT Conns \* connections, each used once

ASSUME ConnsFinite == IsFiniteSet(Conns)

None == "none"
ASSUME NoneAssumption == None \notin Conns

VARIABLES
    conn,       \* how far a connection has come
    active,     \* _active_connections
    generation, \* _disconnect_notify_generation
    notice,     \* the thread that may announce the end of a connection
    noticed,    \* the generation that thread was given
    shown,      \* connections whose notice is in the chat
    recorded,   \* _telegram_disconnect_messages of the target
    ids,        \* the messages an established connection has yet to delete
    refused,    \* notices the chat did not delete when asked
    last,       \* the connection that ended, if that was the last thing to happen
    overlooked, \* notices on their way when a connection took the ids
    lost        \* notices whose id nobody has: it never came, or was forgotten

vars == <<conn, active, generation, notice, noticed, shown, recorded, ids,
          refused, last, overlooked, lost>>

ConnStages   == {"new", "open", "clearing", "forwarding", "failed", "closed"}
NoticeStages == {"none", "asleep", "decided", "posted", "done", "dropped"}

Open   == {c \in Conns : conn[c] \in {"open", "clearing", "forwarding", "failed"}}
OnTheWay == {c \in Conns : notice[c] \in {"decided", "posted"}}

Init ==
    /\ conn = [c \in Conns |-> "new"]
    /\ active = 0 /\ generation = 0
    /\ notice = [c \in Conns |-> "none"]
    /\ noticed = [c \in Conns |-> 0]
    /\ shown = {} /\ recorded = {} /\ refused = {} /\ lost = {}
    /\ ids = [c \in Conns |-> {}]
    /\ last = None
    /\ overlooked = [c \in Conns |-> {}]

-----------------------------------------------------------------------------
(* The handler counts itself in. *)
Connect(c) ==
    /\ conn[c] = "new"
    /\ conn' = [conn EXCEPT ![c] = "open"]
    /\ active' = active + 1
    /\ generation' = generation + 1
    /\ last' = None
    /\ UNCHANGED <<notice, noticed, shown, recorded, ids, refused, overlooked, lost>>

EstablishFault(c) ==
    /\ conn[c] = "open"
    /\ \A d \in Conns : conn[d] \notin {"clearing", "forwarding", "failed"}
    /\ conn' = [conn EXCEPT ![c] = "clearing"]
    /\ recorded' = {}
    /\ overlooked' = [overlooked EXCEPT ![c] = OnTheWay]
    /\ UNCHANGED <<active, generation, notice, noticed, shown, ids, refused, last, lost>>

(* With the forwarding slot in hand and the upstream connected, the handler *)
(* has the notices of earlier sessions deleted: the ids are taken under the *)
(* lock of the notifier ...                                                *)
Establish(c) ==
    /\ conn[c] = "open"
    /\ \A d \in Conns : conn[d] \notin {"clearing", "forwarding", "failed"}
    /\ conn' = [conn EXCEPT ![c] = "clearing"]
    /\ ids' = [ids EXCEPT ![c] = recorded]
    /\ recorded' = {}
    /\ overlooked' = [overlooked EXCEPT ![c] = OnTheWay]
    /\ UNCHANGED <<active, generation, notice, noticed, shown, refused, last, lost>>

(* ... and deleted one by one.  An id whose deletion fails is forgotten. *)
DeleteNotice(c) ==
    /\ conn[c] = "clearing"
    /\ \E d \in ids[c] :
         /\ ids' = [ids EXCEPT ![c] = @ \ {d}]
         /\ \/ shown' = shown \ {d} /\ UNCHANGED refused
            \/ refused' = refused \cup {d} /\ UNCHANGED shown
    /\ UNCHANGED <<conn, active, generation, notice, noticed, recorded, last, overlooked, lost>>

(* A deletion may raise what the notifier does not catch, carried out or    *)
(* not: the handler goes to its finally block, and the ids it took and has *)
(* not come to are gone with it.                                           *)
DeletionRaises(c) ==
    /\ conn[c] = "clearing"
    /\ \E d \in ids[c] : shown' \in {shown, shown \ {d}}
    /\ conn' = [conn EXCEPT ![c] = "failed"]
    /\ lost' = lost \cup ids[c]
    /\ ids' = [ids EXCEPT ![c] = {}]
    /\ UNCHANGED <<active, generation, notice, noticed, recorded, refused, last, overlooked>>

Forward(c) ==
    /\ conn[c] = "clearing" /\ ids[c] = {}
    /\ conn' = [conn EXCEPT ![c] = "forwarding"]
    /\ UNCHANGED <<active, generation, notice, noticed, shown, recorded, ids, refused,
                   last, overlooked, lost>>

(* The handler's finally block: it counts itself out and, after a real     *)
(* session, starts the thread of the notice.  A short session without much *)
(* traffic, or one nobody approved, is not announced.                      *)
EndUncountedFault(c) ==
    /\ conn[c] \in {"open", "failed", "forwarding"}
    /\ active' = IF conn[c] = "forwarding" THEN active - 1 ELSE active
    /\ generation' = generation + 1
    /\ noticed' = [noticed EXCEPT ![c] = generation']
    /\ notice' = [notice EXCEPT ![c] = IF conn[c] = "forwarding" THEN "asleep" ELSE "none"]
    /\ conn' = [conn EXCEPT ![c] = "closed"]
    /\ last' = c
    /\ UNCHANGED <<shown, recorded, ids, refused, overlooked, lost>>

End(c) ==
    /\ conn[c] \in {"open", "failed", "forwarding"}
    /\ active' = IF active > 0 THEN active - 1 ELSE 0
    /\ generation' = generation + 1
    /\ noticed' = [noticed EXCEPT ![c] = generation']
    /\ notice' \in {notice} \cup IF conn[c] = "forwarding"
                                   THEN {[notice EXCEPT ![c] = "asleep"]} ELSE {}
    /\ conn' = [conn EXCEPT ![c] = "closed"]
    /\ last' = c
    /\ UNCHANGED <<shown, recorded, ids, refused, overlooked, lost>>

DecideFault(c) ==
    /\ notice[c] = "asleep"
    /\ notice' = [notice EXCEPT ![c] = IF active > 0 THEN "dropped" ELSE "decided"]
    /\ UNCHANGED <<conn, active, generation, noticed, shown, recorded, ids, refused,
                   last, overlooked, lost>>

DecideNeverFault(c) ==
    /\ notice[c] = "asleep"
    /\ notice' = [notice EXCEPT ![c] =
                    IF active > 0 \/ generation # noticed[c] - 1 THEN "dropped" ELSE "decided"]
    /\ UNCHANGED <<conn, active, generation, noticed, shown, recorded, ids, refused,
                   last, overlooked, lost>>

(* The thread wakes after the 30 seconds and decides under _state_lock. *)
Decide(c) ==
    /\ notice[c] = "asleep"
    /\ notice' = [notice EXCEPT ![c] =
                    IF active > 0 \/ generation # noticed[c] THEN "dropped" ELSE "decided"]
    /\ UNCHANGED <<conn, active, generation, noticed, shown, recorded, ids, refused,
                   last, overlooked, lost>>

(* Without a lock, it makes the links and sends the message.  The id is     *)
(* known only when the chat's answer comes and has it, and no other channel *)
(* raises after it; without it the notice may be in the chat or not.       *)
Post(c) ==
    /\ notice[c] = "decided"
    /\ \/ /\ notice' = [notice EXCEPT ![c] = "posted"]
          /\ shown' = shown \cup {c}
          /\ UNCHANGED lost
       \/ /\ notice' = [notice EXCEPT ![c] = "done"]
          /\ \/ UNCHANGED <<shown, lost>>
             \/ shown' = shown \cup {c} /\ lost' = lost \cup {c}
    /\ UNCHANGED <<conn, active, generation, noticed, recorded, ids, refused, last, overlooked>>

RecordFault(c) ==
    /\ notice[c] = "posted"
    /\ notice' = [notice EXCEPT ![c] = "done"]
    /\ recorded' = {c}
    /\ UNCHANGED <<conn, active, generation, noticed, shown, ids, refused, last, overlooked, lost>>

Record(c) ==
    /\ notice[c] = "posted"
    /\ notice' = [notice EXCEPT ![c] = "done"]
    /\ recorded' = recorded \cup {c}
    /\ UNCHANGED <<conn, active, generation, noticed, shown, ids, refused, last, overlooked, lost>>

Handler(c) == \/ Establish(c) \/ DeleteNotice(c) \/ DeletionRaises(c)
              \/ Forward(c) \/ End(c)
Announce(c) == Decide(c) \/ Post(c) \/ Record(c)

Next == \E c \in Conns : Connect(c) \/ Handler(c) \/ Announce(c)

Spec == Init /\ [][Next]_vars

(* Threads are scheduled and calls to the chat return; clients need neither *)
(* come nor leave.                                                         *)
FairSpec == Spec /\ \A c \in Conns :
                      /\ WF_vars(DeleteNotice(c)) /\ WF_vars(Forward(c))
                      /\ WF_vars(Announce(c))

-----------------------------------------------------------------------------
(* Every variable has its type, and the counter is the number of open      *)
(* connections.                                                            *)
TypeOK ==
    /\ conn \in [Conns -> ConnStages]
    /\ active \in Nat /\ generation \in Nat
    /\ notice \in [Conns -> NoticeStages]
    /\ noticed \in [Conns -> Nat]
    /\ shown \subseteq Conns /\ recorded \subseteq Conns /\ refused \subseteq Conns
    /\ lost \subseteq Conns
    /\ ids \in [Conns -> SUBSET Conns]
    /\ last \in Conns \cup {None}
    /\ overlooked \in [Conns -> SUBSET Conns]
    /\ active = Cardinality(Open)

(* A notice is decided on only while its connection was the last to start  *)
(* or end and none is open: two sessions are never announced for one       *)
(* quiet period, and no session that somebody has come back to.            *)
OnlyLastSessionAnnounced ==
    [][\A c \in Conns : notice[c] = "asleep" /\ notice'[c] = "decided"
                          => last = c /\ Open = {}]_vars

(* While a session is forwarded the chat shows no notice of an earlier one  *)
(* whose id came back, but those the chat did not delete, those that were  *)
(* on their way when the session took the ids, and those whose id a failed *)
(* handler had taken before it.                                            *)
SessionClearsNotices ==
    \A c \in Conns : conn[c] = "forwarding" => shown \subseteq refused \cup overlooked[c] \cup lost

(* Whoever has the id of a notice passes it on: unless the chat refuses, or *)
(* a deletion raises, a notice whose id came back is recorded, about to be,*)
(* or being deleted, so that the next session finds it.                    *)
NoNoticeForgotten ==
    \A d \in shown : \/ d \in recorded \/ notice[d] = "posted" \/ d \in refused \/ d \in lost
                     \/ \E c \in Conns : conn[c] = "clearing" /\ d \in ids[c]

(* A real session that was the last to end is announced (the chat may not  *)
(* take the message; nobody sends it again), or cannot be: the             *)
(* filters swallow it only if another connection starts or ends, or one is *)
(* still open.  An older one that waits for its click is enough for that.  *)
LastSessionIsAnnounced ==
    \A c \in Conns :
      notice[c] = "asleep" ~> notice[c] = "done" \/ last # c \/ Open # {}

=============================================================================
