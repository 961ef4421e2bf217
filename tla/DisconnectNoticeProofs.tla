------------------------ MODULE DisconnectNoticeProofs ------------------------
(***************************************************************************)
(* The safety properties of DisconnectNotice for any finite set of         *)
(* connections.                                                            *)
(***************************************************************************)
EXTENDS DisconnectNotice, FiniteSetTheorems, TLAPS

Established == {"clearing", "forwarding"}

(* The generation tells the last thing that happened: only the connection  *)
(* that ended last, with nothing after it, has the present one.            *)
GenerationInv ==
    \A c \in Conns :
      /\ noticed[c] <= generation
      /\ noticed[c] = generation /\ conn[c] = "closed" => last = c
      /\ notice[c] # "none" => conn[c] = "closed"

(* One connection at a time is established, and what was on its way when   *)
(* it took the ids is all that comes to the chat while it lasts.  A session *)
(* that failed meanwhile passes its ids to nobody: they are lost.          *)
SessionInv ==
    /\ \A c, d \in Conns : conn[c] \in Established /\ conn[d] \in Established => c = d
    /\ \A c \in Conns :
         /\ conn[c] = "forwarding" => ids[c] = {}
         /\ conn[c] \in Established =>
              /\ OnTheWay \subseteq overlooked[c]
              /\ shown \subseteq refused \cup overlooked[c] \cup lost \cup ids[c]

IInv == TypeOK /\ GenerationInv /\ SessionInv /\ NoNoticeForgotten

-----------------------------------------------------------------------------
(* The open connections can be counted. *)
LEMMA OpenFinite == IsFiniteSet(Open) /\ Cardinality(Open) \in Nat
<1>1. Open \subseteq Conns
  BY DEF Open
<1> QED
  BY <1>1, ConnsFinite, FS_Subset, FS_CardinalityType

(* A count of zero means that nobody is connected. *)
LEMMA NobodyOpen == TypeOK /\ ~(active > 0) => Open = {}
  BY OpenFinite, FS_EmptySet DEF TypeOK

(* With a connection open the counter is positive. *)
LEMMA SomebodyOpen == ASSUME TypeOK, NEW c \in Open PROVE active > 0
  BY OpenFinite, FS_EmptySet DEF TypeOK

(* The initial states satisfy the invariant. *)
LEMMA InitIInv == Init => IInv
<1> SUFFICES ASSUME Init PROVE IInv
  OBVIOUS
<1>1. Open = {}
  BY DEF Init, Open
<1>2. TypeOK
  BY <1>1, FS_EmptySet DEF Init, TypeOK, ConnStages, NoticeStages
<1>3. GenerationInv /\ SessionInv /\ NoNoticeForgotten
  BY DEF Init, GenerationInv, SessionInv, NoNoticeForgotten, Established
<1> QED
  BY <1>2, <1>3 DEF IInv

-----------------------------------------------------------------------------
(* One step per action. *)
LEMMA NextIInv == IInv /\ [Next]_vars => IInv'
<1> SUFFICES ASSUME IInv, [Next]_vars PROVE IInv'
  OBVIOUS
<1> USE NoneAssumption DEF IInv, Established
<1>1. ASSUME NEW c \in Conns, Connect(c) PROVE IInv'
  <2>1. TypeOK'
    <3>1. Open' = Open \cup {c} /\ c \notin Open
      BY <1>1 DEF Connect, Open, TypeOK
    <3>2. active' = Cardinality(Open')
      BY <1>1, <3>1, OpenFinite, FS_AddElement DEF Connect, TypeOK
    <3> QED
      BY <1>1, <3>2 DEF Connect, TypeOK, ConnStages, NoticeStages
  <2>2. GenerationInv'
    BY <1>1 DEF Connect, GenerationInv, TypeOK
  <2>3. SessionInv'
    BY <1>1 DEF Connect, SessionInv, OnTheWay, TypeOK
  <2>4. NoNoticeForgotten'
    BY <1>1 DEF Connect, NoNoticeForgotten, TypeOK, GenerationInv
  <2> QED
    BY <2>1, <2>2, <2>3, <2>4
<1>2. ASSUME NEW c \in Conns, Establish(c) PROVE IInv'
  <2>1. TypeOK'
    <3>1. Open' = Open
      BY <1>2 DEF Establish, Open, TypeOK
    <3> QED
      BY <1>2, <3>1 DEF Establish, TypeOK, ConnStages, NoticeStages, OnTheWay
  <2>2. GenerationInv'
    BY <1>2 DEF Establish, GenerationInv, TypeOK
  <2>3. SessionInv'
    BY <1>2 DEF Establish, SessionInv, OnTheWay, TypeOK, NoNoticeForgotten
  <2>4. NoNoticeForgotten'
    BY <1>2 DEF Establish, NoNoticeForgotten, TypeOK, SessionInv, GenerationInv
  <2> QED
    BY <2>1, <2>2, <2>3, <2>4
<1>3. ASSUME NEW c \in Conns, DeleteNotice(c) PROVE IInv'
  <2>1. TypeOK'
    <3>1. Open' = Open
      BY <1>3 DEF DeleteNotice, Open, TypeOK
    <3> QED
      BY <1>3, <3>1 DEF DeleteNotice, TypeOK, ConnStages, NoticeStages
  <2>2. GenerationInv'
    BY <1>3 DEF DeleteNotice, GenerationInv, TypeOK
  <2>3. SessionInv'
    BY <1>3 DEF DeleteNotice, SessionInv, OnTheWay, TypeOK
  <2>4. NoNoticeForgotten'
    BY <1>3 DEF DeleteNotice, NoNoticeForgotten, TypeOK, SessionInv, GenerationInv
  <2> QED
    BY <2>1, <2>2, <2>3, <2>4
<1>4. ASSUME NEW c \in Conns, DeletionRaises(c) PROVE IInv'
  <2>1. TypeOK'
    <3>1. Open' = Open
      BY <1>4 DEF DeletionRaises, Open, TypeOK
    <3> QED
      BY <1>4, <3>1 DEF DeletionRaises, TypeOK, ConnStages, NoticeStages
  <2>2. GenerationInv'
    BY <1>4 DEF DeletionRaises, GenerationInv, TypeOK
  <2>3. SessionInv'
    BY <1>4 DEF DeletionRaises, SessionInv, OnTheWay, TypeOK
  <2>4. NoNoticeForgotten'
    BY <1>4 DEF DeletionRaises, NoNoticeForgotten, TypeOK, SessionInv
  <2> QED
    BY <2>1, <2>2, <2>3, <2>4
<1>5. ASSUME NEW c \in Conns, Forward(c) PROVE IInv'
  <2>1. TypeOK'
    <3>1. Open' = Open
      BY <1>5 DEF Forward, Open, TypeOK
    <3> QED
      BY <1>5, <3>1 DEF Forward, TypeOK, ConnStages, NoticeStages
  <2>2. GenerationInv'
    BY <1>5 DEF Forward, GenerationInv, TypeOK
  <2>3. SessionInv'
    BY <1>5 DEF Forward, SessionInv, OnTheWay, TypeOK
  <2>4. NoNoticeForgotten'
    BY <1>5 DEF Forward, NoNoticeForgotten, TypeOK, SessionInv, GenerationInv
  <2> QED
    BY <2>1, <2>2, <2>3, <2>4
<1>6. ASSUME NEW c \in Conns, End(c) PROVE IInv'
  <2>1. TypeOK'
    <3>1. Open' = Open \ {c} /\ c \in Open
      BY <1>6 DEF End, Open, TypeOK
    <3>2. active' = Cardinality(Open')
      BY <1>6, <3>1, OpenFinite, FS_RemoveElement, SomebodyOpen DEF End, TypeOK
    <3> QED
      BY <1>6, <3>2 DEF End, TypeOK, ConnStages, NoticeStages
  <2>2. GenerationInv'
    BY <1>6 DEF End, GenerationInv, TypeOK
  <2>3. SessionInv'
    BY <1>6 DEF End, SessionInv, OnTheWay, TypeOK
  <2>4. NoNoticeForgotten'
    BY <1>6 DEF End, NoNoticeForgotten, TypeOK, GenerationInv
  <2> QED
    BY <2>1, <2>2, <2>3, <2>4
<1>7. ASSUME NEW c \in Conns, Decide(c) PROVE IInv'
  <2>1. TypeOK'
    <3>1. Open' = Open
      BY <1>7 DEF Decide, Open, TypeOK
    <3> QED
      BY <1>7, <3>1 DEF Decide, TypeOK, ConnStages, NoticeStages
  <2>2. GenerationInv'
    BY <1>7 DEF Decide, GenerationInv, TypeOK
  <2>3. SessionInv'
    <3>1. ASSUME NEW d \in Conns, conn[d] \in Established PROVE notice'[c] = "dropped"
      <4>1. active > 0
        BY <3>1, SomebodyOpen DEF Open
      <4> QED
        BY <1>7, <4>1 DEF Decide, TypeOK
    <3> QED
      BY <1>7, <3>1 DEF Decide, SessionInv, OnTheWay, TypeOK
  <2>4. NoNoticeForgotten'
    BY <1>7 DEF Decide, NoNoticeForgotten, TypeOK, GenerationInv
  <2> QED
    BY <2>1, <2>2, <2>3, <2>4
<1>8. ASSUME NEW c \in Conns, Post(c) PROVE IInv'
  <2>1. TypeOK'
    <3>1. Open' = Open
      BY <1>8 DEF Post, Open, TypeOK
    <3> QED
      BY <1>8, <3>1 DEF Post, TypeOK, ConnStages, NoticeStages
  <2>2. GenerationInv'
    BY <1>8 DEF Post, GenerationInv, TypeOK
  <2>3. SessionInv'
    BY <1>8 DEF Post, SessionInv, OnTheWay, TypeOK
  <2>4. NoNoticeForgotten'
    BY <1>8 DEF Post, NoNoticeForgotten, TypeOK, GenerationInv
  <2> QED
    BY <2>1, <2>2, <2>3, <2>4
<1>9. ASSUME NEW c \in Conns, Record(c) PROVE IInv'
  <2>1. TypeOK'
    <3>1. Open' = Open
      BY <1>9 DEF Record, Open, TypeOK
    <3> QED
      BY <1>9, <3>1 DEF Record, TypeOK, ConnStages, NoticeStages
  <2>2. GenerationInv'
    BY <1>9 DEF Record, GenerationInv, TypeOK
  <2>3. SessionInv'
    BY <1>9 DEF Record, SessionInv, OnTheWay, TypeOK
  <2>4. NoNoticeForgotten'
    BY <1>9 DEF Record, NoNoticeForgotten, TypeOK, GenerationInv
  <2> QED
    BY <2>1, <2>2, <2>3, <2>4
<1>10. CASE UNCHANGED vars
  <2>1. Open' = Open /\ OnTheWay' = OnTheWay
    BY <1>10 DEF vars, Open, OnTheWay
  <2> QED
    BY <1>10, <2>1 DEF vars, TypeOK, GenerationInv, SessionInv, NoNoticeForgotten
<1> QED
  BY <1>1, <1>2, <1>3, <1>4, <1>5, <1>6, <1>7, <1>8, <1>9, <1>10
  DEF Next, Handler, Announce

-----------------------------------------------------------------------------
(* The invariant holds in every reachable state. *)
THEOREM Invariance == Spec => []IInv
<1>1. Init => IInv
  BY InitIInv
<1>2. IInv /\ [Next]_vars => IInv'
  BY NextIInv
<1> QED
  BY <1>1, <1>2, PTL DEF Spec

(* Type correctness, and _active_connections is the number of connections. *)
THEOREM Typing == Spec => []TypeOK
<1>1. IInv => TypeOK
  BY DEF IInv
<1> QED
  BY <1>1, Invariance, PTL

(* An established session has cleared the notices before it whose ids came  *)
(* back and were left to it.                                               *)
THEOREM ChatIsCleared == Spec => []SessionClearsNotices
<1>1. IInv => SessionClearsNotices
  BY DEF IInv, SessionInv, SessionClearsNotices, Established
<1> QED
  BY <1>1, Invariance, PTL

(* A notice whose id came back is one the next session will find, unless    *)
(* its deletion was tried, or was to follow one that raised.               *)
THEOREM NothingForgotten == Spec => []NoNoticeForgotten
<1>1. IInv => NoNoticeForgotten
  BY DEF IInv
<1> QED
  BY <1>1, Invariance, PTL

(* A notice is decided on only for the last session, with nobody connected. *)
THEOREM LastAnnounced == Spec => OnlyLastSessionAnnounced
<1>1. IInv /\ [Next]_vars =>
        [\A c \in Conns : notice[c] = "asleep" /\ notice'[c] = "decided"
                            => last = c /\ Open = {}]_vars
  <2> SUFFICES ASSUME IInv, Next, NEW c \in Conns,
                      notice[c] = "asleep", notice'[c] = "decided"
               PROVE  last = c /\ Open = {}
    OBVIOUS
  <2>1. ASSUME NEW d \in Conns, Connect(d) \/ Handler(d) \/ Post(d) \/ Record(d) PROVE FALSE
    BY <2>1 DEF Connect, Handler, Establish, DeleteNotice, DeletionRaises, Forward,
        End, Post, Record, IInv, TypeOK
  <2>2. PICK d \in Conns : Decide(d)
    BY <2>1 DEF Next, Announce
  <2>3. d = c /\ ~(active > 0) /\ generation = noticed[c]
    BY <2>2 DEF Decide, IInv, TypeOK
  <2> QED
    BY <2>3, NobodyOpen DEF IInv, GenerationInv
<1> QED
  BY <1>1, Invariance, PTL DEF Spec, OnlyLastSessionAnnounced

=============================================================================
