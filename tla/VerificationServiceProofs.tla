---------------------- MODULE VerificationServiceProofs ----------------------
(***************************************************************************)
(* The safety properties of VerificationService for any sets of links and  *)
(* any lengths of life, and the safety part of the refinement of           *)
(* OneTimeLinks.                                                           *)
(***************************************************************************)
EXTENDS VerificationService, TLAPS

(* What ties tables, requests and handlers together: a request was granted *)
(* only for a used link, and an event without a request is that of a       *)
(* cancellation, whose handler does not wait any more.                     *)
LinkInv ==
    /\ \A l \in Links : callback[l] # "none" => l \in used
    /\ \A v \in Verifications :
         /\ pc[v] # "absent" => v \in issued
         /\ v \in event => callback[v] # "none" \/ pc[v] = "gone"
         /\ pc[v] = "cancel" => v \notin table

(* Whoever has a message's id has it alone. *)
MessageInv ==
    \A v \in Verifications :
      /\ v \in recorded => timer[v] = "asleep" /\ callback[v] # "deleting" /\ asked[v] = 0
      /\ callback[v] = "deleting" => asked[v] = 0 /\ timer[v] # "deleting"
      /\ timer[v] = "deleting" => asked[v] = 0
      /\ pc[v] \in {"absent", "notify", "record"} =>
           timer[v] = "none" /\ v \notin recorded /\ callback[v] # "deleting" /\ asked[v] = 0

(* A timer that was set wakes after the token's life. *)
TimeInv ==
    /\ \A l \in Links : created[l] <= now
    /\ \A v \in Verifications :
         /\ pc[v] \in {"notify", "record"} => now + Ttl <= Horizon
         /\ timer[v] # "none" => due[v] >= created[v] + Ttl
         /\ timer[v] = "deleting" => now >= due[v]

ChoiceInv ==
    latest # "contested" =>
      /\ \A l, m \in Unapplied : l = m
      /\ \A l \in Unapplied : l[2] = latest
      /\ Unapplied = {} => idleAction = latest

IInv == TypeOK /\ LinkInv /\ MessageInv /\ TimeInv /\ ChoiceInv

-----------------------------------------------------------------------------
(* The kinds of links are apart. *)
LEMMA Kinds ==
    /\ \A v \in Verifications : v \in Links /\ v \notin Controls /\ v \notin ActionLinks
    /\ \A l \in Controls : l \in Links /\ l \notin Verifications /\ l \notin ActionLinks
    /\ \A l \in ActionLinks : l \in Links /\ l \notin Verifications /\ l \notin Controls
                              /\ l[2] \in IdleActions
  BY KindsAssumption DEF Links, ActionLinks, IdleActions

(* A life is a number. *)
LEMMA LifeInNat == \A l \in Links : Life(l) \in Nat
  BY TimesAssumption DEF Life, Lesser

(* Every state the service starts in satisfies the invariant. *)
LEMMA InitIInv == Init => IInv
<1> SUFFICES ASSUME Init PROVE IInv
  OBVIOUS
<1>1. TypeOK
  BY TimesAssumption DEF Init, TypeOK, IdleActions, Callbacks, Stages, Timers
<1>2. LinkInv /\ MessageInv
  BY DEF Init, LinkInv, MessageInv, Links
<1>3. TimeInv
  BY TimesAssumption DEF Init, TimeInv
<1>4. ChoiceInv
  BY Kinds DEF Init, ChoiceInv, Unapplied
<1> QED
  BY <1>1, <1>2, <1>3, <1>4 DEF IInv

(* Creation: what is inserted is new, and every other link keeps its date. *)
LEMMA InsertKeeps ==
    ASSUME IInv, NEW S \in SUBSET Links, Insert(S)
    PROVE  /\ table' \subseteq issued' /\ used' \subseteq issued' /\ issued' \subseteq Links
           /\ created' \in [Links -> 0..Horizon]
           /\ \A l \in Links \cap S : l \notin issued
           /\ \A l \in Links : created'[l] = IF l \in S THEN now ELSE created[l]
           /\ now + Ttl <= Horizon
           /\ issued \subseteq issued'
  BY TimesAssumption DEF IInv, TypeOK, Insert, Kept

(* One step per action. *)
LEMMA NextIInv == IInv /\ [Next]_vars => IInv'
<1> SUFFICES ASSUME IInv, [Next]_vars PROVE IInv'
  OBVIOUS
<1> USE Kinds, TimesAssumption DEF IInv, tables, chat, choices
<1>1. ASSUME Tick PROVE IInv'
  <2>1. TypeOK'
    BY <1>1 DEF Tick, TypeOK, IdleActions, Callbacks, Stages, Timers, Kept
  <2>2. LinkInv'
    BY <1>1 DEF Tick, LinkInv, TypeOK, Kept
  <2>3. MessageInv'
    BY <1>1 DEF Tick, MessageInv, TypeOK
  <2>4. TimeInv'
    BY <1>1 DEF Tick, TimeInv, TypeOK, LinkInv
  <2>5. ChoiceInv'
    BY <1>1 DEF Tick, ChoiceInv, Unapplied, TypeOK
  <2> QED
    BY <2>1, <2>2, <2>3, <2>4, <2>5
<1>2. ASSUME ListPendingLinks PROVE IInv'
  <2>1. TypeOK'
    BY <1>2 DEF ListPendingLinks, TypeOK, IdleActions, Callbacks, Stages, Timers, Kept
  <2>2. LinkInv'
    BY <1>2 DEF ListPendingLinks, LinkInv, TypeOK, Kept
  <2>3. MessageInv'
    BY <1>2 DEF ListPendingLinks, MessageInv, TypeOK
  <2>4. TimeInv'
    BY <1>2 DEF ListPendingLinks, TimeInv, TypeOK, LinkInv
  <2>5. ChoiceInv'
    BY <1>2 DEF ListPendingLinks, ChoiceInv, Unapplied, TypeOK
  <2> QED
    BY <2>1, <2>2, <2>3, <2>4, <2>5
<1>3. ASSUME NEW l \in Links, RefuseLink(l) PROVE IInv'
  <2>1. TypeOK'
    BY <1>3 DEF RefuseLink, TypeOK, IdleActions, Callbacks, Stages, Timers, Kept
  <2>2. LinkInv'
    BY <1>3 DEF RefuseLink, LinkInv, TypeOK, Kept
  <2>3. MessageInv'
    BY <1>3 DEF RefuseLink, MessageInv, TypeOK
  <2>4. TimeInv'
    BY <1>3 DEF RefuseLink, TimeInv, TypeOK, LinkInv
  <2>5. ChoiceInv'
    BY <1>3 DEF RefuseLink, ChoiceInv, Unapplied, TypeOK
  <2> QED
    BY <2>1, <2>2, <2>3, <2>4, <2>5
<1>4. ASSUME NEW v \in Verifications, CreateToken(v) PROVE IInv'
  <2>0. LET New == {v}
        IN  /\ New \subseteq Links
            /\ table' \subseteq issued' /\ used' \subseteq issued' /\ issued' \subseteq Links
            /\ created' \in [Links -> 0..Horizon]
            /\ \A x \in Links \cap New : x \notin issued
            /\ \A x \in Links : created'[x] = IF x \in New THEN now ELSE created[x]
            /\ now + Ttl <= Horizon
            /\ issued \subseteq issued'
    BY <1>4, InsertKeeps DEF CreateToken, ActionLinks
  <2>1. TypeOK'
    BY <1>4, <2>0 DEF CreateToken, TypeOK, IdleActions, Callbacks, Stages, Timers, Kept
  <2>2. LinkInv'
    BY <1>4 DEF CreateToken, Insert, LinkInv, TypeOK, Kept
  <2>3. MessageInv'
    BY <1>4 DEF CreateToken, Insert, MessageInv, TypeOK
  <2>4. TimeInv'
    BY <1>4, <2>0, LifeInNat DEF CreateToken, TimeInv, TypeOK, LinkInv, MessageInv
  <2>5. ChoiceInv'
    BY <1>4 DEF CreateToken, Insert, ChoiceInv, Unapplied, TypeOK
  <2> QED
    BY <2>1, <2>2, <2>3, <2>4, <2>5
<1>5. ASSUME NEW n \in Notices, CreateActionLinks(n) PROVE IInv'
  <2>0. LET New == {n} \X IdleActions
        IN  /\ New \subseteq Links
            /\ table' \subseteq issued' /\ used' \subseteq issued' /\ issued' \subseteq Links
            /\ created' \in [Links -> 0..Horizon]
            /\ \A x \in Links \cap New : x \notin issued
            /\ \A x \in Links : created'[x] = IF x \in New THEN now ELSE created[x]
            /\ now + Ttl <= Horizon
            /\ issued \subseteq issued'
    BY <1>5, InsertKeeps DEF CreateActionLinks, ActionLinks
  <2>1. TypeOK'
    BY <1>5, <2>0 DEF CreateActionLinks, TypeOK, IdleActions, Callbacks, Stages, Timers, Kept
  <2>2. LinkInv'
    BY <1>5 DEF CreateActionLinks, Insert, LinkInv, TypeOK, Kept
  <2>3. MessageInv'
    BY <1>5 DEF CreateActionLinks, Insert, MessageInv, TypeOK
  <2>4. TimeInv'
    BY <1>5, <2>0, LifeInNat DEF CreateActionLinks, TimeInv, TypeOK, LinkInv, MessageInv
  <2>5. ChoiceInv'
    BY <1>5 DEF CreateActionLinks, Insert, ChoiceInv, Unapplied, TypeOK
  <2> QED
    BY <2>1, <2>2, <2>3, <2>4, <2>5
<1>6. ASSUME NEW l \in Controls, CreateControlAuth(l) PROVE IInv'
  <2>0. LET New == {l}
        IN  /\ New \subseteq Links
            /\ table' \subseteq issued' /\ used' \subseteq issued' /\ issued' \subseteq Links
            /\ created' \in [Links -> 0..Horizon]
            /\ \A x \in Links \cap New : x \notin issued
            /\ \A x \in Links : created'[x] = IF x \in New THEN now ELSE created[x]
            /\ now + Ttl <= Horizon
            /\ issued \subseteq issued'
    BY <1>6, InsertKeeps DEF CreateControlAuth, ActionLinks
  <2>1. TypeOK'
    BY <1>6, <2>0 DEF CreateControlAuth, TypeOK, IdleActions, Callbacks, Stages, Timers, Kept
  <2>2. LinkInv'
    BY <1>6 DEF CreateControlAuth, Insert, LinkInv, TypeOK, Kept
  <2>3. MessageInv'
    BY <1>6 DEF CreateControlAuth, Insert, MessageInv, TypeOK
  <2>4. TimeInv'
    BY <1>6, <2>0, LifeInNat DEF CreateControlAuth, TimeInv, TypeOK, LinkInv, MessageInv
  <2>5. ChoiceInv'
    BY <1>6 DEF CreateControlAuth, Insert, ChoiceInv, Unapplied, TypeOK
  <2> QED
    BY <2>1, <2>2, <2>3, <2>4, <2>5
<1>7. ASSUME NEW v \in Verifications, ClickVerify(v) PROVE IInv'
  <2>1. TypeOK'
    BY <1>7 DEF ClickVerify, Grant, TypeOK, IdleActions, Callbacks, Stages, Timers, Kept
  <2>2. LinkInv'
    BY <1>7 DEF ClickVerify, Grant, LinkInv, TypeOK, Kept
  <2>3. MessageInv'
    BY <1>7 DEF ClickVerify, Grant, MessageInv, TypeOK
  <2>4. TimeInv'
    BY <1>7 DEF ClickVerify, Grant, TimeInv, TypeOK, LinkInv
  <2>5. ChoiceInv'
    BY <1>7 DEF ClickVerify, Grant, ChoiceInv, Unapplied, TypeOK
  <2> QED
    BY <2>1, <2>2, <2>3, <2>4, <2>5
<1>8. ASSUME NEW l \in ActionLinks, ClickAction(l) PROVE IInv'
  <2>1. TypeOK'
    BY <1>8 DEF ClickAction, Grant, TypeOK, IdleActions, Callbacks, Stages, Timers, Kept
  <2>2. LinkInv'
    BY <1>8 DEF ClickAction, Grant, LinkInv, TypeOK, Kept
  <2>3. MessageInv'
    BY <1>8 DEF ClickAction, Grant, MessageInv, TypeOK
  <2>4. TimeInv'
    BY <1>8 DEF ClickAction, Grant, TimeInv, TypeOK, LinkInv
  <2>5. ChoiceInv'
    BY <1>8 DEF ClickAction, Grant, ChoiceInv, Unapplied, TypeOK
  <2> QED
    BY <2>1, <2>2, <2>3, <2>4, <2>5
<1>9. ASSUME NEW l \in Controls, OpenControlPage(l) PROVE IInv'
  <2>1. TypeOK'
    BY <1>9 DEF OpenControlPage, Grant, TypeOK, IdleActions, Callbacks, Stages, Timers, Kept
  <2>2. LinkInv'
    BY <1>9 DEF OpenControlPage, Grant, LinkInv, TypeOK, Kept
  <2>3. MessageInv'
    BY <1>9 DEF OpenControlPage, Grant, MessageInv, TypeOK
  <2>4. TimeInv'
    BY <1>9 DEF OpenControlPage, Grant, TimeInv, TypeOK, LinkInv
  <2>5. ChoiceInv'
    BY <1>9 DEF OpenControlPage, Grant, ChoiceInv, Unapplied, TypeOK
  <2> QED
    BY <2>1, <2>2, <2>3, <2>4, <2>5
<1>10. ASSUME NEW l \in Controls, RenderControlPage(l) PROVE IInv'
  <2>1. TypeOK'
    BY <1>10 DEF RenderControlPage, TypeOK, IdleActions, Callbacks, Stages, Timers, Kept
  <2>2. LinkInv'
    BY <1>10 DEF RenderControlPage, LinkInv, TypeOK, Kept
  <2>3. MessageInv'
    BY <1>10 DEF RenderControlPage, MessageInv, TypeOK
  <2>4. TimeInv'
    BY <1>10 DEF RenderControlPage, TimeInv, TypeOK, LinkInv
  <2>5. ChoiceInv'
    BY <1>10 DEF RenderControlPage, ChoiceInv, Unapplied, TypeOK
  <2> QED
    BY <2>1, <2>2, <2>3, <2>4, <2>5
<1>11. ASSUME NEW l \in ActionLinks, ApplyAction(l) PROVE IInv'
  <2>1. TypeOK'
    BY <1>11 DEF ApplyAction, TypeOK, IdleActions, Callbacks, Stages, Timers, Kept
  <2>2. LinkInv'
    BY <1>11 DEF ApplyAction, LinkInv, TypeOK, Kept
  <2>3. MessageInv'
    BY <1>11 DEF ApplyAction, MessageInv, TypeOK
  <2>4. TimeInv'
    BY <1>11 DEF ApplyAction, TimeInv, TypeOK, LinkInv
  <2>5. ChoiceInv'
    BY <1>11 DEF ApplyAction, ChoiceInv, Unapplied, TypeOK
  <2> QED
    BY <2>1, <2>2, <2>3, <2>4, <2>5
<1>12. ASSUME NEW v \in Verifications, PopMessage(v) PROVE IInv'
  <2>1. TypeOK'
    BY <1>12 DEF PopMessage, TypeOK, IdleActions, Callbacks, Stages, Timers, Kept
  <2>2. LinkInv'
    BY <1>12 DEF PopMessage, LinkInv, TypeOK, Kept
  <2>3. MessageInv'
    BY <1>12 DEF PopMessage, MessageInv, TypeOK
  <2>4. TimeInv'
    BY <1>12 DEF PopMessage, TimeInv, TypeOK, LinkInv
  <2>5. ChoiceInv'
    BY <1>12 DEF PopMessage, ChoiceInv, Unapplied, TypeOK
  <2> QED
    BY <2>1, <2>2, <2>3, <2>4, <2>5
<1>13. ASSUME NEW v \in Verifications, DeleteAfterClick(v) PROVE IInv'
  <2>1. TypeOK'
    BY <1>13 DEF DeleteAfterClick, AskDelete, TypeOK, IdleActions, Callbacks, Stages, Timers, Kept, MessageInv
  <2>2. LinkInv'
    BY <1>13 DEF DeleteAfterClick, AskDelete, LinkInv, TypeOK, Kept
  <2>3. MessageInv'
    BY <1>13 DEF DeleteAfterClick, AskDelete, MessageInv, TypeOK
  <2>4. TimeInv'
    BY <1>13 DEF DeleteAfterClick, AskDelete, TimeInv, TypeOK, LinkInv
  <2>5. ChoiceInv'
    BY <1>13 DEF DeleteAfterClick, AskDelete, ChoiceInv, Unapplied, TypeOK
  <2> QED
    BY <2>1, <2>2, <2>3, <2>4, <2>5
<1>14. ASSUME NEW v \in Verifications, SendVerification(v) PROVE IInv'
  <2>1. TypeOK'
    BY <1>14 DEF SendVerification, TypeOK, IdleActions, Callbacks, Stages, Timers, Kept
  <2>2. LinkInv'
    BY <1>14 DEF SendVerification, LinkInv, TypeOK, Kept
  <2>3. MessageInv'
    BY <1>14 DEF SendVerification, MessageInv, TypeOK
  <2>4. TimeInv'
    BY <1>14 DEF SendVerification, TimeInv, TypeOK, LinkInv
  <2>5. ChoiceInv'
    BY <1>14 DEF SendVerification, ChoiceInv, Unapplied, TypeOK
  <2> QED
    BY <2>1, <2>2, <2>3, <2>4, <2>5
<1>15. ASSUME NEW v \in Verifications, RecordMessage(v) PROVE IInv'
  <2>1. TypeOK'
    BY <1>15 DEF RecordMessage, TypeOK, IdleActions, Callbacks, Stages, Timers, Kept, TimeInv
  <2>2. LinkInv'
    BY <1>15 DEF RecordMessage, LinkInv, TypeOK, Kept
  <2>3. MessageInv'
    BY <1>15 DEF RecordMessage, MessageInv, TypeOK
  <2>4. TimeInv'
    BY <1>15 DEF RecordMessage, TimeInv, TypeOK, LinkInv
  <2>5. ChoiceInv'
    BY <1>15 DEF RecordMessage, ChoiceInv, Unapplied, TypeOK
  <2> QED
    BY <2>1, <2>2, <2>3, <2>4, <2>5
<1>16. ASSUME NEW v \in Verifications, Approved(v) PROVE IInv'
  <2>1. TypeOK'
    BY <1>16 DEF Approved, TypeOK, IdleActions, Callbacks, Stages, Timers, Kept
  <2>2. LinkInv'
    BY <1>16 DEF Approved, LinkInv, TypeOK, Kept
  <2>3. MessageInv'
    BY <1>16 DEF Approved, MessageInv, TypeOK
  <2>4. TimeInv'
    BY <1>16 DEF Approved, TimeInv, TypeOK, LinkInv
  <2>5. ChoiceInv'
    BY <1>16 DEF Approved, ChoiceInv, Unapplied, TypeOK
  <2> QED
    BY <2>1, <2>2, <2>3, <2>4, <2>5
<1>17. ASSUME NEW v \in Verifications, WaitEnds(v) PROVE IInv'
  <2>1. TypeOK'
    BY <1>17 DEF WaitEnds, TypeOK, IdleActions, Callbacks, Stages, Timers, Kept
  <2>2. LinkInv'
    BY <1>17 DEF WaitEnds, LinkInv, TypeOK, Kept
  <2>3. MessageInv'
    BY <1>17 DEF WaitEnds, MessageInv, TypeOK
  <2>4. TimeInv'
    BY <1>17 DEF WaitEnds, TimeInv, TypeOK, LinkInv
  <2>5. ChoiceInv'
    BY <1>17 DEF WaitEnds, ChoiceInv, Unapplied, TypeOK
  <2> QED
    BY <2>1, <2>2, <2>3, <2>4, <2>5
<1>18. ASSUME NEW v \in Verifications, CancelToken(v) PROVE IInv'
  <2>1. TypeOK'
    BY <1>18 DEF CancelToken, TypeOK, IdleActions, Callbacks, Stages, Timers, Kept
  <2>2. LinkInv'
    BY <1>18 DEF CancelToken, LinkInv, TypeOK, Kept
  <2>3. MessageInv'
    BY <1>18 DEF CancelToken, MessageInv, TypeOK
  <2>4. TimeInv'
    BY <1>18 DEF CancelToken, TimeInv, TypeOK, LinkInv
  <2>5. ChoiceInv'
    BY <1>18 DEF CancelToken, ChoiceInv, Unapplied, TypeOK
  <2> QED
    BY <2>1, <2>2, <2>3, <2>4, <2>5
<1>19. ASSUME NEW v \in Verifications, FinishCancel(v) PROVE IInv'
  <2>1. TypeOK'
    BY <1>19 DEF FinishCancel, TypeOK, IdleActions, Callbacks, Stages, Timers, Kept, LinkInv
  <2>2. LinkInv'
    BY <1>19 DEF FinishCancel, LinkInv, TypeOK, Kept
  <2>3. MessageInv'
    BY <1>19 DEF FinishCancel, MessageInv, TypeOK
  <2>4. TimeInv'
    BY <1>19 DEF FinishCancel, TimeInv, TypeOK, LinkInv
  <2>5. ChoiceInv'
    BY <1>19 DEF FinishCancel, ChoiceInv, Unapplied, TypeOK
  <2> QED
    BY <2>1, <2>2, <2>3, <2>4, <2>5
<1>20. ASSUME NEW v \in Verifications, TimerWakes(v) PROVE IInv'
  <2>1. TypeOK'
    BY <1>20 DEF TimerWakes, TypeOK, IdleActions, Callbacks, Stages, Timers, Kept
  <2>2. LinkInv'
    BY <1>20 DEF TimerWakes, LinkInv, TypeOK, Kept
  <2>3. MessageInv'
    BY <1>20 DEF TimerWakes, MessageInv, TypeOK
  <2>4. TimeInv'
    BY <1>20 DEF TimerWakes, TimeInv, TypeOK, LinkInv
  <2>5. ChoiceInv'
    BY <1>20 DEF TimerWakes, ChoiceInv, Unapplied, TypeOK
  <2> QED
    BY <2>1, <2>2, <2>3, <2>4, <2>5
<1>21. ASSUME NEW v \in Verifications, DeleteAfterLife(v) PROVE IInv'
  <2>1. TypeOK'
    BY <1>21 DEF DeleteAfterLife, AskDelete, TypeOK, IdleActions, Callbacks, Stages, Timers, Kept, MessageInv
  <2>2. LinkInv'
    BY <1>21 DEF DeleteAfterLife, AskDelete, LinkInv, TypeOK, Kept
  <2>3. MessageInv'
    BY <1>21 DEF DeleteAfterLife, AskDelete, MessageInv, TypeOK
  <2>4. TimeInv'
    BY <1>21 DEF DeleteAfterLife, AskDelete, TimeInv, TypeOK, LinkInv
  <2>5. ChoiceInv'
    BY <1>21 DEF DeleteAfterLife, AskDelete, ChoiceInv, Unapplied, TypeOK
  <2> QED
    BY <2>1, <2>2, <2>3, <2>4, <2>5
<1>22. CASE UNCHANGED vars
  BY <1>22 DEF vars, TypeOK, LinkInv, MessageInv, TimeInv, ChoiceInv, Unapplied
<1> QED
  BY <1>1, <1>2, <1>3, <1>4, <1>5, <1>6, <1>7, <1>8, <1>9, <1>10, <1>11, <1>12, <1>13, <1>14, <1>15, <1>16, <1>17, <1>18, <1>19, <1>20, <1>21, <1>22 DEF Next, Handler, Deletion

-----------------------------------------------------------------------------
(* The invariant holds in every reachable state. *)
THEOREM Invariance == Spec => []IInv
<1>1. Init => IInv
  BY InitIInv
<1>2. IInv /\ [Next]_vars => IInv'
  BY NextIInv
<1> QED
  BY <1>1, <1>2, PTL DEF Spec

(* Type correctness, for any links and lengths of life. *)
THEOREM Typing == Spec => []TypeOK
<1>1. IInv => TypeOK
  BY DEF IInv
<1> QED
  BY <1>1, Invariance, PTL

(* No message is deleted twice, although a click and a timer both try. *)
THEOREM OneDeletion == Spec => []DeletedOnce
<1>1. IInv => DeletedOnce
  BY Kinds DEF IInv, MessageInv, DeletedOnce
<1> QED
  BY <1>1, Invariance, PTL

(* The choice followed last is the one in force, if no two overlapped. *)
THEOREM ChoiceInForce == Spec => []LastChoiceWins
<1>1. IInv => LastChoiceWins
  BY DEF IInv, ChoiceInv, LastChoiceWins
<1> QED
  BY <1>1, Invariance, PTL

(* The message of a link that can be used stays in the chat. *)
THEOREM UsableStay == Spec => UsableLinksStay
<1>1. IInv /\ [Next]_vars =>
        [\A v \in shown \ shown' : v \in used \/ now >= created[v] + Ttl]_vars
  <2> SUFFICES ASSUME IInv, Next, NEW v \in shown \ shown'
               PROVE  v \in used \/ now >= created[v] + Ttl
    OBVIOUS
  <2> USE DEF chat, choices, tables
  <2>1. v \in Verifications /\ v \in Links
    BY Kinds DEF IInv, TypeOK
  <2>2. ASSUME NEW w \in Verifications, DeleteAfterClick(w) PROVE v \in used
    BY <2>1, <2>2 DEF DeleteAfterClick, AskDelete, IInv, LinkInv
  <2>3. ASSUME NEW w \in Verifications, DeleteAfterLife(w) PROVE now >= created[v] + Ttl
    <3>1. v = w /\ timer[v] = "deleting"
      BY <2>1, <2>3 DEF DeleteAfterLife, AskDelete
    <3>2. now >= due[v] /\ due[v] >= created[v] + Ttl
      BY <2>1, <3>1 DEF IInv, TimeInv
    <3>3. now \in Int /\ due[v] \in Int /\ created[v] + Ttl \in Int
      BY <2>1, TimesAssumption DEF IInv, TypeOK
    <3> QED
      BY <3>2, <3>3
  <2>4. CASE Tick \/ ListPendingLinks
    BY <2>4 DEF Tick, ListPendingLinks
  <2>5. ASSUME NEW w \in Verifications, Handler(w) \/ ClickVerify(w) PROVE FALSE
    BY <2>5 DEF Handler, CreateToken, SendVerification, RecordMessage, Approved, WaitEnds,
       CancelToken, FinishCancel, ClickVerify, Grant
  <2>6. ASSUME NEW w \in Verifications, PopMessage(w) \/ TimerWakes(w) PROVE FALSE
    BY <2>6 DEF PopMessage, TimerWakes
  <2>7. ASSUME NEW n \in Notices, CreateActionLinks(n) PROVE FALSE
    BY <2>7 DEF CreateActionLinks
  <2>8. ASSUME NEW l \in Links, RefuseLink(l) PROVE FALSE
    BY <2>8 DEF RefuseLink
  <2>9. ASSUME NEW l \in ActionLinks, ClickAction(l) \/ ApplyAction(l) PROVE FALSE
    BY <2>9 DEF ClickAction, Grant, ApplyAction
  <2>10. ASSUME NEW l \in Controls,
                CreateControlAuth(l) \/ OpenControlPage(l) \/ RenderControlPage(l)
         PROVE FALSE
    BY <2>10 DEF CreateControlAuth, OpenControlPage, Grant, RenderControlPage
  <2> QED
    BY <2>2, <2>3, <2>4, <2>5, <2>6, <2>7, <2>8, <2>9, <2>10 DEF Next, Deletion
<1> QED
  BY <1>1, Invariance, PTL DEF Spec, UsableLinksStay

-----------------------------------------------------------------------------
(* The refinement of OneTimeLinks.  A bar marks the abstract variables. *)
StatusBar    == [l \in Links |-> Status(l)]
EffectiveBar == {l \in Links : callback[l] \in {"deleting", "done"}}
AdmittedBar  == {v \in Verifications : pc[v] = "approved"}

(* A link whose request was granted is spent, and no other. *)
LEMMA Spent == IInv => \A l \in Links : Status(l) = "spent" <=> callback[l] # "none"
  BY DEF IInv, LinkInv, TypeOK, Status

(* The initial states map to that of OneTimeLinks. *)
LEMMA InitRefines == Init => Promise!Init
  BY Kinds DEF Init, Promise!Init, Status, Links

(* A clean-up and nothing else changes no link's status. *)
LEMMA KeptSame ==
    ASSUME IInv, table' = Kept, UNCHANGED <<now, issued, created, used, callback>>
    PROVE  StatusBar' = StatusBar
  BY DEF StatusBar, Status, Kept, Expired, Life

(* Creation issues the new links; the others keep their status. *)
LEMMA InsertIssues ==
    ASSUME IInv, NEW S \in SUBSET Links, Insert(S), UNCHANGED <<now, callback>>
    PROVE  /\ S \in SUBSET Promise!With("unissued")
           /\ StatusBar' = [l \in Links |-> IF l \in S THEN "open" ELSE StatusBar[l]]
<1>1. \A l \in S : Status(l) = "unissued"
  BY DEF Insert, Status
<1>2. \A l \in S : Status(l)' = "open"
  <2> SUFFICES ASSUME NEW l \in S PROVE Status(l)' = "open"
    OBVIOUS
  <2>1. l \in issued' /\ l \in table' /\ l \notin used' /\ callback'[l] = "none"
    BY DEF Insert, IInv, TypeOK, LinkInv
  <2>2. created'[l] = now /\ now' = now /\ now \in Int
    BY DEF Insert, IInv, TypeOK
  <2>3. ~(Expired(l)')
    BY <2>2, LifeInNat DEF Expired, Life
  <2> QED
    BY <2>1, <2>3 DEF Status
<1>3. \A l \in Links \ S : Status(l)' = Status(l)
  BY DEF Insert, Status, Kept, Expired, Life
<1> QED
  BY <1>1, <1>2, <1>3 DEF StatusBar, Promise!With

(* A granted request spends an open link. *)
LEMMA GrantSpends ==
    ASSUME IInv, NEW l \in Links, Grant(l), callback' = [callback EXCEPT ![l] = "due"],
           pc' = pc
    PROVE  Promise!Spend(l)
<1>1. Status(l) = "open"
  BY DEF Grant, Kept, Status, IInv, TypeOK, LinkInv
<1>2. StatusBar' = [StatusBar EXCEPT ![l] = "spent"]
  BY DEF Grant, Kept, Status, Expired, Life, IInv, TypeOK, LinkInv, StatusBar
<1>3. EffectiveBar' = EffectiveBar
  BY <1>1 DEF EffectiveBar, Grant, IInv, TypeOK, Status
<1> QED
  BY <1>1, <1>2, <1>3 DEF Promise!Spend, StatusBar, EffectiveBar

(* Steps that leave links, requests and admissions alone. *)
LEMMA Stutters ==
    ASSUME UNCHANGED <<now, tables, callback>>, AdmittedBar' = AdmittedBar
    PROVE  UNCHANGED Promise!vars
  BY DEF Promise!vars, tables, StatusBar, EffectiveBar, AdmittedBar, Status, Expired, Life

(* Every step of the service is a step of OneTimeLinks or changes nothing there. *)
LEMMA NextRefines == IInv /\ [Next]_vars => [Promise!Next]_Promise!vars
<1> SUFFICES ASSUME IInv, [Next]_vars PROVE [Promise!Next]_Promise!vars
  OBVIOUS
<1> USE Kinds DEF tables, chat, choices
<1>1. ASSUME Tick PROVE [Promise!Next]_Promise!vars
  <2> DEFINE S == {l \in Links : Status(l) = "open" /\ Status(l)' # "open"}
  <2>1. S \in SUBSET Promise!With("open")
    BY DEF Promise!With
  <2>2. \A l \in Links : Expired(l) => Expired(l)'
    BY <1>1, LifeInNat DEF Tick, Expired, Life, IInv, TypeOK
  <2>3. StatusBar' = [l \in Links |-> IF l \in S THEN "void" ELSE StatusBar[l]]
    BY <1>1, <2>2 DEF Tick, Status, StatusBar
  <2>4. Promise!Lapse(S)
    BY <1>1, <2>3 DEF Promise!Lapse, StatusBar, Tick
  <2> QED
    BY <2>1, <2>4 DEF Promise!Next
<1>2. ASSUME ListPendingLinks \/ \E l \in Links : RefuseLink(l) PROVE UNCHANGED Promise!vars
  BY <1>2, KeptSame DEF ListPendingLinks, RefuseLink, Promise!vars, StatusBar
<1>3. ASSUME NEW S \in SUBSET Links, Insert(S), UNCHANGED <<now, callback>>,
             AdmittedBar' = AdmittedBar
      PROVE  Promise!Next
  <2>1. Promise!Issue(S) /\ S \in SUBSET Promise!With("unissued")
    BY <1>3, InsertIssues DEF Promise!Issue, StatusBar, AdmittedBar
  <2> QED
    BY <2>1 DEF Promise!Next
<1>4. ASSUME NEW v \in Verifications, CreateToken(v) PROVE Promise!Next
  BY <1>3, <1>4 DEF CreateToken, AdmittedBar, IInv, TypeOK
<1>5. ASSUME NEW n \in Notices, CreateActionLinks(n) PROVE Promise!Next
  BY <1>3, <1>5 DEF CreateActionLinks, ActionLinks, AdmittedBar
<1>6. ASSUME NEW l \in Controls, CreateControlAuth(l) PROVE Promise!Next
  BY <1>3, <1>6 DEF CreateControlAuth, AdmittedBar
<1>7. ASSUME NEW l \in Links, Grant(l), callback' = [callback EXCEPT ![l] = "due"], pc' = pc
      PROVE  Promise!Next
  BY <1>7, GrantSpends DEF Promise!Next
<1>8. ASSUME NEW v \in Verifications, ClickVerify(v) PROVE Promise!Next
  BY <1>7, <1>8 DEF ClickVerify, Grant
<1>9. ASSUME NEW l \in ActionLinks, ClickAction(l) PROVE Promise!Next
  BY <1>7, <1>9 DEF ClickAction, Grant
<1>10. ASSUME NEW l \in Controls, OpenControlPage(l) PROVE Promise!Next
  BY <1>7, <1>10 DEF OpenControlPage, Grant
<1>11. ASSUME NEW l \in Links, callback[l] = "due", NEW c \in {"deleting", "done"},
              callback' = [callback EXCEPT ![l] = c], UNCHANGED <<now, tables, pc>>
       PROVE  Promise!Next
  <2>1. Promise!TakeEffect(l)
    <3>1. Status(l) = "spent"
      BY <1>11, Spent
    <3>2. StatusBar' = StatusBar
      BY <1>11 DEF StatusBar, Status, Expired, Life, IInv, TypeOK
    <3>3. EffectiveBar' = EffectiveBar \cup {l} /\ l \notin EffectiveBar
      BY <1>11 DEF EffectiveBar, IInv, TypeOK
    <3> QED
      BY <1>11, <3>1, <3>2, <3>3 DEF Promise!TakeEffect, StatusBar, EffectiveBar
  <2> QED
    BY <2>1 DEF Promise!Next
<1>12. ASSUME NEW l \in ActionLinks, ApplyAction(l) PROVE Promise!Next
  BY <1>11, <1>12 DEF ApplyAction
<1>13. ASSUME NEW l \in Controls, RenderControlPage(l) PROVE Promise!Next
  BY <1>11, <1>13 DEF RenderControlPage
<1>14. ASSUME NEW v \in Verifications, PopMessage(v) PROVE Promise!Next
  BY <1>11, <1>14 DEF PopMessage
<1>15. ASSUME NEW v \in Verifications, DeleteAfterClick(v) PROVE UNCHANGED Promise!vars
  BY <1>15 DEF DeleteAfterClick, Promise!vars, Status, Expired, Life, IInv, TypeOK
<1>16. ASSUME NEW v \in Verifications,
              SendVerification(v) \/ RecordMessage(v) \/ WaitEnds(v)
       PROVE  UNCHANGED Promise!vars
  BY <1>16, Stutters DEF SendVerification, RecordMessage, WaitEnds, AdmittedBar, IInv, TypeOK
<1>17. ASSUME NEW v \in Verifications, TimerWakes(v) \/ DeleteAfterLife(v)
       PROVE  UNCHANGED Promise!vars
  BY <1>17, Stutters DEF TimerWakes, DeleteAfterLife, AdmittedBar
<1>18. ASSUME NEW v \in Verifications, Approved(v) PROVE Promise!Next
  <2>1. Promise!Admit(v)
    <3>1. Status(v) = "spent"
      BY <1>18, Spent DEF Approved, IInv, LinkInv
    <3>2. StatusBar' = StatusBar /\ EffectiveBar' = EffectiveBar
      BY <1>18 DEF Approved, StatusBar, EffectiveBar, Status, Expired, Life
    <3>3. AdmittedBar' = AdmittedBar \cup {v} /\ v \notin AdmittedBar
      BY <1>18 DEF Approved, AdmittedBar, IInv, TypeOK
    <3> QED
      BY <3>1, <3>2, <3>3 DEF Promise!Admit, StatusBar, EffectiveBar, AdmittedBar
  <2> QED
    BY <2>1 DEF Promise!Next
<1>19. ASSUME NEW v \in Verifications, CancelToken(v) PROVE [Promise!Next]_Promise!vars
  <2>1. AdmittedBar' = AdmittedBar /\ EffectiveBar' = EffectiveBar
    BY <1>19 DEF CancelToken, AdmittedBar, EffectiveBar, IInv, TypeOK
  <2>2. StatusBar' = [l \in Links |-> IF l \in {v} /\ Status(v) = "open"
                                        THEN "void" ELSE StatusBar[l]]
    BY <1>19 DEF CancelToken, Status, StatusBar, Expired, Life
  <2>3. CASE Status(v) = "open"
    <3>1. Promise!Lapse({v}) /\ {v} \in SUBSET Promise!With("open")
      BY <2>1, <2>2, <2>3 DEF Promise!Lapse, Promise!With, StatusBar, EffectiveBar, AdmittedBar
    <3> QED
      BY <3>1 DEF Promise!Next
  <2>4. CASE Status(v) # "open"
    BY <2>1, <2>2, <2>4 DEF Promise!vars, StatusBar, EffectiveBar, AdmittedBar
  <2> QED
    BY <2>3, <2>4
<1>20. ASSUME NEW v \in Verifications, FinishCancel(v) PROVE UNCHANGED Promise!vars
  <2>1. v \notin table
    BY <1>20 DEF FinishCancel, IInv, LinkInv
  <2> QED
    BY <1>20, <2>1 DEF FinishCancel, Promise!vars, Status, Expired, Life, IInv, TypeOK
<1>21. CASE UNCHANGED vars
  BY <1>21, Stutters DEF vars, AdmittedBar
<1> QED
  BY <1>1, <1>2, <1>4, <1>5, <1>6, <1>8, <1>9, <1>10, <1>12, <1>13, <1>14, <1>15, <1>16,
     <1>17, <1>18, <1>19, <1>20, <1>21 DEF Next, Handler, Deletion

(* The tables, the clock and the threads implement links that are spent at *)
(* most once and not after they lapsed, and that admit only if spent.      *)
THEOREM Refinement == Spec => Promise!SafeSpec
<1>1. Init => Promise!Init
  BY InitRefines
<1>2. IInv /\ [Next]_vars => [Promise!Next]_Promise!vars
  BY NextRefines
<1> QED
  BY <1>1, <1>2, Invariance, PTL DEF Spec, Promise!SafeSpec

=============================================================================
