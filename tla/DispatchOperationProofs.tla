--------------------- MODULE DispatchOperationProofs ----------------------
(*************************************************************************)
(* The inductive invariant of DispatchOperation and what follows from    *)
(* it, for any clients, plugins and callers: one lemma for each action,  *)
(* put together in StepMoves, and the theorems.  Then, the same way, the *)
(* order of the signals and of the calls to the approvers (Orderly), put *)
(* together in StepFollows, which holds without plugins and without      *)
(* handlers that bypass approval.                                        *)
(*                                                                       *)
(* Last the refinement: DispatchOperation, without plugins, implements   *)
(* ChannelDispatch.  Each C function is followed by what the promise     *)
(* sees of it (Stays, Denies, Settles...), which compose to one step of  *)
(* ChannelDispatch or to none in each callback (Serves).  Faithful and   *)
(* Patient are what that needs to know of the state besides the          *)
(* inductive invariant.                                                  *)
(*************************************************************************)
EXTENDS DispatchOperationLemmas

(* One assignment to a field the fate does not depend on.                *)
LEMMA AsideExcept ==
  ASSUME NEW s, Ready(s),
         NEW f \in Aside \ {"observing", "observers_pending", "delay_approver_observers_pending"},
         NEW v \in FieldType[f]
  PROVE  LET t == [s EXCEPT ![f] = v]
         IN /\ Moves(s, t) /\ t[f] = v /\ Others(s, t, {f})
<1> DEFINE t == [s EXCEPT ![f] = v]
<1>1. f \in Fields
  BY FieldNames DEF Aside
<1>2. Typed(t) /\ t[f] = v /\ Others(s, t, {f})
  <2>1. Typed(s) /\ IsCdo(s)
    BY TypedIsCdo DEF Ready
  <2>2. Typed(t)
    BY <1>1, <2>1, TypedExcept
  <2>3. t[f] = v /\ Others(s, t, {f})
    BY <1>1, <2>1 DEF IsCdo, Others
  <2> QED BY <2>2, <2>3
<1> HIDE DEF t
<1>3. Others(s, t, Aside)
  BY <1>2 DEF Others
<1>4. t.observing = s.observing /\ t.observers_pending = s.observers_pending
      /\ t.delay_approver_observers_pending = s.delay_approver_observers_pending
  BY <1>2, FieldNames DEF Others
<1>5. ObserverLocks(t)
  BY <1>4 DEF ObserverLocks, Ready
<1>6. Moves(s, t)
  BY <1>2, <1>3, <1>5, AsideMoves
<1> QED BY <1>2, <1>6 DEF t

(* mcp_dispatch_operation_end_delay: a plugin lets the operation go on.  *)
LEMMA EndPluginDelayMoves ==
  ASSUME Inv(cdo), registry \subseteq Handler, EndPluginDelay
  PROVE  Moves(cdo, cdo') /\ Inv(cdo') /\ registry' = registry
<1> DEFINE n == cdo.plugins_pending - 1
           t == [cdo EXCEPT !.plugins_pending = n]
<1>1. Ready(cdo) /\ Typed(cdo)
  BY DEF Inv, Ready
<1>2. n \in FieldType.plugins_pending
  BY <1>1, TypedFields, FieldTypes DEF EndPluginDelay
<1>3. t = [cdo EXCEPT !.plugins_pending = @ - 1]
  BY <1>1, TypedIsCdo DEF IsCdo, Fields
<1> HIDE DEF n
<1>4. Moves(cdo, t)
  BY <1>1, <1>2, AsideExcept, FieldNames DEF Aside
<1> HIDE DEF t
<1>5. cdo' = CheckClientLocks(t) /\ registry' = registry
  BY <1>3 DEF EndPluginDelay
<1> QED BY <1>4, <1>5, CheckedMoves

(* mcp_dispatch_operation_start_delay.                                   *)
LEMMA PluginStartsDelayMoves ==
  ASSUME Inv(cdo), registry \subseteq Handler, PluginStartsDelay
  PROVE  Moves(cdo, cdo') /\ Inv(cdo') /\ registry' = registry
<1> DEFINE n == cdo.plugins_pending + 1
           t == [cdo EXCEPT !.plugins_pending = n]
<1>1. Ready(cdo) /\ Typed(cdo)
  BY DEF Inv, Ready
<1>2. n \in FieldType.plugins_pending /\ n > 0
  BY <1>1, TypedFields, FieldTypes
<1>3. cdo' = t /\ registry' = registry
  BY <1>1, TypedIsCdo DEF IsCdo, Fields, PluginStartsDelay
<1> HIDE DEF n
<1>4. Moves(cdo, t) /\ t.plugins_pending = n
  BY <1>1, <1>2, AsideExcept, FieldNames DEF Aside
<1>5. Inv(t)
  BY <1>2, <1>4 DEF Inv, Moves, Awake
<1> QED BY <1>3, <1>4, <1>5

(* mcp_dispatch_operation_leave_channels, close_channels and             *)
(* destroy_channels at once.                                             *)
LEMMA PluginTerminatesNowMoves ==
  ASSUME Inv(cdo), registry \subseteq Handler, PluginTerminatesNow
  PROVE  Moves(cdo, cdo') /\ Inv(cdo') /\ registry' = registry
<1> DEFINE t == TerminateChannels(cdo)
<1>1. cdo' = t /\ registry' = registry
  BY DEF PluginTerminatesNow
<1>2. Moves(cdo, t) /\ (t = cdo \/ t.result # "none")
  BY TerminateChannelsMoves DEF Inv
<1>3. Inv(t)
  BY <1>2 DEF Inv, Moves, Awake
<1> QED BY <1>1, <1>2, <1>3

(* The same, to be done once the observers have returned.                *)
LEMMA PluginTerminatesLaterMoves ==
  ASSUME Inv(cdo), registry \subseteq Handler, NEW action \in PluginAction,
         PluginTerminatesLater(action)
  PROVE  Moves(cdo, cdo') /\ Inv(cdo') /\ registry' = registry
<1> DEFINE t == [cdo EXCEPT !.after_observers = action]
<1>1. Ready(cdo)
  BY DEF Inv
<1>2. cdo' = t /\ registry' = registry
  BY DEF PluginTerminatesLater
<1>3. action \in FieldType.after_observers
  BY FieldTypes
<1>4. Moves(cdo, t) /\ Others(cdo, t, {"after_observers"})
  BY <1>1, <1>3, AsideExcept, FieldNames DEF Aside
<1> HIDE DEF t
<1>5. /\ t.result = cdo.result /\ t.needs_approval = cdo.needs_approval
      /\ t.invoked_observers_if_needed = cdo.invoked_observers_if_needed
      /\ t.observe_only = cdo.observe_only /\ t.possible_handlers = cdo.possible_handlers
      /\ t.observing = cdo.observing /\ t.plugins_pending = cdo.plugins_pending
      /\ t.trying_handler = cdo.trying_handler /\ t.idle = cdo.idle
  BY <1>4 DEF Others, Fields
<1>6. Inv(t)
  BY <1>4, <1>5 DEF Inv, Moves, Awake, IsInternal
<1> QED BY <1>2, <1>4, <1>6

(* A step that ends with the loss of the channel leads to the invariant. *)
LEMMA LostMoves ==
  ASSUME Inv(cdo), NEW s, Moves(cdo, s)
  PROVE  Moves(cdo, LoseChannel(s)) /\ Inv(LoseChannel(s))
<1> DEFINE t == LoseChannel(s)
<1>1. Moves(s, t) /\ t.result # "none"
  BY LoseChannelMoves DEF Moves
<1> HIDE DEF t
<1>2. Moves(cdo, t)
  BY <1>1, MovesTrans
<1>3. Inv(t)
  BY <1>1, <1>2 DEF Inv, Moves, Awake
<1> QED BY <1>2, <1>3 DEF t

(* mcd_dispatch_operation_channel_aborted_cb after the proxy of the      *)
(* channel is invalidated.                                               *)
LEMMA ChannelInvalidatedMoves ==
  ASSUME Inv(cdo), registry \subseteq Handler, ChannelInvalidated
  PROVE  Moves(cdo, cdo') /\ Inv(cdo') /\ registry' = registry
<1> DEFINE s == [cdo EXCEPT !.invalidated = TRUE]
<1>1. cdo' = LoseChannel(s) /\ registry' = registry
  BY DEF ChannelInvalidated
<1>2. TRUE \in FieldType.invalidated
  BY FieldTypes
<1>3. Moves(cdo, s)
  BY <1>2, AsideExcept, FieldNames DEF Aside, Inv
<1> HIDE DEF s
<1> QED BY <1>1, <1>3, LostMoves

(* The connection aborts its channels.                                   *)
LEMMA ConnectionAbortedMoves ==
  ASSUME Inv(cdo), registry \subseteq Handler, ConnectionAborted
  PROVE  Moves(cdo, cdo') /\ Inv(cdo') /\ registry' = registry
<1>1. cdo' = LoseChannel(cdo) /\ registry' = registry
  BY DEF ConnectionAborted
<1>2. Moves(cdo, cdo)
  BY MovesSelf DEF Inv
<1> QED BY <1>1, <1>2, LostMoves

(* A request to close the channel is such a step.                        *)
LEMMA ClosingMoves ==
  ASSUME NEW s, Ready(s) PROVE Moves(s, [s EXCEPT !.closing = TRUE])
<1> DEFINE t == [s EXCEPT !.closing = TRUE]
<1>1. Typed(s) /\ IsCdo(s) /\ Fate(s)
  BY TypedIsCdo DEF Ready
<1>2. Typed(t) /\ Fate(t)
  BY <1>1, TypedFlag, ClosingFate
<1>3. Others(s, t, Controls)
  BY <1>1 DEF IsCdo, Others, Controls, Fields
<1> HIDE DEF t
<1>4. Moves(s, t)
  BY <1>2, <1>3, ControlsMoves
<1> QED BY <1>4 DEF t

(* The request that the channel satisfies is cancelled.                  *)
LEMMA RequestCancelledMoves ==
  ASSUME Inv(cdo), registry \subseteq Handler, RequestCancelled
  PROVE  Moves(cdo, cdo') /\ Inv(cdo') /\ registry' = registry
<1> DEFINE a == [cdo EXCEPT !.error = "CANCELLED"]
           e == [a EXCEPT !.status = "FAILED"]
           s == [e EXCEPT !.closing = TRUE]
<1>1. Ready(cdo) /\ IsCdo(cdo)
  BY TypedIsCdo DEF Inv, Ready
<1>2. cdo' = LoseChannel(s) /\ registry' = registry
  <2>1. TakeError(cdo, "CANCELLED") = e
    BY <1>1 DEF TakeError, IsCdo, Fields
  <2> HIDE DEF e
  <2> QED BY <2>1 DEF RequestCancelled
<1>3. Moves(cdo, a)
  <2>1. "CANCELLED" \in FieldType.error
    BY FieldTypes DEF ChannelError
  <2> QED BY <1>1, <2>1, AsideExcept, FieldNames DEF Aside
<1> HIDE DEF a
<1>4. Moves(a, e)
  <2>1. "FAILED" \in FieldType.status
    BY FieldTypes DEF ChannelStatus
  <2> QED BY <1>3, <2>1, AsideExcept, FieldNames DEF Aside, Moves
<1> HIDE DEF e
<1>5. Moves(e, s)
  BY <1>4, ClosingMoves DEF Moves
<1> HIDE DEF s
<1>6. Moves(cdo, s)
  BY <1>3, <1>4, <1>5, MovesTrans
<1> QED BY <1>2, <1>6, LostMoves

(* A handler leaves the bus, with its call if one is in flight, or joins *)
(* it.                                                                   *)
LEMMA HandlerComesOrGoesMoves ==
  ASSUME Inv(cdo), registry \subseteq Handler, NEW h \in Handler,
         HandlerVanishes(h) \/ HandlerAppears(h)
  PROVE  Moves(cdo, cdo') /\ Inv(cdo') /\ registry' \subseteq Handler
<1>1. cdo' = cdo /\ registry' \in {registry \ {h}, registry \cup {h}}
  BY DEF HandlerVanishes, HandlerAppears
<1>2. Moves(cdo, cdo)
  BY MovesSelf DEF Inv
<1> QED BY <1>1, <1>2

(* The idle source runs, or the handlers are let run, without disturbing *)
(* the fate: an operation that needs no approval lets them run when its  *)
(* idle source is used up.                                               *)
LEMMA ScheduleFate ==
  ASSUME NEW s, Fate(s), NEW t, Others(s, t, {"idle", "invoked_approvers_if_needed"}),
         t.idle => s.idle,
         s.invoked_approvers_if_needed => t.invoked_approvers_if_needed,
         t.idle = s.idle \/ t.invoked_approvers_if_needed \/ s.needs_approval
  PROVE  Fate(t)
<1>1. /\ t.trying_handler = s.trying_handler /\ t.handling = s.handling
      /\ t.deciding = s.deciding /\ t.adding = s.adding /\ t.result = s.result
      /\ t.tried_handlers_before_approval = s.tried_handlers_before_approval
      /\ t.criticals = s.criticals /\ t.ado_pending = s.ado_pending
      /\ t.possible_handlers = s.possible_handlers /\ t.approvals = s.approvals
      /\ t.handled_by = s.handled_by /\ t.channel = s.channel /\ t.closing = s.closing
      /\ t.accepted_by_an_approver = s.accepted_by_an_approver
      /\ t.needs_approval = s.needs_approval
  BY DEF Others, Fields
<1>2. Entries(t) = Entries(s) /\ IsInternal(t) = IsInternal(s)
  BY <1>1 DEF Entries, IsInternal
<1>3. Always(t)
  BY <1>1, <1>2 DEF Fate, Always
<1>4. Open(t)
  <2> SUFFICES ASSUME s.result = "none" PROVE Open(t)
    BY <1>1 DEF Open
  <2>1. PresentedToUser(t)
    BY <1>1, <1>2 DEF Fate, Open, PresentedToUser
  <2>2. Requested(t)
    BY <1>1, <1>2 DEF Fate, Open, Requested
  <2> QED BY <1>1, <1>2, <2>1, <2>2 DEF Fate, Open
<1>5. Settled(t) /\ Dropped(t)
  BY <1>1 DEF Fate, Settled, Dropped
<1> QED BY <1>3, <1>4, <1>5 DEF Fate

(* That is such a step.                                                  *)
LEMMA ScheduleMoves ==
  ASSUME NEW s, Ready(s), NEW t, Typed(t), Others(s, t, {"idle", "invoked_approvers_if_needed"}),
         t.idle => s.idle,
         s.invoked_approvers_if_needed => t.invoked_approvers_if_needed,
         t.idle = s.idle \/ t.invoked_approvers_if_needed \/ s.needs_approval
  PROVE  Moves(s, t)
<1>1. Fate(t)
  BY ScheduleFate DEF Ready
<1>2. Others(s, t, Controls)
  BY DEF Others, Controls, Fields
<1> QED BY <1>1, <1>2, ControlsMoves

(* mcd_dispatch_operation_idle_run_approvers: it asks the approvers, or  *)
(* goes on to the handlers of a request.                                 *)
LEMMA IdleRunApproversMoves ==
  ASSUME Inv(cdo), registry \subseteq Handler, NEW approvers \in SUBSET Approver,
         IdleRunApprovers(approvers)
  PROVE  Moves(cdo, cdo') /\ Inv(cdo') /\ registry' = registry
<1> DEFINE s == [cdo EXCEPT !.idle = FALSE]
           due == s.needs_approval /\ ~IsApproved(s)
           r == IF due THEN RunApprovers(s, approvers) ELSE s
           t == [r EXCEPT !.invoked_approvers_if_needed = TRUE]
           v == [s EXCEPT !.invoked_approvers_if_needed = TRUE]
<1>1. cdo' = CheckClientLocks(t) /\ registry' = registry /\ cdo.idle
  BY DEF IdleRunApprovers
<1>2. Ready(cdo) /\ Typed(cdo) /\ IsCdo(cdo)
  BY TypedIsCdo DEF Inv, Ready
<1>3. /\ Typed(s) /\ ~s.idle /\ Others(cdo, s, {"idle"})
  BY <1>2, TypedFlag DEF IsCdo, Fields, Others
<1> HIDE DEF s
<1>4. CASE ~due
  <2>1. t = v
    BY <1>4
  <2>2. IsCdo(s)
    BY <1>3, TypedIsCdo
  <2>3. Typed(v) /\ v.invoked_approvers_if_needed /\ ~v.idle
        /\ Others(s, v, {"invoked_approvers_if_needed"})
    BY <1>3, <2>2, TypedFlag DEF IsCdo, Fields, Others
  <2> HIDE DEF t, v
  <2>4. Others(cdo, v, {"idle", "invoked_approvers_if_needed"})
    BY <1>3, <2>3 DEF Others
  <2>5. Moves(cdo, v)
    BY <1>1, <1>2, <2>3, <2>4, ScheduleMoves
  <2> QED BY <1>1, <2>1, <2>5, CheckedMoves
<1>5. CASE due
  <2>1. /\ s.needs_approval = cdo.needs_approval /\ s.approvals = cdo.approvals
        /\ s.tried_handlers_before_approval = cdo.tried_handlers_before_approval
        /\ s.adding = cdo.adding
        /\ s.invoked_approvers_if_needed = cdo.invoked_approvers_if_needed
    BY <1>3 DEF Others, Fields
  <2>2. Moves(cdo, s)
    <3>1. Others(cdo, s, {"idle", "invoked_approvers_if_needed"})
      BY <1>3 DEF Others
    <3> QED BY <1>2, <1>3, <1>5, <2>1, <3>1, ScheduleMoves
  <2>3. s.tried_handlers_before_approval /\ s.adding = {} /\ s.approvals = <<>>
    BY <1>1, <1>2, <1>5, <2>1 DEF Ready, Fate, Always, IsApproved
  <2>4. Moves(s, r) /\ Ready(r)
    <3>1. r = RunApprovers(s, approvers)
      BY <1>5
    <3>2. Moves(s, RunApprovers(s, approvers))
      BY <1>3, <1>5, <2>2, <2>3, RunApproversMoves DEF Moves
    <3> HIDE DEF r
    <3> QED BY <3>1, <3>2 DEF Moves
  <2> HIDE DEF r
  <2>5. Typed(r) /\ IsCdo(r)
    BY <2>4, TypedIsCdo DEF Ready
  <2>6. Typed(t) /\ t.invoked_approvers_if_needed /\ t.idle = r.idle
        /\ Others(r, t, {"invoked_approvers_if_needed"})
    BY <2>5, TypedFlag DEF IsCdo, Fields, Others
  <2> HIDE DEF t
  <2>7. Others(r, t, {"idle", "invoked_approvers_if_needed"})
    BY <2>6 DEF Others
  <2>8. Moves(r, t)
    BY <2>4, <2>6, <2>7, ScheduleMoves
  <2>9. Moves(cdo, t)
    BY <2>2, <2>4, <2>8, MovesTrans
  <2> QED BY <1>1, <2>9, CheckedMoves
<1> QED BY <1>4, <1>5

(* An approver that returns leaves the lock counting the rest.           *)
LEMMA ApproverLeftFate ==
  ASSUME NEW s, Typed(s), Fate(s), s.adding # {},
         NEW t, Others(s, t, {"adding", "accepted_by_an_approver", "ado_pending", "criticals"}),
         t.adding \subseteq s.adding, s.criticals \subseteq t.criticals,
         s.result = "none" => t.criticals = s.criticals,
         t.criticals \cap Misuse = {} => t.ado_pending = Cardinality(t.adding)
  PROVE  Fate(t)
<1>1. /\ t.trying_handler = s.trying_handler /\ t.handling = s.handling
      /\ t.deciding = s.deciding /\ t.result = s.result /\ t.idle = s.idle
      /\ t.tried_handlers_before_approval = s.tried_handlers_before_approval
      /\ t.possible_handlers = s.possible_handlers /\ t.approvals = s.approvals
      /\ t.handled_by = s.handled_by /\ t.channel = s.channel /\ t.closing = s.closing
      /\ t.needs_approval = s.needs_approval
      /\ t.invoked_approvers_if_needed = s.invoked_approvers_if_needed
  BY DEF Others, Fields
<1>2. Entries(t) = Entries(s) /\ IsInternal(t) = IsInternal(s)
  BY <1>1 DEF Entries, IsInternal
<1>3. Always(t)
  BY <1>1, <1>2 DEF Fate, Always
<1>4. Open(t)
  <2> SUFFICES ASSUME s.result = "none" PROVE Open(t)
    BY <1>1 DEF Open
  <2>1. PresentedToUser(t)
    BY <1>1, <1>2 DEF Fate, Open, PresentedToUser
  <2>2. Requested(t)
    BY <1>1, <1>2 DEF Fate, Open, Requested
  <2> QED BY <1>1, <1>2, <2>1, <2>2 DEF Fate, Open
<1>5. Settled(t) /\ Dropped(t)
  BY <1>1 DEF Fate, Settled, Dropped
<1> QED BY <1>3, <1>4, <1>5 DEF Fate

(* add_dispatch_operation_cb: an approver returns, and says whether it   *)
(* takes the operation.                                                  *)
LEMMA ApproverHasReturned ==
  ASSUME Inv(cdo), NEW a \in Approver, NEW accepted \in BOOLEAN, ApproverReturns(a, accepted)
  PROVE  \E k :
           /\ cdo' = DecAdoPending(k) /\ registry' = registry
           /\ Typed(k) /\ Others(cdo, k, {"adding", "accepted_by_an_approver"})
           /\ k.ado_pending = 0 =>
                Moves(cdo, Report(k, "dec_ado_pending")) /\ k.result # "none"
           /\ k.ado_pending # 0 =>
                /\ Moves(cdo, Released(k))
                /\ k.result = "none" => k.tried_handlers_before_approval /\ k.needs_approval
<1> DEFINE v == cdo.adding \ {a}
           w == cdo.accepted_by_an_approver \/ accepted
           k == [cdo EXCEPT !.adding = v, !.accepted_by_an_approver = w]
           X == {"adding", "accepted_by_an_approver", "ado_pending", "criticals"}
           r == Report(k, "dec_ado_pending")
           d == Released(k)
<1>1. Ready(cdo) /\ Typed(cdo) /\ IsCdo(cdo) /\ Fate(cdo)
  BY TypedIsCdo DEF Inv, Ready
<1>2. a \in cdo.adding /\ registry' = registry
  BY DEF ApproverReturns
<1>3. cdo' = DecAdoPending(k)
  <2>1. k = [cdo EXCEPT !.adding = @ \ {a}, !.accepted_by_an_approver = @ \/ accepted]
    BY <1>1 DEF IsCdo, Fields
  <2> HIDE DEF k
  <2> QED BY <2>1 DEF ApproverReturns
<1>4. v \in FieldType.adding /\ w \in FieldType.accepted_by_an_approver /\ v \subseteq cdo.adding
  BY <1>1, TypedFields, FieldTypes
<1>5. /\ Cardinality(cdo.adding) \in Nat /\ Cardinality(cdo.adding) # 0
      /\ Cardinality(v) = Cardinality(cdo.adding) - 1
  BY <1>1, <1>2, TypedFields, ClientsAssumption, FS_Subset, RemoveOne
<1> HIDE DEF v, w
<1>6. Typed(k)
  BY <1>1, <1>4, TypedExcept2, FieldNames
<1>7. k.adding = v /\ Others(cdo, k, {"adding", "accepted_by_an_approver"})
  BY <1>1 DEF IsCdo, Fields, Others
<1> HIDE DEF k
<1>8. /\ k.result = cdo.result /\ k.criticals = cdo.criticals /\ k.ado_pending = cdo.ado_pending
      /\ k.needs_approval = cdo.needs_approval
      /\ k.tried_handlers_before_approval = cdo.tried_handlers_before_approval
  BY <1>7 DEF Others, Fields
<1>9. ASSUME NEW t, Typed(t), Fate(t), Others(cdo, t, X) PROVE Moves(cdo, t)
  <2>1. Others(cdo, t, Controls)
    BY <1>9 DEF Others, Controls, Fields
  <2> QED BY <1>1, <1>9, <2>1, ControlsMoves
<1>10. ASSUME k.ado_pending = 0 PROVE Moves(cdo, r) /\ k.result # "none"
  <2>1. cdo.result # "none"
    BY <1>1, <1>5, <1>8, <1>10 DEF Fate, Always, Open
  <2> DEFINE c == k.criticals \cup {"dec_ado_pending"}
             x == [k EXCEPT !.criticals = c]
  <2>2. r = x
    BY <1>6, TypedIsCdo DEF Report, IsCdo, Fields
  <2>3. Typed(r)
    BY <1>6, TypedReport DEF Critical
  <2>4. cdo.criticals \subseteq c /\ c \cap Misuse # {}
    BY <1>8 DEF Misuse
  <2> HIDE DEF c
  <2>5. Others(k, x, {"criticals"}) /\ x.criticals = c
    BY <1>6, TypedIsCdo DEF IsCdo, Fields, Others
  <2> HIDE DEF x, r
  <2>6. Others(cdo, r, X) /\ r.adding = v /\ r.criticals = c
    <3>1. Others(cdo, r, X)
      BY <1>7, <2>2, <2>5 DEF Others
    <3>2. r.adding = k.adding
      BY <2>2, <2>5, FieldNames DEF Others
    <3> QED BY <1>7, <2>2, <2>5, <3>1, <3>2
  <2> HIDE DEF X
  <2>7. Fate(r)
    <3>1. cdo.adding # {}
      BY <1>2
    <3> QED BY <1>1, <1>4, <2>1, <2>4, <2>6, <3>1, ApproverLeftFate DEF X
  <2> QED BY <1>8, <1>9, <2>1, <2>3, <2>6, <2>7
<1>11. ASSUME k.ado_pending # 0 PROVE Moves(cdo, d)
  <2> DEFINE n == k.ado_pending - 1
             x == [k EXCEPT !.ado_pending = n]
  <2>1. d = x
    BY DEF Released
  <2>2. n \in FieldType.ado_pending
    BY <1>6, <1>11, TypedFields, FieldTypes
  <2>3. cdo.criticals \cap Misuse = {} => n = Cardinality(v)
    BY <1>1, <1>5, <1>8 DEF Fate, Always
  <2> HIDE DEF n
  <2>4. Typed(x)
    BY <1>6, <2>2, TypedExcept, FieldNames
  <2>5. Others(k, x, {"ado_pending"}) /\ x.ado_pending = n
    BY <1>6, TypedIsCdo DEF IsCdo, Fields, Others
  <2> HIDE DEF x, d
  <2>6. x.adding = v /\ x.criticals = cdo.criticals
    BY <1>7, <1>8, <2>5, FieldNames DEF Others
  <2>7. Others(cdo, x, X)
    BY <1>7, <2>5 DEF Others
  <2> HIDE DEF X
  <2>8. Fate(x)
    <3>1. cdo.adding # {}
      BY <1>2
    <3> QED BY <1>1, <1>4, <2>3, <2>5, <2>6, <2>7, <3>1, ApproverLeftFate DEF X
  <2> QED BY <1>9, <2>1, <2>4, <2>7, <2>8
<1>12. k.result = "none" => k.tried_handlers_before_approval /\ k.needs_approval
  BY <1>1, <1>2, <1>8 DEF Fate, Always, Open, Requested
<1> HIDE DEF d, r
<1>13. /\ k.ado_pending = 0 => Moves(cdo, Report(k, "dec_ado_pending")) /\ k.result # "none"
       /\ k.ado_pending # 0 => Moves(cdo, Released(k))
  BY <1>10, <1>11 DEF d, r
<1> QED BY <1>2, <1>3, <1>6, <1>7, <1>12, <1>13

LEMMA ApproverReturnsMoves ==
  ASSUME Inv(cdo), registry \subseteq Handler, NEW a \in Approver,
         NEW accepted \in BOOLEAN, ApproverReturns(a, accepted)
  PROVE  Moves(cdo, cdo') /\ Inv(cdo') /\ registry' = registry
<1>1. PICK k : /\ cdo' = DecAdoPending(k) /\ registry' = registry
               /\ Typed(k)
               /\ k.ado_pending = 0 =>
                    Moves(cdo, Report(k, "dec_ado_pending")) /\ k.result # "none"
               /\ k.ado_pending # 0 =>
                    /\ Moves(cdo, Released(k))
                    /\ k.result = "none" => k.tried_handlers_before_approval /\ k.needs_approval
  BY ApproverHasReturned
<1>2. Moves(cdo, DecAdoPending(k)) /\ Inv(DecAdoPending(k))
  BY <1>1, DecAdoPendingMoves
<1> QED BY <1>1, <1>2

(* The fields a call of the bus writes.                                  *)
Talk == {"approvals", "reply", "asked", "claims"}

(* A step that writes only these keeps the operation awake.              *)
LEMMA TalkMoves ==
  ASSUME NEW s, Ready(s), NEW t, Typed(t), Fate(t), KeepsQueue(s, t), ClaimsInv(t),
         Others(s, t, Talk)
  PROVE  /\ Moves(s, t)
         /\ Awake(s) => Awake(t)
<1>1. /\ t.handled_by = s.handled_by /\ t.observing = s.observing
      /\ t.observers_pending = s.observers_pending
      /\ t.delay_approver_observers_pending = s.delay_approver_observers_pending
      /\ t.result = s.result /\ t.needs_approval = s.needs_approval
      /\ t.invoked_observers_if_needed = s.invoked_observers_if_needed
      /\ t.observe_only = s.observe_only /\ t.possible_handlers = s.possible_handlers
      /\ t.plugins_pending = s.plugins_pending
      /\ t.trying_handler = s.trying_handler /\ t.idle = s.idle
  BY DEF Others, Fields, Talk
<1>2. Owned(s, t) /\ ObserverLocks(t)
  BY <1>1 DEF Owned, Ready, ObserverLocks
<1>3. Awake(s) => Awake(t)
  BY <1>1 DEF Awake, IsInternal
<1> QED BY <1>2, <1>3 DEF Moves, Ready, KeepsQueue

(* Without the queue, they say nothing about the fate.                   *)
LEMMA TalkFate ==
  ASSUME NEW s, Fate(s), NEW t, Others(s, t, {"reply", "asked", "claims"})
  PROVE  Fate(t)
<1>1. /\ t.trying_handler = s.trying_handler /\ t.handling = s.handling
      /\ t.deciding = s.deciding /\ t.adding = s.adding /\ t.result = s.result
      /\ t.tried_handlers_before_approval = s.tried_handlers_before_approval
      /\ t.criticals = s.criticals /\ t.ado_pending = s.ado_pending
      /\ t.possible_handlers = s.possible_handlers /\ t.approvals = s.approvals
      /\ t.channel = s.channel /\ t.closing = s.closing /\ t.idle = s.idle
      /\ t.accepted_by_an_approver = s.accepted_by_an_approver
      /\ t.invoked_approvers_if_needed = s.invoked_approvers_if_needed
      /\ t.needs_approval = s.needs_approval /\ t.handled_by = s.handled_by
  BY DEF Others, Fields
<1>2. Entries(t) = Entries(s) /\ IsInternal(t) = IsInternal(s)
  BY <1>1 DEF Entries, IsInternal
<1>3. Always(t)
  BY <1>1, <1>2 DEF Fate, Always
<1>4. Open(t)
  BY <1>1, <1>2 DEF Fate, Open, PresentedToUser, Requested
<1>5. Settled(t) /\ Dropped(t)
  BY <1>1 DEF Fate, Settled, Dropped
<1> QED BY <1>3, <1>4, <1>5 DEF Fate

(* A caller that has not called waits nowhere.                           *)
LEMMA UncalledIsNew ==
  ASSUME NEW s, QueueInv(s), NEW c \in Caller, s.reply[c] = "uncalled"
  PROVE  ~Queued(s, c) /\ ~Pending(s, c)
<1>1. c # None
  BY NamesAssumption DEF Caller
<1> QED BY <1>1 DEF QueueInv, Queued

(* A call refused at once keeps the queue.                               *)
LEMMA RefuseKeeps ==
  ASSUME NEW s, Typed(s), QueueInv(s), NEW c \in Caller, s.reply[c] = "uncalled",
         NEW t, t.approvals = s.approvals, t.claims = s.claims,
         \A d \in Caller : t.reply[d] = IF d = c THEN "error" ELSE s.reply[d]
  PROVE  KeepsQueue(s, t)
<1>1. ~Queued(s, c) /\ ~Pending(s, c)
  BY UncalledIsNew
<1>2. \A d : (Pending(t, d) <=> Pending(s, d)) /\ (Queued(t, d) <=> Queued(s, d))
  BY DEF Pending, Queued
<1>3. \A i \in DOMAIN s.approvals :
        /\ s.approvals[i].caller # c
        /\ s.approvals[i].caller # None => s.approvals[i].caller \in Caller
  <2>1. s.approvals \in Seq(Approval)
    BY TypedFields
  <2>2. \A b \in Approval : b.caller \in Caller \cup {None}
    BY DEF Approval
  <2>3. \A i \in DOMAIN s.approvals : s.approvals[i] \in Approval
    BY <2>1
  <2> QED BY <1>1, <2>2, <2>3 DEF Queued
<1>4. QueueInv(t)
  <2>1. \A i \in DOMAIN t.approvals : t.approvals[i].caller # None =>
          /\ t.reply[t.approvals[i].caller] = "waiting"
          /\ ~Pending(t, t.approvals[i].caller)
    BY <1>2, <1>3 DEF QueueInv
  <2>2. \A i, j \in DOMAIN t.approvals :
          i # j /\ t.approvals[i].caller = t.approvals[j].caller => t.approvals[i].caller = None
    BY DEF QueueInv
  <2>3. \A d \in Caller : Pending(t, d) => t.reply[d] \in {"waiting", "error"}
    BY <1>2 DEF QueueInv
  <2>4. \A d \in Caller : t.reply[d] = "waiting" => Queued(t, d) \/ Pending(t, d)
    BY <1>2 DEF QueueInv
  <2> QED BY <2>1, <2>2, <2>3, <2>4 DEF QueueInv
<1>5. Answered(s, t)
  BY DEF Answered
<1> QED BY <1>4, <1>5 DEF KeepsQueue

(* An assignment to the reply of one call.                               *)
LEMMA ReplyFields ==
  ASSUME NEW s, Typed(s), NEW c \in Caller,
         NEW r \in {"uncalled", "waiting", "ok", "error"}
  PROVE  LET t == [s EXCEPT !.reply = [s.reply EXCEPT ![c] = r]]
         IN /\ Typed(t)
            /\ Others(s, t, {"reply"})
            /\ \A d \in Caller : t.reply[d] = IF d = c THEN r ELSE s.reply[d]
<1> DEFINE v == [s.reply EXCEPT ![c] = r]
           t == [s EXCEPT !.reply = v]
<1>1. v \in FieldType.reply /\ \A d \in Caller : v[d] = IF d = c THEN r ELSE s.reply[d]
  BY TypedFields, FieldTypes
<1> HIDE DEF v
<1>2. Typed(t)
  BY <1>1, TypedExcept, FieldNames
<1>3. t.reply = v /\ Others(s, t, {"reply"})
  BY TypedIsCdo DEF IsCdo, Fields, Others
<1> HIDE DEF t
<1> QED BY <1>1, <1>2, <1>3 DEF t, v

(* An approval that may join the queue joins it.                         *)
LEMMA AppendMoves ==
  ASSUME NEW s, Ready(s), NEW u, Typed(u), Others(s, u, {"reply", "asked", "claims"}),
         NEW a \in Approval, Welcome(s, a),
         NEW t, t = [u EXCEPT !.approvals = Append(u.approvals, a)],
         KeepsQueue(s, t), \A c \in Caller : Pending(u, c) => u.needs_approval
  PROVE  Moves(s, t)
<1> DEFINE q == Append(u.approvals, a)
           x == [u EXCEPT !.approvals = q]
<1>1. u.approvals = s.approvals
  BY DEF Others, Fields
<1>2. Typed(t)
  BY TypedAppend
<1>3. t = x
  OBVIOUS
<1> HIDE DEF q
<1>4. x.approvals = q /\ Others(u, x, {"approvals"})
  BY TypedIsCdo DEF IsCdo, Fields, Others
<1> HIDE DEF x
<1>5. Others(s, t, Talk)
  BY <1>3, <1>4 DEF Others, Talk
<1>6. t.approvals = Append(s.approvals, a)
  BY <1>1, <1>3, <1>4 DEF q
<1>7. Fate(t)
  BY <1>5, <1>6, AppendFate DEF Ready, Talk
<1>8. t.claims = u.claims /\ t.needs_approval = u.needs_approval
  BY <1>3, <1>4 DEF Others, Fields
<1>9. ClaimsInv(t)
  BY <1>8 DEF ClaimsInv, Pending
<1> QED BY <1>2, <1>5, <1>7, <1>9, TalkMoves

(* The entry of a request.                                               *)
RequestEntry(preferred) ==
  [type |-> "REQUESTED", client_bus_name |-> preferred, caller |-> None]

(* _mcd_dispatch_operation_approve: the dispatcher or a request gives    *)
(* its approval, which joins the queue.                                  *)
LEMMA ApprovalJoins ==
  ASSUME Inv(cdo), NEW preferred \in Handler \cup {None}, Approve(preferred)
  PROVE  \E t :
           /\ cdo' = CheckClientLocks(t) /\ registry' = registry
           /\ Moves(cdo, t) /\ Others(cdo, t, {"approvals"})
           /\ t.approvals = Append(cdo.approvals, RequestEntry(preferred))
<1> DEFINE a == RequestEntry(preferred)
           q == Append(cdo.approvals, a)
           t == [cdo EXCEPT !.approvals = q]
<1>1. Ready(cdo) /\ Typed(cdo) /\ IsCdo(cdo)
  BY TypedIsCdo DEF Inv, Ready
<1>2. cdo' = CheckClientLocks(t) /\ registry' = registry /\ cdo.needs_approval
  <2> HIDE DEF a
  <2>1. t = [cdo EXCEPT !.approvals = Append(@, a)]
    BY <1>1 DEF IsCdo, Fields
  <2> HIDE DEF t
  <2> QED BY <2>1 DEF Approve, a, RequestEntry
<1>3. a \in Approval /\ Welcome(cdo, a) /\ a.caller = None
  BY DEF Approval, ApprovalType, Welcome, RequestEntry
<1> HIDE DEF a
<1>4. t.approvals = q /\ t.reply = cdo.reply /\ t.claims = cdo.claims
  <2> HIDE DEF q
  <2> QED BY <1>1 DEF IsCdo, Fields
<1>5. KeepsQueue(cdo, t)
  <2> HIDE DEF t
  <2> QED BY <1>1, <1>3, <1>4, AppendKeeps DEF Ready
<1>6. Moves(cdo, t)
  <2>1. Others(cdo, cdo, {"reply", "asked", "claims"})
    BY DEF Others
  <2> HIDE DEF t
  <2>2. t = [cdo EXCEPT !.approvals = Append(cdo.approvals, a)]
    BY DEF t
  <2> QED BY <1>1, <1>2, <1>3, <1>5, <2>1, <2>2, AppendMoves
<1>7. Others(cdo, t, {"approvals"})
  <2> HIDE DEF q
  <2> QED BY <1>1 DEF IsCdo, Others
<1>8. t.approvals = Append(cdo.approvals, RequestEntry(preferred))
  BY <1>4 DEF a
<1> HIDE DEF t
<1> QED BY <1>2, <1>6, <1>7, <1>8

(* The locks are checked with it in the queue.                           *)
LEMMA ApproveMoves ==
  ASSUME Inv(cdo), registry \subseteq Handler, NEW preferred \in Handler \cup {None},
         Approve(preferred)
  PROVE  Moves(cdo, cdo') /\ Inv(cdo') /\ registry' = registry
<1>1. PICK t : cdo' = CheckClientLocks(t) /\ registry' = registry /\ Moves(cdo, t)
  BY ApprovalJoins
<1> QED BY <1>1, CheckedMoves

(* The entry of a HandleWith call.                                       *)
Invitation(c, name) ==
  [type |-> "HANDLE_WITH", client_bus_name |-> name, caller |-> c]

(* The entry of a Claim call.                                            *)
ClaimEntry(c) == [type |-> "CLAIM", client_bus_name |-> None, caller |-> c]

(* A call is not the absence of one.                                     *)
LEMMA CallerNotNone == ASSUME NEW c \in Caller PROVE c # None
  BY NamesAssumption DEF Caller

(* dispatch_operation_handle_with: a call with a handler, with none or   *)
(* with a bad name.                                                      *)
LEMMA HandleWithTold ==
  ASSUME Inv(cdo), NEW c \in HandleWithCaller,
         NEW name \in Handler \cup {None, BadName}, HandleWith(c, name)
  PROVE  \E t :
           /\ Moves(cdo, t) /\ registry' = registry
           /\ cdo.reply[c] = "uncalled" /\ cdo.needs_approval
           /\ t.asked = [cdo.asked EXCEPT ![c] = name]
           /\ \/ /\ cdo' = t /\ Inv(t) /\ Others(cdo, t, {"reply", "asked"})
                 /\ \A d \in Caller : t.reply[d] = IF d = c THEN "error" ELSE cdo.reply[d]
              \/ /\ cdo' = CheckClientLocks(t) /\ Others(cdo, t, {"reply", "asked", "approvals"})
                 /\ cdo.result = "none" /\ cdo.approvals = <<>>
                 /\ t.approvals = Append(cdo.approvals, Invitation(c, name))
                 /\ Invitation(c, name) \in Approval
                 /\ \A d \in Caller : t.reply[d] = IF d = c THEN "waiting" ELSE cdo.reply[d]
<1> DEFINE n == [cdo.asked EXCEPT ![c] = name]
           s == [cdo EXCEPT !.asked = n]
           a == Invitation(c, name)
           e == [s EXCEPT !.reply = [s.reply EXCEPT ![c] = "error"]]
           w == [s EXCEPT !.reply = [s.reply EXCEPT ![c] = "waiting"]]
           t == [w EXCEPT !.approvals = Append(w.approvals, a)]
           refused == s.result # "none" \/ s.approvals # <<>> \/ name = BadName
<1>1. Ready(cdo) /\ Typed(cdo) /\ IsCdo(cdo) /\ QueueInv(cdo)
  BY TypedIsCdo DEF Inv, Ready
<1>2. c \in Caller /\ cdo.reply[c] = "uncalled" /\ cdo.needs_approval /\ registry' = registry
  BY DEF HandleWith, Callable, Caller
<1>3. n \in FieldType.asked
  BY <1>1, TypedFields, FieldTypes
<1>4. s = [cdo EXCEPT !.asked[c] = name]
  BY <1>1 DEF IsCdo, Fields
<1>5. cdo' = IF refused THEN e ELSE CheckClientLocks(t)
  <2> HIDE DEF n
  <2>1. s.approvals = cdo.approvals /\ s.reply = cdo.reply /\ IsCdo(s)
    BY <1>1 DEF IsCdo, Fields
  <2> HIDE DEF s
  <2>2. e = [s EXCEPT !.reply[c] = "error"]
    BY <2>1 DEF IsCdo, Fields
  <2>3. t = [s EXCEPT !.reply[c] = "waiting", !.approvals = Append(@, a)]
    <3> DEFINE r == [s.reply EXCEPT ![c] = "waiting"]
    <3> HIDE DEF r, a
    <3>1. t = [s EXCEPT !.reply = r, !.approvals = Append(@, a)]
      BY <2>1 DEF IsCdo, Fields, r
    <3> HIDE DEF t
    <3> QED BY <2>1, <3>1 DEF IsCdo, Fields, r
  <2> HIDE DEF e, t
  <2> QED BY <1>4, <2>2, <2>3 DEF HandleWith, Invitation
<1> HIDE DEF n
<1>6. Typed(s) /\ Others(cdo, s, {"asked"}) /\ s.asked = n
  <2>1. Typed(s)
    BY <1>1, <1>3, TypedExcept, FieldNames
  <2> QED BY <1>1, <2>1 DEF IsCdo, Others, Fields
<1> HIDE DEF s
<1>7. /\ s.reply = cdo.reply /\ s.approvals = cdo.approvals /\ s.claims = cdo.claims
      /\ s.result = cdo.result
  BY <1>6 DEF Others, Fields
<1>8. ~Queued(cdo, c) /\ ~Pending(cdo, c)
  BY <1>1, <1>2, UncalledIsNew
<1>11. n = [cdo.asked EXCEPT ![c] = name]
  BY DEF n
<1>9. CASE refused
  <2>1. Typed(e) /\ Others(s, e, {"reply"})
        /\ \A d \in Caller : e.reply[d] = IF d = c THEN "error" ELSE s.reply[d]
    BY <1>2, <1>6, ReplyFields
  <2> HIDE DEF e
  <2>2. Others(cdo, e, {"reply", "asked", "claims"}) /\ Others(cdo, e, Talk)
    BY <1>6, <2>1 DEF Others, Talk
  <2>3. e.approvals = cdo.approvals /\ e.claims = cdo.claims /\ e.needs_approval = cdo.needs_approval
    BY <1>6, <2>1 DEF Others, Fields
  <2>4. KeepsQueue(cdo, e)
    BY <1>1, <1>2, <1>7, <2>1, <2>3, RefuseKeeps
  <2>5. Fate(e) /\ ClaimsInv(e)
    BY <1>1, <2>2, <2>3, TalkFate DEF Ready, ClaimsInv, Pending
  <2>6. Moves(cdo, e) /\ Inv(e)
    BY <1>1, <2>1, <2>2, <2>4, <2>5, TalkMoves DEF Inv, Moves
  <2>7. Others(cdo, e, {"reply", "asked"}) /\ e.asked = n
    BY <1>6, <2>1 DEF Others, Fields
  <2>8. \A d \in Caller : e.reply[d] = IF d = c THEN "error" ELSE cdo.reply[d]
    BY <1>7, <2>1
  <2>9. cdo' = e
    BY <1>5, <1>9
  <2> QED BY <1>2, <1>11, <2>6, <2>7, <2>8, <2>9
<1>10. CASE ~refused
  <2>1. Typed(w) /\ Others(s, w, {"reply"})
        /\ \A d \in Caller : w.reply[d] = IF d = c THEN "waiting" ELSE s.reply[d]
    BY <1>2, <1>6, ReplyFields
  <2> HIDE DEF w
  <2>2. Others(cdo, w, {"reply", "asked", "claims"})
    BY <1>6, <2>1 DEF Others
  <2>3. /\ w.approvals = cdo.approvals /\ w.claims = cdo.claims
        /\ w.needs_approval = cdo.needs_approval
    BY <1>6, <2>1 DEF Others, Fields
  <2>4. a \in Approval /\ Welcome(cdo, a) /\ a.caller = c
    <3>1. name \in Handler \cup {None} /\ c # None
      BY <1>2, <1>10, CallerNotNone
    <3> QED BY <1>2, <3>1 DEF Approval, ApprovalType, Welcome, Invitation
  <2> HIDE DEF a
  <2>5. t.approvals = Append(cdo.approvals, a) /\ t.reply = w.reply /\ t.claims = cdo.claims
    <3> DEFINE q == Append(w.approvals, a)
               x == [w EXCEPT !.approvals = q]
    <3> HIDE DEF q
    <3>1. x.approvals = q /\ x.reply = w.reply /\ x.claims = w.claims
      BY <2>1, TypedIsCdo DEF IsCdo, Fields
    <3> QED BY <2>3, <3>1 DEF x, q
  <2>6. KeepsQueue(cdo, t)
    <3> HIDE DEF t
    <3>1. \A d \in Caller : t.reply[d] = IF d = c THEN "waiting" ELSE cdo.reply[d]
      BY <1>7, <2>1, <2>5
    <3>2. \A d : Pending(t, d) <=> Pending(cdo, d)
      BY <2>5 DEF Pending
    <3> QED BY <1>1, <1>2, <1>8, <2>4, <2>5, <3>1, <3>2, CallKeeps
  <2>8. Others(w, t, {"approvals"})
    <3> DEFINE q == Append(w.approvals, a)
               x == [w EXCEPT !.approvals = q]
    <3> HIDE DEF q
    <3>1. Others(w, x, {"approvals"})
      BY <2>1, TypedIsCdo DEF IsCdo, Others
    <3> QED BY <3>1 DEF x, q
  <2> HIDE DEF t
  <2>7. Moves(cdo, t)
    BY <1>1, <1>2, <2>1, <2>2, <2>3, <2>4, <2>6, AppendMoves DEF t
  <2>9. Others(cdo, t, {"reply", "asked", "approvals"}) /\ t.asked = n
    BY <1>6, <2>1, <2>8 DEF Others, Fields
  <2>10. \A d \in Caller : t.reply[d] = IF d = c THEN "waiting" ELSE cdo.reply[d]
    BY <1>7, <2>1, <2>5
  <2>11. cdo' = CheckClientLocks(t) /\ cdo.result = "none" /\ cdo.approvals = <<>>
    BY <1>5, <1>7, <1>10
  <2> QED BY <1>2, <1>11, <2>4, <2>5, <2>7, <2>9, <2>10, <2>11 DEF a
<1> QED BY <1>9, <1>10

(* Either way the invariant is kept, once the locks are checked.         *)
LEMMA HandleWithMoves ==
  ASSUME Inv(cdo), registry \subseteq Handler, NEW c \in HandleWithCaller,
         NEW name \in Handler \cup {None, BadName}, HandleWith(c, name)
  PROVE  Moves(cdo, cdo') /\ Inv(cdo') /\ registry' = registry
<1>1. PICK t : /\ Moves(cdo, t) /\ registry' = registry
               /\ (cdo' = t /\ Inv(t)) \/ cdo' = CheckClientLocks(t)
  BY HandleWithTold
<1> QED BY <1>1, CheckedMoves

(* claim_attempt_resolve: the plugins have looked at the claim, which is *)
(* queued or refused.                                                    *)
LEMMA ClaimJoins ==
  ASSUME Ready(cdo), NEW c \in ClaimCaller, NEW w, Typed(w),
         Others(cdo, w, {"reply", "asked", "claims"}), cdo.needs_approval,
         w.reply[c] = "waiting", cdo.reply[c] \notin {"ok", "error"},
         \A d \in Caller : d # c => w.reply[d] = cdo.reply[d],
         ~Queued(cdo, c), ~Pending(w, c),
         \A d \in Caller : d # c => (Pending(w, d) <=> Pending(cdo, d))
  PROVE  \E t :
           /\ ResolveClaim(w, c) = CheckClientLocks(t)
           /\ Moves(cdo, t) /\ Others(w, t, {"approvals"})
           /\ t.approvals = Append(cdo.approvals, ClaimEntry(c))
           /\ ClaimEntry(c) \in Approval
<1> DEFINE a == ClaimEntry(c)
           q == Append(w.approvals, a)
           t == [w EXCEPT !.approvals = q]
<1>1. c \in Caller /\ c # None
  BY CallerNotNone DEF Caller
<1>2. a \in Approval /\ Welcome(cdo, a) /\ a.caller = c
  BY <1>1 DEF Approval, ApprovalType, Welcome, ClaimEntry
<1>3. ResolveClaim(w, c) = CheckClientLocks(t)
  <2> HIDE DEF a
  <2>1. t = [w EXCEPT !.approvals = Append(@, a)]
    BY TypedIsCdo DEF IsCdo, Fields
  <2> HIDE DEF t
  <2> QED BY <2>1 DEF ResolveClaim, ClaimEntry, a
<1> HIDE DEF a
<1>4. w.approvals = cdo.approvals /\ w.needs_approval = cdo.needs_approval
  BY DEF Others, Fields
<1>5. t.approvals = Append(cdo.approvals, a) /\ t.reply = w.reply /\ t.claims = w.claims
  <2>1. t.approvals = q /\ t.reply = w.reply /\ t.claims = w.claims
    <3> HIDE DEF q
    <3> QED BY TypedIsCdo DEF IsCdo, Fields
  <2> QED BY <1>4, <2>1
<1>6. KeepsQueue(cdo, t)
  <2> HIDE DEF t
  <2>1. \A d \in Caller : t.reply[d] = IF d = c THEN "waiting" ELSE cdo.reply[d]
    BY <1>5
  <2>2. \A d : Pending(t, d) <=> Pending(w, d)
    BY <1>5 DEF Pending
  <2> QED BY <1>1, <1>2, <1>5, <2>1, <2>2, CallKeeps DEF Ready
<1>7. Moves(cdo, t)
  <2> HIDE DEF t
  <2> QED BY <1>2, <1>4, <1>6, AppendMoves DEF t, q
<1>8. Others(w, t, {"approvals"})
  <2> HIDE DEF q
  <2> QED BY TypedIsCdo DEF IsCdo, Others
<1> HIDE DEF t
<1> QED BY <1>2, <1>3, <1>5, <1>7, <1>8 DEF a

(* The locks are checked with it in the queue.                           *)
LEMMA ResolveMoves ==
  ASSUME Ready(cdo), registry \subseteq Handler, NEW c \in ClaimCaller, NEW w, Typed(w),
         Others(cdo, w, {"reply", "asked", "claims"}), cdo.needs_approval,
         w.reply[c] = "waiting", cdo.reply[c] \notin {"ok", "error"},
         \A d \in Caller : d # c => w.reply[d] = cdo.reply[d],
         ~Queued(cdo, c), ~Pending(w, c),
         \A d \in Caller : d # c => (Pending(w, d) <=> Pending(cdo, d))
  PROVE  Moves(cdo, ResolveClaim(w, c)) /\ Inv(ResolveClaim(w, c))
<1>1. PICK t : ResolveClaim(w, c) = CheckClientLocks(t) /\ Moves(cdo, t)
  BY ClaimJoins
<1> QED BY <1>1, CheckedMoves

(* dispatch_operation_claim: a Claim, refused, queued or looked at by    *)
(* plugins first.                                                        *)
LEMMA ClaimMoves ==
  ASSUME Inv(cdo), registry \subseteq Handler, NEW c \in ClaimCaller, Claim(c)
  PROVE  Moves(cdo, cdo') /\ Inv(cdo') /\ registry' = registry
<1> DEFINE e == [cdo EXCEPT !.reply = [cdo.reply EXCEPT ![c] = "error"]]
           w == [cdo EXCEPT !.reply = [cdo.reply EXCEPT ![c] = "waiting"]]
           m == [w.claims EXCEPT ![c] = Plugin]
           t == [w EXCEPT !.claims = m]
<1>1. Ready(cdo) /\ Typed(cdo) /\ IsCdo(cdo) /\ QueueInv(cdo)
  BY TypedIsCdo DEF Inv, Ready
<1>2. c \in Caller /\ cdo.reply[c] = "uncalled" /\ cdo.needs_approval /\ registry' = registry
  BY DEF Claim, Callable, Caller
<1>3. /\ e = [cdo EXCEPT !.reply[c] = "error"]
      /\ w = [cdo EXCEPT !.reply[c] = "waiting"]
  BY <1>1 DEF IsCdo, Fields
<1>4. Typed(e) /\ Others(cdo, e, {"reply"})
      /\ \A d \in Caller : e.reply[d] = IF d = c THEN "error" ELSE cdo.reply[d]
  BY <1>1, <1>2, ReplyFields
<1>5. Typed(w) /\ Others(cdo, w, {"reply"})
      /\ \A d \in Caller : w.reply[d] = IF d = c THEN "waiting" ELSE cdo.reply[d]
  BY <1>1, <1>2, ReplyFields
<1> HIDE DEF e, w
<1>6. t = [w EXCEPT !.claims[c] = Plugin]
  BY <1>5, TypedIsCdo DEF IsCdo, Fields
<1>7. cdo' = IF cdo.result # "none" THEN e
             ELSE IF Plugin = {} THEN ResolveClaim(w, c) ELSE t
  <2> HIDE DEF t
  <2> QED BY <1>3, <1>6 DEF Claim
<1>8. ~Queued(cdo, c) /\ ~Pending(cdo, c)
  BY <1>1, <1>2, UncalledIsNew
<1>9. CASE cdo.result # "none"
  <2>1. Others(cdo, e, {"reply", "asked", "claims"}) /\ Others(cdo, e, Talk)
    BY <1>4 DEF Others, Talk
  <2>2. e.approvals = cdo.approvals /\ e.claims = cdo.claims /\ e.needs_approval = cdo.needs_approval
    BY <1>4 DEF Others, Fields
  <2>3. KeepsQueue(cdo, e)
    BY <1>1, <1>2, <1>4, <2>2, RefuseKeeps
  <2>4. Fate(e) /\ ClaimsInv(e)
    BY <1>1, <2>1, <2>2, TalkFate DEF Ready, ClaimsInv, Pending
  <2>5. Moves(cdo, e) /\ Inv(e)
    BY <1>1, <1>4, <2>1, <2>3, <2>4, TalkMoves DEF Inv, Moves
  <2> QED BY <1>2, <1>7, <1>9, <2>5
<1>10. w.claims = cdo.claims
  BY <1>5 DEF Others, Fields
<1>11. CASE cdo.result = "none" /\ Plugin = {}
  <2>1. Others(cdo, w, {"reply", "asked", "claims"})
    BY <1>5 DEF Others
  <2>2. \A d : Pending(w, d) <=> Pending(cdo, d)
    BY <1>10 DEF Pending
  <2>3. Moves(cdo, ResolveClaim(w, c)) /\ Inv(ResolveClaim(w, c))
    BY <1>1, <1>2, <1>5, <1>8, <2>1, <2>2, ResolveMoves
  <2> QED BY <1>2, <1>7, <1>11, <2>3
<1>12. CASE cdo.result = "none" /\ Plugin # {}
  <2>1. m \in FieldType.claims /\ m[c] = Plugin /\ \A d \in ClaimCaller : d # c => m[d] = cdo.claims[d]
    BY <1>1, <1>10, TypedFields, FieldTypes
  <2> HIDE DEF m
  <2>2. Typed(t)
    BY <1>5, <2>1, TypedExcept, FieldNames
  <2>3. t.claims = m /\ Others(w, t, {"claims"})
    BY <1>5, TypedIsCdo DEF IsCdo, Fields, Others
  <2> HIDE DEF t
  <2>4. t.approvals = cdo.approvals /\ t.reply = w.reply /\ t.needs_approval = cdo.needs_approval
    BY <1>5, <2>3 DEF Others, Fields
  <2>5. Others(cdo, t, {"reply", "asked", "claims"}) /\ Others(cdo, t, Talk)
    BY <1>5, <2>3 DEF Others, Talk
  <2>6. \A d : Pending(t, d) <=> Pending(cdo, d) \/ d = c
    BY <1>12, <2>1, <2>3 DEF Pending
  <2>7. KeepsQueue(cdo, t)
    <3>1. \A i \in DOMAIN cdo.approvals :
            /\ cdo.approvals[i].caller # c
            /\ cdo.approvals[i].caller # None => cdo.approvals[i].caller \in Caller
      <4>1. cdo.approvals \in Seq(Approval)
        BY <1>1, TypedFields
      <4>2. \A b \in Approval : b.caller \in Caller \cup {None}
        BY DEF Approval
      <4>3. \A i \in DOMAIN cdo.approvals : cdo.approvals[i] \in Approval
        BY <4>1
      <4> QED BY <1>8, <4>2, <4>3 DEF Queued
    <3>2. \A d \in Caller : t.reply[d] = IF d = c THEN "waiting" ELSE cdo.reply[d]
      BY <1>5, <2>4
    <3>3. \A d : Queued(t, d) <=> Queued(cdo, d)
      BY <2>4 DEF Queued
    <3>4. \A i \in DOMAIN t.approvals : t.approvals[i].caller # None =>
            /\ t.reply[t.approvals[i].caller] = "waiting"
            /\ ~Pending(t, t.approvals[i].caller)
      BY <1>1, <2>4, <2>6, <3>1, <3>2 DEF QueueInv
    <3>5. \A i, j \in DOMAIN t.approvals :
            i # j /\ t.approvals[i].caller = t.approvals[j].caller => t.approvals[i].caller = None
      BY <1>1, <2>4 DEF QueueInv
    <3>6. \A d \in Caller : Pending(t, d) => t.reply[d] \in {"waiting", "error"}
      BY <1>1, <2>6, <3>2 DEF QueueInv
    <3>7. \A d \in Caller : t.reply[d] = "waiting" => Queued(t, d) \/ Pending(t, d)
      BY <1>1, <2>6, <3>2, <3>3 DEF QueueInv
    <3>8. Answered(cdo, t)
      BY <1>2, <3>2 DEF Answered
    <3> QED BY <3>4, <3>5, <3>6, <3>7, <3>8 DEF QueueInv, KeepsQueue
  <2>8. Fate(t) /\ ClaimsInv(t)
    BY <1>1, <1>2, <2>4, <2>5, TalkFate DEF Ready, ClaimsInv
  <2>9. Moves(cdo, t) /\ Inv(t)
    BY <1>1, <2>2, <2>5, <2>7, <2>8, TalkMoves DEF Inv, Moves
  <2> QED BY <1>2, <1>7, <1>12, <2>9
<1> QED BY <1>9, <1>11, <1>12

(* claim_attempt_suitability_cb: a plugin has looked at a claim.         *)
LEMMA ClaimSuitabilityMoves ==
  ASSUME Inv(cdo), registry \subseteq Handler, NEW c \in ClaimCaller, NEW p \in Plugin,
         NEW suitable \in BOOLEAN, ClaimSuitability(c, p, suitable)
  PROVE  Moves(cdo, cdo') /\ Inv(cdo') /\ registry' = registry
<1> DEFINE m == [cdo.claims EXCEPT ![c] = cdo.claims[c] \ {p}]
           x == IF suitable THEN cdo.reply[c] ELSE "error"
           v == [cdo.reply EXCEPT ![c] = x]
           s == [cdo EXCEPT !.claims = m, !.reply = v]
           done == s.claims[c] = {} /\ s.reply[c] = "waiting"
<1>1. Ready(cdo) /\ Typed(cdo) /\ IsCdo(cdo) /\ QueueInv(cdo) /\ ClaimsInv(cdo)
  BY TypedIsCdo DEF Inv, Ready
<1>2. c \in Caller /\ p \in cdo.claims[c] /\ registry' = registry
  BY DEF ClaimSuitability, Caller
<1>3. Pending(cdo, c) /\ cdo.needs_approval /\ cdo.reply[c] \in {"waiting", "error"}
      /\ ~Queued(cdo, c)
  <2>1. Pending(cdo, c)
    BY <1>2 DEF Pending
  <2>2. cdo.needs_approval /\ cdo.reply[c] \in {"waiting", "error"}
    BY <1>1, <1>2, <2>1 DEF ClaimsInv, QueueInv
  <2>3. ~Queued(cdo, c)
    BY <1>1, <1>2, <2>1, CallerNotNone DEF Queued, QueueInv
  <2> QED BY <2>1, <2>2, <2>3
<1>4. s = [cdo EXCEPT !.claims[c] = @ \ {p}, !.reply[c] = IF suitable THEN @ ELSE "error"]
  BY <1>1 DEF IsCdo, Fields
<1>5. cdo' = IF done THEN ResolveClaim(s, c) ELSE s
  <2> HIDE DEF s
  <2> QED BY <1>4 DEF ClaimSuitability
<1>6. /\ m \in FieldType.claims /\ m[c] \subseteq cdo.claims[c]
      /\ \A d \in ClaimCaller : d # c => m[d] = cdo.claims[d]
  BY <1>1, TypedFields, FieldTypes
<1>7. /\ v \in FieldType.reply /\ v[c] \in {cdo.reply[c], "error"}
      /\ \A d \in Caller : d # c => v[d] = cdo.reply[d]
  BY <1>1, <1>2, TypedFields, FieldTypes
<1> HIDE DEF m, v
<1>8. Typed(s)
  BY <1>1, <1>6, <1>7, TypedExcept2, FieldNames
<1>9. s.claims = m /\ s.reply = v /\ Others(cdo, s, {"claims", "reply"})
  <2>1. s.claims = m /\ s.reply = v
    BY <1>1 DEF IsCdo, Fields
  <2> QED BY <1>1, <2>1 DEF IsCdo, Others
<1> HIDE DEF s
<1>10. s.approvals = cdo.approvals /\ s.needs_approval = cdo.needs_approval
  BY <1>9 DEF Others, Fields
<1>11. Others(cdo, s, {"reply", "asked", "claims"}) /\ Others(cdo, s, Talk)
  BY <1>9 DEF Others, Talk
<1>12. /\ \A d \in Caller : d # c => (Pending(s, d) <=> Pending(cdo, d))
       /\ Pending(s, c) <=> s.claims[c] # {}
  BY <1>6, <1>9 DEF Pending
<1>13. CASE done
  <2>1. cdo.reply[c] = "waiting" /\ ~Pending(s, c)
    BY <1>7, <1>9, <1>12, <1>13
  <2>2. Moves(cdo, ResolveClaim(s, c)) /\ Inv(ResolveClaim(s, c))
    BY <1>1, <1>3, <1>7, <1>8, <1>9, <1>11, <1>12, <1>13, <2>1, ResolveMoves
  <2> QED BY <1>2, <1>5, <1>13, <2>2
<1>14. CASE ~done
  <2>1. KeepsQueue(cdo, s)
    <3>1. \A i \in DOMAIN cdo.approvals :
            /\ cdo.approvals[i].caller # c
            /\ cdo.approvals[i].caller # None => cdo.approvals[i].caller \in Caller
      <4>1. cdo.approvals \in Seq(Approval)
        BY <1>1, TypedFields
      <4>2. \A b \in Approval : b.caller \in Caller \cup {None}
        BY DEF Approval
      <4>3. \A i \in DOMAIN cdo.approvals : cdo.approvals[i] \in Approval
        BY <4>1
      <4> QED BY <1>3, <4>2, <4>3 DEF Queued
    <3>2. \A d : Queued(s, d) <=> Queued(cdo, d)
      BY <1>10 DEF Queued
    <3>3. \A i \in DOMAIN s.approvals : s.approvals[i].caller # None =>
            /\ s.reply[s.approvals[i].caller] = "waiting"
            /\ ~Pending(s, s.approvals[i].caller)
      BY <1>1, <1>7, <1>9, <1>10, <1>12, <3>1 DEF QueueInv
    <3>4. \A i, j \in DOMAIN s.approvals :
            i # j /\ s.approvals[i].caller = s.approvals[j].caller => s.approvals[i].caller = None
      BY <1>1, <1>10 DEF QueueInv
    <3>5. \A d \in Caller : Pending(s, d) => s.reply[d] \in {"waiting", "error"}
      BY <1>1, <1>3, <1>7, <1>9, <1>12 DEF QueueInv
    <3>6. \A d \in Caller : s.reply[d] = "waiting" => Queued(s, d) \/ Pending(s, d)
      BY <1>1, <1>7, <1>9, <1>12, <1>14, <3>2 DEF QueueInv
    <3>7. Answered(cdo, s)
      BY <1>3, <1>7, <1>9 DEF Answered
    <3> QED BY <3>3, <3>4, <3>5, <3>6, <3>7 DEF QueueInv, KeepsQueue
  <2>2. Fate(s) /\ ClaimsInv(s)
    BY <1>1, <1>3, <1>10, <1>11, TalkFate DEF Ready, ClaimsInv
  <2>3. Moves(cdo, s) /\ Inv(s)
    BY <1>1, <1>8, <1>11, <2>1, <2>2, TalkMoves DEF Inv, Moves
  <2> QED BY <1>2, <1>5, <1>14, <2>3
<1> QED BY <1>13, <1>14

(* The places of the HandleWith calls that insist on a handler.          *)
Insistent(s, h) == {i \in DOMAIN s.approvals : InsistsOn(s.approvals[i], h)}

(* The replies when these are refused.                                   *)
TurnedAway(s, h) ==
  [c \in Caller |->
     IF \E a \in QueuedCalls(s) : InsistsOn(a, h) /\ a.caller = c
     THEN "error" ELSE s.reply[c]]

(* What the failure of a handler writes.                                 *)
LEMMA HandlerTurnedDownFields ==
  ASSUME NEW s, Typed(s), NEW h \in Handler
  PROVE  LET f == HandlerTurnedDown(s, h)
         IN /\ Others(s, f, {"failed_handlers", "approvals", "reply"})
            /\ f.approvals = Without(s.approvals, Insistent(s, h))
            /\ f.reply = TurnedAway(s, h)
<1> DEFINE b == s.failed_handlers \cup {h}
           q == Without(s.approvals, {i \in DOMAIN s.approvals : InsistsOn(s.approvals[i], h)})
           r == [c \in Caller |->
                  IF \E a \in QueuedCalls(s) : InsistsOn(a, h) /\ a.caller = c
                  THEN "error" ELSE s.reply[c]]
           f == [[s EXCEPT !.failed_handlers = b] EXCEPT !.approvals = q, !.reply = r]
<1>1. HandlerTurnedDown(s, h) = f
  <2> HIDE DEF r
  <2>1. f = [s EXCEPT !.failed_handlers = b, !.approvals = q, !.reply = r]
    <3> HIDE DEF b, q
    <3> QED BY TypedIsCdo DEF IsCdo, Fields
  <2>2. [s EXCEPT !.failed_handlers = b, !.approvals = q, !.reply = r]
        = [s EXCEPT !.failed_handlers = @ \cup {h},
             !.approvals = Without(@, {i \in DOMAIN @ : InsistsOn(@[i], h)}), !.reply = r]
    BY TypedIsCdo DEF IsCdo, Fields
  <2> HIDE DEF b, q, f
  <2> QED BY <2>1, <2>2 DEF HandlerTurnedDown, r
<1>2. q = Without(s.approvals, Insistent(s, h)) /\ r = TurnedAway(s, h)
  BY DEF Insistent, TurnedAway
<1> HIDE DEF b, q, r
<1>3. Others(s, f, {"failed_handlers", "approvals", "reply"})
  BY TypedIsCdo DEF IsCdo, Others
<1>4. f.approvals = q /\ f.reply = r
  BY TypedIsCdo DEF IsCdo, Fields
<1> HIDE DEF f
<1> QED BY <1>1, <1>2, <1>3, <1>4

(* The calls that insisted on it are answered once and leave the queue;  *)
(* the others stay.                                                      *)
LEMMA TurnedAwayKeeps ==
  ASSUME NEW s, Typed(s), QueueInv(s), NEW h \in Handler,
         NEW t, t.approvals = Without(s.approvals, Insistent(s, h)),
         t.reply = TurnedAway(s, h), t.claims = s.claims
  PROVE  KeepsQueue(s, t) /\ Entries(t) \subseteq Entries(s)
<1> DEFINE q == s.approvals
           p == t.approvals
           gone == Insistent(s, h)
<1>1. q \in Seq(Approval) /\ \A i \in DOMAIN q : q[i].caller \in Caller \cup {None}
  <2>1. q \in Seq(Approval) /\ \A i \in DOMAIN q : q[i] \in Approval
    BY TypedFields
  <2>2. \A b \in Approval : b.caller \in Caller \cup {None}
    BY DEF Approval
  <2> QED BY <2>1, <2>2
<1>2. gone \subseteq DOMAIN q /\ \A i \in DOMAIN q : i \in gone <=> InsistsOn(q[i], h)
  BY DEF Insistent
<1>3. /\ \A n \in DOMAIN p : \E i \in DOMAIN q \ gone : p[n] = q[i]
      /\ \A n, m \in DOMAIN p : n # m =>
           \E i, j \in DOMAIN q \ gone : i # j /\ p[n] = q[i] /\ p[m] = q[j]
      /\ \A i \in DOMAIN q \ gone : \E n \in DOMAIN p : p[n] = q[i]
  <2> DEFINE w == Without(q, gone)
  <2>1. \A n \in DOMAIN w : \E i \in DOMAIN q \ gone : w[n] = q[i]
    <3> HIDE DEF q, gone
    <3> QED BY <1>1, WithoutSome
  <2>3. \A n, m \in DOMAIN w : n # m =>
          \E i, j \in DOMAIN q \ gone : i # j /\ w[n] = q[i] /\ w[m] = q[j]
    <3> HIDE DEF q, gone
    <3> QED BY <1>1, WithoutSome
  <2>4. \A i \in DOMAIN q \ gone : \E n \in DOMAIN w : w[n] = q[i]
    <3> HIDE DEF q, gone
    <3> QED BY <1>1, WithoutSome
  <2>2. p = w
    OBVIOUS
  <2> HIDE DEF w, p, q, gone
  <2> QED BY <2>1, <2>2, <2>3, <2>4
<1>4. \A c \in Caller : TurnedAway(s, h)[c] =
        IF \E i \in gone : q[i].caller = c THEN "error" ELSE s.reply[c]
  <2> SUFFICES ASSUME NEW c \in Caller
               PROVE  TurnedAway(s, h)[c] =
                        IF \E i \in gone : q[i].caller = c THEN "error" ELSE s.reply[c]
    OBVIOUS
  <2>1. (\E a \in QueuedCalls(s) : InsistsOn(a, h) /\ a.caller = c)
        <=> (\E i \in gone : q[i].caller = c)
    <3>1. c # None
      BY CallerNotNone
    <3> QED BY <1>2, <3>1 DEF QueuedCalls
  <2> QED BY <2>1 DEF TurnedAway
<1> HIDE DEF gone
<1>5. \A d : Pending(t, d) <=> Pending(s, d)
  BY DEF Pending
<1>6. \A i \in DOMAIN q : q[i].caller # None =>
        /\ s.reply[q[i].caller] = "waiting" /\ ~Pending(s, q[i].caller)
  BY DEF QueueInv
<1>7. \A i, j \in DOMAIN q : i # j /\ q[i].caller = q[j].caller => q[i].caller = None
  BY DEF QueueInv
<1>8. QueueInv(t)
  <2>1. \A n \in DOMAIN t.approvals : t.approvals[n].caller # None =>
          /\ t.reply[t.approvals[n].caller] = "waiting"
          /\ ~Pending(t, t.approvals[n].caller)
    <3> SUFFICES ASSUME NEW n \in DOMAIN p, p[n].caller # None
                 PROVE  t.reply[p[n].caller] = "waiting" /\ ~Pending(t, p[n].caller)
      OBVIOUS
    <3>1. PICK i \in DOMAIN q \ gone : p[n] = q[i]
      BY <1>3
    <3>2. q[i].caller \in Caller /\ ~\E j \in gone : q[j].caller = q[i].caller
      BY <1>1, <1>2, <1>7, <3>1
    <3> QED BY <1>4, <1>5, <1>6, <3>1, <3>2
  <2>2. \A n, m \in DOMAIN t.approvals :
          n # m /\ t.approvals[n].caller = t.approvals[m].caller => t.approvals[n].caller = None
    <3> SUFFICES ASSUME NEW n \in DOMAIN p, NEW m \in DOMAIN p, n # m,
                        p[n].caller = p[m].caller
                 PROVE  p[n].caller = None
      OBVIOUS
    <3>1. PICK i \in DOMAIN q \ gone, j \in DOMAIN q \ gone :
            i # j /\ p[n] = q[i] /\ p[m] = q[j]
      BY <1>3
    <3> QED BY <1>7, <3>1
  <2>3. \A d \in Caller : Pending(t, d) => t.reply[d] \in {"waiting", "error"}
    <3>1. \A d \in Caller : Pending(s, d) => s.reply[d] \in {"waiting", "error"}
      BY DEF QueueInv
    <3> QED BY <1>4, <1>5, <3>1
  <2>4. \A d \in Caller : t.reply[d] = "waiting" => Queued(t, d) \/ Pending(t, d)
    <3> SUFFICES ASSUME NEW d \in Caller, t.reply[d] = "waiting", ~Pending(t, d)
                 PROVE  Queued(t, d)
      OBVIOUS
    <3>1. s.reply[d] = "waiting" /\ ~\E i \in gone : q[i].caller = d
      BY <1>4
    <3>2. PICK i \in DOMAIN q : q[i].caller = d
      BY <1>5, <3>1 DEF QueueInv, Queued
    <3>3. i \in DOMAIN q \ gone
      BY <3>1, <3>2
    <3> QED BY <1>3, <3>2, <3>3 DEF Queued
  <2> QED BY <2>1, <2>2, <2>3, <2>4 DEF QueueInv
<1>9. Answered(s, t)
  <2> SUFFICES ASSUME NEW c \in Caller, s.reply[c] \in {"ok", "error"}
               PROVE  t.reply[c] = s.reply[c]
    BY DEF Answered
  <2>1. ~\E i \in gone : q[i].caller = c
    BY <1>2, <1>6, CallerNotNone
  <2> QED BY <1>4, <2>1
<1>10. Entries(t) \subseteq Entries(s)
  BY <1>3 DEF Entries
<1> QED BY <1>8, <1>9, <1>10 DEF KeepsQueue

(* The tail of set_handler_failed and of the success: no handler is      *)
(* tried any more, which settles the fate if there is an outcome.        *)
LEMMA HandlerLeftMoves ==
  ASSUME NEW s, NEW f, Typed(f), Always(f), f.handling = None, f.deciding = {},
         QueueInv(f), ClaimsInv(f), ObserverLocks(f), Owned(s, f), Answered(s, f),
         f.result # "none" => f.handled_by # None \/ f.closing \/ ~f.channel,
         f.result = "none" => Open(f)
  PROVE  Moves(s, [f EXCEPT !.trying_handler = None])
<1> DEFINE t == [f EXCEPT !.trying_handler = None]
<1>1. Typed(t)
  <2>1. None \in FieldType.trying_handler
    BY FieldTypes
  <2> QED BY <2>1, TypedExcept, FieldNames
<1>2. t.trying_handler = None /\ Others(f, t, {"trying_handler"})
  BY TypedIsCdo DEF IsCdo, Fields, Others
<1> HIDE DEF t
<1>3. /\ t.handling = None /\ t.deciding = {} /\ t.adding = f.adding /\ t.result = f.result
      /\ t.tried_handlers_before_approval = f.tried_handlers_before_approval
      /\ t.criticals = f.criticals /\ t.ado_pending = f.ado_pending
      /\ t.possible_handlers = f.possible_handlers /\ t.approvals = f.approvals
      /\ t.channel = f.channel /\ t.closing = f.closing /\ t.idle = f.idle
      /\ t.accepted_by_an_approver = f.accepted_by_an_approver
      /\ t.invoked_approvers_if_needed = f.invoked_approvers_if_needed
      /\ t.needs_approval = f.needs_approval /\ t.handled_by = f.handled_by
      /\ t.reply = f.reply /\ t.claims = f.claims
  BY <1>2 DEF Others, Fields
<1>4. Entries(t) = Entries(f) /\ IsInternal(t) = IsInternal(f)
  BY <1>3 DEF Entries, IsInternal
<1>5. Always(t)
  BY <1>2, <1>3, <1>4 DEF Always
<1>6. Open(t)
  BY <1>2, <1>3, <1>4 DEF Open, PresentedToUser, Requested
<1>7. Settled(t) /\ Dropped(t)
  BY <1>2, <1>3 DEF Settled, Dropped
<1>8. KeepsQueue(f, t)
  BY <1>3, SameKeeps DEF SameQueue
<1>9. Answered(s, t) /\ QueueInv(t)
  BY <1>8, AnsweredTrans DEF KeepsQueue
<1>10. /\ t.observing = f.observing /\ t.observers_pending = f.observers_pending
       /\ t.delay_approver_observers_pending = f.delay_approver_observers_pending
  BY <1>2 DEF Others, Fields
<1>11. ClaimsInv(t) /\ ObserverLocks(t) /\ Owned(s, t)
  BY <1>3, <1>10 DEF ClaimsInv, ObserverLocks, Owned, Pending
<1>12. Moves(s, t)
  BY <1>1, <1>5, <1>6, <1>7, <1>9, <1>11 DEF Moves, Ready, Fate
<1> QED BY <1>12 DEF t

(* The call of the handler, or the decision of the plugins about it, has *)
(* ended.                                                                *)
Decided(s, t) ==
  /\ Typed(t)
  /\ Others(s, t, {"handling", "deciding", "handler_unsuitable"})
  /\ t.handling = None
  /\ t.deciding = {}

(* What is left of the invariant between that and what follows from it.  *)
LEMMA DecidedFate ==
  ASSUME NEW s, Ready(s), NEW t, Decided(s, t)
  PROVE  /\ Always(t) /\ QueueInv(t) /\ ClaimsInv(t) /\ ObserverLocks(t)
         /\ KeepsQueue(s, t) /\ t.handled_by = s.handled_by /\ t.result = s.result
         /\ t.trying_handler = s.trying_handler /\ t.channel = s.channel
         /\ Settled(t) /\ Dropped(t)
         /\ t.result = "none" =>
              /\ t.handled_by # None => t.handled_by = Internal /\ IsInternal(t)
              /\ t.channel
              /\ t.criticals \cap Misuse = {}
              /\ PresentedToUser(t)
              /\ Requested(t)
<1>1. /\ t.trying_handler = s.trying_handler
      /\ t.adding = s.adding /\ t.result = s.result
      /\ t.tried_handlers_before_approval = s.tried_handlers_before_approval
      /\ t.criticals = s.criticals /\ t.ado_pending = s.ado_pending
      /\ t.possible_handlers = s.possible_handlers /\ t.approvals = s.approvals
      /\ t.channel = s.channel /\ t.closing = s.closing /\ t.idle = s.idle
      /\ t.accepted_by_an_approver = s.accepted_by_an_approver
      /\ t.invoked_approvers_if_needed = s.invoked_approvers_if_needed
      /\ t.needs_approval = s.needs_approval /\ t.handled_by = s.handled_by
      /\ t.reply = s.reply /\ t.claims = s.claims
      /\ t.observing = s.observing /\ t.observers_pending = s.observers_pending
      /\ t.delay_approver_observers_pending = s.delay_approver_observers_pending
  BY DEF Decided, Others, Fields
<1>2. Entries(t) = Entries(s) /\ IsInternal(t) = IsInternal(s)
  BY <1>1 DEF Entries, IsInternal
<1>3. Always(t)
  BY <1>1, <1>2 DEF Ready, Fate, Always, Decided
<1>4. KeepsQueue(s, t)
  BY <1>1, SameKeeps DEF SameQueue, Ready
<1>5. ClaimsInv(t) /\ ObserverLocks(t) /\ Settled(t) /\ Dropped(t)
  BY <1>1 DEF Ready, ClaimsInv, Pending, ObserverLocks, Fate, Settled, Dropped
<1>6. t.result = "none" =>
        /\ t.handled_by # None => t.handled_by = Internal /\ IsInternal(t)
        /\ t.channel
        /\ t.criticals \cap Misuse = {}
        /\ PresentedToUser(t)
        /\ Requested(t)
  <2> SUFFICES ASSUME s.result = "none"
               PROVE  /\ t.handled_by # None => t.handled_by = Internal /\ IsInternal(t)
                      /\ t.channel
                      /\ t.criticals \cap Misuse = {}
                      /\ PresentedToUser(t)
                      /\ Requested(t)
    BY <1>1
  <2>1. PresentedToUser(t)
    BY <1>1, <1>2 DEF Ready, Fate, Open, PresentedToUser
  <2>2. Requested(t)
    BY <1>1, <1>2 DEF Ready, Fate, Open, Requested
  <2> QED BY <1>1, <1>2, <2>1, <2>2 DEF Ready, Fate, Open
<1> QED BY <1>1, <1>3, <1>4, <1>5, <1>6 DEF KeepsQueue

(* The handler failed: the next one is tried, or none is left.           *)
LEMMA HandlerHasFailed ==
  ASSUME NEW s, Ready(s), NEW t, Decided(s, t), s.trying_handler # None
  PROVE  Moves(s, [SetHandlerFailed(t, t.trying_handler) EXCEPT !.trying_handler = None])
<1> DEFINE h == t.trying_handler
           f == HandlerTurnedDown(t, h)
           e == CloseAsUndispatchable(f)
           g == SetHandlerFailed(t, h)
           x == [g EXCEPT !.trying_handler = None]
<1>2. /\ Typed(t) /\ t.handling = None /\ t.deciding = {}
      /\ Always(t) /\ QueueInv(t) /\ ClaimsInv(t) /\ ObserverLocks(t)
      /\ KeepsQueue(s, t) /\ t.handled_by = s.handled_by /\ t.result = s.result
      /\ t.trying_handler = s.trying_handler /\ t.channel = s.channel
      /\ Settled(t)
      /\ t.result = "none" =>
           /\ t.handled_by # None => t.handled_by = Internal /\ IsInternal(t)
           /\ t.channel
           /\ t.criticals \cap Misuse = {}
           /\ PresentedToUser(t)
           /\ Requested(t)
  BY DecidedFate DEF Decided
<1>3. h \in Handler
  BY <1>2, TypedFields
<1>4. g \in {f, e}
  BY DEF SetHandlerFailed, HandlerTurnedDown
<1> HIDE DEF h, g
<1>5. Typed(f) /\ IsCdo(f)
  BY <1>2, <1>3, TypedSetHandlerFailed, TypedIsCdo
<1>6. /\ Others(t, f, {"failed_handlers", "approvals", "reply"})
      /\ f.approvals = Without(t.approvals, Insistent(t, h))
      /\ f.reply = TurnedAway(t, h)
  BY <1>2, <1>3, HandlerTurnedDownFields
<1> HIDE DEF f
<1>7. /\ f.handling = None /\ f.deciding = {} /\ f.adding = t.adding /\ f.result = t.result
      /\ f.trying_handler = t.trying_handler
      /\ f.tried_handlers_before_approval = t.tried_handlers_before_approval
      /\ f.criticals = t.criticals /\ f.ado_pending = t.ado_pending
      /\ f.possible_handlers = t.possible_handlers
      /\ f.channel = t.channel /\ f.closing = t.closing /\ f.idle = t.idle
      /\ f.accepted_by_an_approver = t.accepted_by_an_approver
      /\ f.invoked_approvers_if_needed = t.invoked_approvers_if_needed
      /\ f.needs_approval = t.needs_approval /\ f.handled_by = t.handled_by
      /\ f.claims = t.claims /\ f.observing = t.observing
      /\ f.observers_pending = t.observers_pending
      /\ f.delay_approver_observers_pending = t.delay_approver_observers_pending
  BY <1>2, <1>6 DEF Others, Fields
<1>8. KeepsQueue(t, f) /\ Entries(f) \subseteq Entries(t)
  BY <1>2, <1>3, <1>6, <1>7, TurnedAwayKeeps
<1>9. Always(f)
  BY <1>2, <1>7, <1>8 DEF Always, IsInternal
<1>10. ClaimsInv(f) /\ ObserverLocks(f) /\ QueueInv(f)
  BY <1>2, <1>7, <1>8 DEF ClaimsInv, ObserverLocks, Pending, KeepsQueue
<1>11. KeepsQueue(s, f)
  BY <1>2, <1>8, KeepsTrans
<1>12. CASE g = f
  <2>1. f.result # "none" => f.handled_by # None \/ f.closing \/ ~f.channel
    BY <1>2, <1>7 DEF Settled
  <2>2. x = [f EXCEPT !.trying_handler = None]
    BY <1>12
  <2>3. Moves(s, [f EXCEPT !.trying_handler = None]) \/ f.result = "none"
    <3> SUFFICES ASSUME f.result # "none"
                 PROVE  Moves(s, [f EXCEPT !.trying_handler = None])
      OBVIOUS
    <3>1. Owned(s, f) /\ Answered(s, f)
      BY <1>2, <1>7, <1>11 DEF Owned, KeepsQueue
    <3> QED BY <1>5, <1>7, <1>9, <1>10, <2>1, <3>1, HandlerLeftMoves
  <2>4. ASSUME f.result = "none" PROVE Moves(s, [f EXCEPT !.trying_handler = None])
    <3> DEFINE y == [f EXCEPT !.trying_handler = None]
    <3>1. Typed(y)
      <4>1. None \in FieldType.trying_handler
        BY FieldTypes
      <4> QED BY <1>5, <4>1, TypedExcept, FieldNames
    <3>2. y.trying_handler = None /\ Others(f, y, {"trying_handler"})
      BY <1>5 DEF IsCdo, Fields, Others
    <3> HIDE DEF y
    <3>3. /\ y.handling = None /\ y.deciding = {} /\ y.adding = f.adding /\ y.result = f.result
          /\ y.tried_handlers_before_approval = f.tried_handlers_before_approval
          /\ y.criticals = f.criticals /\ y.ado_pending = f.ado_pending
          /\ y.possible_handlers = f.possible_handlers /\ y.approvals = f.approvals
          /\ y.channel = f.channel /\ y.closing = f.closing /\ y.idle = f.idle
          /\ y.accepted_by_an_approver = f.accepted_by_an_approver
          /\ y.invoked_approvers_if_needed = f.invoked_approvers_if_needed
          /\ y.needs_approval = f.needs_approval /\ y.handled_by = f.handled_by
          /\ y.reply = f.reply /\ y.claims = f.claims /\ y.observing = f.observing
          /\ y.observers_pending = f.observers_pending
          /\ y.delay_approver_observers_pending = f.delay_approver_observers_pending
      BY <1>7, <3>2 DEF Others, Fields
    <3>4. Entries(y) \subseteq Entries(t) /\ IsInternal(y) = IsInternal(t)
      BY <1>7, <1>8, <3>3 DEF Entries, IsInternal
    <3>5. Always(y)
      BY <1>9, <1>7, <3>2, <3>3, <3>4, <1>2 DEF Always
    <3>6. PresentedToUser(y)
      BY <1>2, <1>7, <2>4, <3>2, <3>3, <3>4 DEF PresentedToUser
    <3>7. Requested(y)
      BY <1>2, <1>7, <2>4, <3>2, <3>3, <3>4 DEF Requested
    <3>8. Open(y)
      BY <1>2, <1>7, <2>4, <3>2, <3>3, <3>4, <3>6, <3>7 DEF Open
    <3>9. Settled(y) /\ Dropped(y)
      BY <2>4, <3>3 DEF Settled, Dropped
    <3>10. KeepsQueue(s, y)
      <4>1. KeepsQueue(f, y)
        BY <1>10, <3>3, SameKeeps DEF SameQueue
      <4> QED BY <1>11, <4>1, KeepsTrans
    <3>11. ClaimsInv(y) /\ ObserverLocks(y) /\ Owned(s, y)
      BY <1>2, <1>7, <1>10, <3>3 DEF ClaimsInv, ObserverLocks, Owned, Pending
    <3>12. Moves(s, y)
      BY <3>1, <3>5, <3>8, <3>9, <3>10, <3>11 DEF Moves, Ready, Fate, KeepsQueue
    <3> QED BY <3>12 DEF y
  <2>5. Moves(s, x)
    BY <2>2, <2>3, <2>4
  <2> HIDE DEF x
  <2> QED BY <2>5 DEF x, g, h
<1>13. CASE g = e
  <2>1. /\ Always(e) /\ e.result # "none" /\ (e.closing \/ ~e.channel)
        /\ e.handled_by = f.handled_by /\ e.handling = None /\ e.deciding = {}
    BY <1>5, <1>7, <1>9, CloseAsUndispatchableEnds
  <2>2. Typed(e) /\ Fixed(f, e) /\ KeepsQueue(f, e)
    BY <1>5, <1>10, TypedCloseAsUndispatchable, FixedCloseAsUndispatchable,
       CloseAsUndispatchableKeeps
  <2> HIDE DEF e
  <2>3. ClaimsInv(e) /\ ObserverLocks(e)
    BY <1>10, <2>2, FixedClaims, FixedObserverLocks
  <2>4. Owned(s, e) /\ Answered(s, e) /\ QueueInv(e)
    <3>1. KeepsQueue(s, e)
      BY <1>11, <2>2, KeepsTrans
    <3> QED BY <1>2, <1>7, <2>1, <3>1 DEF Owned, KeepsQueue
  <2>5. Moves(s, [e EXCEPT !.trying_handler = None])
    BY <2>1, <2>2, <2>3, <2>4, HandlerLeftMoves
  <2>6. Moves(s, x)
    BY <1>13, <2>5
  <2> HIDE DEF x
  <2> QED BY <2>6 DEF x, g, h
<1> QED BY <1>4, <1>12, <1>13

LEMMA HandlerFailedMoves ==
  ASSUME NEW s, Ready(s), registry \subseteq Handler, NEW t, Decided(s, t),
         s.trying_handler # None
  PROVE  Moves(s, HandlerFailed(t)) /\ Inv(HandlerFailed(t))
<1> DEFINE x == [SetHandlerFailed(t, t.trying_handler) EXCEPT !.trying_handler = None]
<1>1. HandlerFailed(t) = CheckClientLocks(x)
  BY DEF HandlerFailed
<1>2. Moves(s, x)
  BY HandlerHasFailed
<1> HIDE DEF x
<1> QED BY <1>1, <1>2, CheckedMoves

(* HandleChannels has succeeded, before the operation finishes: the      *)
(* channel is the handler's, or is closed if the handler is gone.        *)
HandedOver(t) ==
  LET h == t.trying_handler
      c == CASE ~t.channel -> t
             [] t.channel /\ h \notin registry -> [t EXCEPT !.closing = TRUE]
             [] OTHER -> SetChannelHandledBy(t, h)
  IN [c EXCEPT !.successful_handler = h]

(* Somebody is responsible for the channel then, unless it is gone.      *)
LEMMA HandedOverShape ==
  ASSUME NEW t, Typed(t), t.trying_handler # None
  PROVE  LET d == HandedOver(t)
         IN /\ Typed(d)
            /\ Others(t, d, {"handled_by", "status", "closing", "successful_handler"})
            /\ d.successful_handler = t.trying_handler
            /\ d.handled_by # None \/ d.closing \/ ~d.channel
            /\ d.handled_by \in {t.handled_by, t.trying_handler}
            /\ ~t.channel => d.handled_by = t.handled_by /\ d.closing = t.closing
<1> DEFINE h == t.trying_handler
           o == SetChannelHandledBy(t, h)
           l == [t EXCEPT !.closing = TRUE]
           c == CASE ~t.channel -> t
                  [] t.channel /\ h \notin registry -> l
                  [] OTHER -> o
           d == [c EXCEPT !.successful_handler = h]
<1>1. d = HandedOver(t)
  BY DEF HandedOver
<1>2. h \in Handler /\ h # None
  BY TypedFields
<1>3. Typed(t) /\ IsCdo(t)
  BY TypedIsCdo
<1> HIDE DEF h
<1>4. (~t.channel => c = t) /\ (t.channel => c \in {l, o})
  OBVIOUS
<1>5. Typed(o) /\ o.handled_by = h /\ Others(t, o, {"handled_by", "status"})
  <2> DEFINE w == IF t.status = "FAILED" THEN t.status ELSE "DISPATCHED"
             g == [t EXCEPT !.handled_by = h, !.status = w]
  <2>1. Typed(o)
    BY <1>2, TypedSetChannelHandledBy
  <2>2. o = g
    BY <1>3 DEF SetChannelHandledBy, IsCdo, Fields
  <2> HIDE DEF w, o
  <2>3. g.handled_by = h /\ Others(t, g, {"handled_by", "status"})
    BY <1>3 DEF IsCdo, Fields, Others
  <2> HIDE DEF g
  <2> QED BY <2>1, <2>2, <2>3
<1>6. Typed(l) /\ l.closing /\ l.handled_by = t.handled_by /\ Others(t, l, {"closing"})
  <2>1. Typed(l)
    BY TypedFlag
  <2>2. l.closing /\ l.handled_by = t.handled_by /\ Others(t, l, {"closing"})
    BY <1>3 DEF IsCdo, Fields, Others
  <2> QED BY <2>1, <2>2
<1> HIDE DEF o, l, c
<1>7. Typed(c) /\ Others(t, c, {"handled_by", "status", "closing"})
  <2>1. Others(t, t, {"handled_by", "status", "closing"})
    BY DEF Others
  <2>2. Others(t, o, {"handled_by", "status", "closing"})
    BY <1>5 DEF Others
  <2>3. Others(t, l, {"handled_by", "status", "closing"})
    BY <1>6 DEF Others
  <2> QED BY <1>4, <1>5, <1>6, <2>1, <2>2, <2>3
<1>8. c.channel = t.channel
  BY <1>7, FieldNames DEF Others
<1>9. /\ c.handled_by # None \/ c.closing \/ ~c.channel
      /\ c.handled_by \in {t.handled_by, h}
      /\ ~t.channel => c.handled_by = t.handled_by /\ c.closing = t.closing
  BY <1>2, <1>4, <1>5, <1>6, <1>8
<1>10. Typed(d) /\ Others(c, d, {"successful_handler"}) /\ d.successful_handler = h
  <2>1. h \in FieldType.successful_handler
    BY <1>2, FieldTypes
  <2>2. Typed(d)
    BY <1>7, <2>1, TypedExcept, FieldNames
  <2>3. Others(c, d, {"successful_handler"}) /\ d.successful_handler = h
    BY <1>7, TypedIsCdo DEF IsCdo, Others, Fields
  <2> QED BY <2>2, <2>3
<1> HIDE DEF d
<1>11. /\ Others(t, d, {"handled_by", "status", "closing", "successful_handler"})
       /\ d.handled_by = c.handled_by /\ d.closing = c.closing /\ d.channel = c.channel
  <2>1. Others(t, d, {"handled_by", "status", "closing", "successful_handler"})
    BY <1>7, <1>10 DEF Others
  <2> QED BY <1>10, <2>1, FieldNames DEF Others
<1>12. /\ Typed(d)
       /\ Others(t, d, {"handled_by", "status", "closing", "successful_handler"})
       /\ d.successful_handler = t.trying_handler
       /\ d.handled_by # None \/ d.closing \/ ~d.channel
       /\ d.handled_by \in {t.handled_by, t.trying_handler}
       /\ ~t.channel => d.handled_by = t.handled_by /\ d.closing = t.closing
  BY <1>9, <1>10, <1>11 DEF h
<1> QED BY <1>1, <1>12

(* The rest of the invariant is as it was.                               *)
LEMMA HandedOverFate ==
  ASSUME NEW s, Ready(s), NEW t, Decided(s, t), s.trying_handler # None
  PROVE  LET d == HandedOver(t)
         IN /\ Always(d) /\ QueueInv(d) /\ ClaimsInv(d) /\ ObserverLocks(d)
            /\ KeepsQueue(t, d) /\ Owned(s, d)
            /\ d.handling = None /\ d.deciding = {} /\ d.result = s.result
<1> DEFINE d == HandedOver(t)
<1>1. /\ Typed(t) /\ t.handling = None /\ t.deciding = {}
      /\ Always(t) /\ QueueInv(t) /\ ClaimsInv(t) /\ ObserverLocks(t)
      /\ KeepsQueue(s, t) /\ t.handled_by = s.handled_by /\ t.result = s.result
      /\ t.trying_handler = s.trying_handler /\ t.channel = s.channel
      /\ Dropped(t)
      /\ t.result = "none" =>
           (t.handled_by # None => t.handled_by = Internal /\ IsInternal(t))
  BY DecidedFate DEF Decided
<1>2. /\ Typed(d)
      /\ Others(t, d, {"handled_by", "status", "closing", "successful_handler"})
      /\ ~t.channel => d.handled_by = t.handled_by
  BY <1>1, HandedOverShape
<1> HIDE DEF d
<1>3. Owned(s, d)
  <2>1. t.channel => t.handled_by = None
    BY <1>1 DEF Dropped, Always
  <2> QED BY <1>1, <1>2, <2>1 DEF Owned
<1>4. /\ d.handling = None /\ d.deciding = {} /\ d.adding = t.adding /\ d.result = t.result
      /\ d.trying_handler = t.trying_handler
      /\ d.tried_handlers_before_approval = t.tried_handlers_before_approval
      /\ d.criticals = t.criticals /\ d.ado_pending = t.ado_pending
      /\ d.possible_handlers = t.possible_handlers /\ d.idle = t.idle
      /\ d.needs_approval = t.needs_approval /\ d.approvals = t.approvals
      /\ d.claims = t.claims /\ d.reply = t.reply /\ d.observing = t.observing
      /\ d.observers_pending = t.observers_pending
      /\ d.delay_approver_observers_pending = t.delay_approver_observers_pending
  BY <1>1, <1>2 DEF Others, Fields
<1>5. Always(d)
  BY <1>1, <1>4 DEF Always, IsInternal, Entries
<1>6. KeepsQueue(t, d)
  BY <1>1, <1>4, SameKeeps DEF SameQueue
<1>7. ClaimsInv(d) /\ ObserverLocks(d)
  BY <1>1, <1>4 DEF ClaimsInv, ObserverLocks, Pending
<1> QED BY <1>1, <1>3, <1>4, <1>5, <1>6, <1>7 DEF KeepsQueue, d

(* The handler has the channel.                                          *)
LEMMA HandlerHasSucceeded ==
  ASSUME NEW s, Ready(s), NEW t, Decided(s, t), s.trying_handler # None
  PROVE  Moves(s, [Finish(HandedOver(t), "NotYours") EXCEPT !.trying_handler = None])
<1> DEFINE d == HandedOver(t)
           f == Finish(d, "NotYours")
           x == [f EXCEPT !.trying_handler = None]
<1>1. Typed(t) /\ KeepsQueue(s, t) /\ t.trying_handler = s.trying_handler
  BY DecidedFate DEF Decided
<1>2. Typed(d) /\ (d.handled_by # None \/ d.closing \/ ~d.channel)
  BY <1>1, HandedOverShape
<1>3. /\ Always(d) /\ QueueInv(d) /\ ClaimsInv(d) /\ ObserverLocks(d)
      /\ KeepsQueue(t, d) /\ Owned(s, d)
      /\ d.handling = None /\ d.deciding = {}
  BY HandedOverFate
<1> HIDE DEF d
<1>4. /\ Always(f) /\ Typed(f) /\ Fixed(d, f) /\ KeepsQueue(d, f)
  BY <1>2, <1>3, FinishAlways, TypedFinish, FixedFinish, TypedIsCdo, FinishKeeps
<1>5. /\ f.result # "none" /\ f.handled_by = d.handled_by
      /\ f.handling = None /\ f.deciding = {}
      /\ (d.closing => f.closing) /\ (f.channel => d.channel)
  BY <1>2, <1>3, FinishFields
<1> HIDE DEF f
<1>6. ClaimsInv(f) /\ ObserverLocks(f)
  BY <1>3, <1>4, FixedClaims, FixedObserverLocks
<1>7. KeepsQueue(s, f)
  BY <1>1, <1>3, <1>4, KeepsTrans
<1>8. Owned(s, f) /\ (f.handled_by # None \/ f.closing \/ ~f.channel)
  BY <1>2, <1>3, <1>5 DEF Owned
<1>9. Moves(s, x)
  BY <1>4, <1>5, <1>6, <1>7, <1>8, HandlerLeftMoves DEF KeepsQueue
<1> HIDE DEF x
<1> QED BY <1>9 DEF x, f, d

LEMMA HandlerSucceededMoves ==
  ASSUME NEW s, Ready(s), registry \subseteq Handler, NEW t, Decided(s, t),
         s.trying_handler # None
  PROVE  Moves(s, HandlerSucceeded(t)) /\ Inv(HandlerSucceeded(t))
<1> DEFINE x == [Finish(HandedOver(t), "NotYours") EXCEPT !.trying_handler = None]
<1>1. HandlerSucceeded(t) = CheckClientLocks(x)
  BY DEF HandlerSucceeded, HandedOver
<1>2. Moves(s, x)
  BY HandlerHasSucceeded
<1> HIDE DEF x
<1> QED BY <1>1, <1>2, CheckedMoves

(* _mcd_dispatch_operation_handle_channels_cb.                           *)
LEMMA HandleChannelsReturnsMoves ==
  ASSUME Inv(cdo), registry \subseteq Handler, NEW success \in BOOLEAN,
         HandleChannelsReturns(success)
  PROVE  Moves(cdo, cdo') /\ Inv(cdo') /\ registry' = registry
<1> DEFINE t == [cdo EXCEPT !.handling = None]
<1>1. Ready(cdo) /\ Typed(cdo) /\ IsCdo(cdo)
  BY TypedIsCdo DEF Inv, Ready
<1>2. /\ cdo' \in {HandlerSucceeded(t), HandlerFailed(t)} /\ registry' = registry
      /\ cdo.handling # None
  BY DEF HandleChannelsReturns
<1>3. cdo.trying_handler # None /\ cdo.deciding = {}
  BY <1>1, <1>2 DEF Ready, Fate, Always
<1>4. Decided(cdo, t)
  <2>1. None \in FieldType.handling
    BY FieldTypes
  <2>2. Typed(t)
    BY <1>1, <2>1, TypedExcept, FieldNames
  <2>3. t.handling = None /\ t.deciding = {}
    BY <1>1, <1>3 DEF IsCdo, Fields
  <2>4. Others(cdo, t, {"handling", "deciding", "handler_unsuitable"})
    BY <1>1 DEF IsCdo, Others
  <2> HIDE DEF t
  <2> QED BY <2>2, <2>3, <2>4 DEF Decided
<1> HIDE DEF t
<1> QED BY <1>1, <1>2, <1>3, <1>4, HandlerSucceededMoves, HandlerFailedMoves

(* The plugins agree, and the handler is called.                         *)
LEMMA InvokeMoves ==
  ASSUME NEW s, Ready(s), NEW t, Decided(s, t), s.trying_handler # None
  PROVE  Moves(s, HandleChannels(t)) /\ Awake(HandleChannels(t))
<1> DEFINE x == HandleChannels(t)
<1>1. /\ Typed(t) /\ IsCdo(t) /\ t.handling = None /\ t.deciding = {}
      /\ Always(t) /\ QueueInv(t) /\ ClaimsInv(t) /\ ObserverLocks(t)
      /\ KeepsQueue(s, t) /\ t.handled_by = s.handled_by /\ t.result = s.result
      /\ t.trying_handler = s.trying_handler /\ t.channel = s.channel
      /\ Settled(t) /\ Dropped(t)
      /\ t.result = "none" =>
           /\ t.handled_by # None => t.handled_by = Internal /\ IsInternal(t)
           /\ t.channel
           /\ t.criticals \cap Misuse = {}
           /\ PresentedToUser(t)
           /\ Requested(t)
  BY DecidedFate, TypedIsCdo DEF Decided
<1>2. /\ Others(t, x, {"handling", "status", "criticals", "leaked"})
      /\ x.handling = IF t.channel THEN t.trying_handler ELSE t.handling
  BY <1>1, HandleChannelsFields
<1>3. Typed(x) /\ Fixed(t, x)
  BY <1>1, TypedHandleChannels, FixedHandleChannels
<1> HIDE DEF x
<1>4. /\ x.deciding = {} /\ x.result = t.result /\ x.trying_handler = t.trying_handler
      /\ x.tried_handlers_before_approval = t.tried_handlers_before_approval
      /\ x.channel = t.channel /\ x.closing = t.closing /\ x.idle = t.idle
      /\ x.invoked_approvers_if_needed = t.invoked_approvers_if_needed
      /\ x.handled_by = t.handled_by /\ x.approvals = t.approvals
      /\ x.reply = t.reply /\ x.claims = t.claims
  BY <1>1, <1>2 DEF Others, Fields
<1>5. Entries(x) = Entries(t) /\ IsInternal(x) = IsInternal(t)
  BY <1>3, <1>4 DEF Entries, IsInternal, Fixed
<1>6. Always(x)
  BY <1>1, <1>2, <1>3, <1>4, <1>5 DEF Always, Fixed
<1>7. Open(x)
  <2> SUFFICES ASSUME t.result = "none" PROVE Open(x)
    BY <1>4 DEF Open
  <2>1. PresentedToUser(x)
    BY <1>1, <1>3, <1>4, <1>5 DEF PresentedToUser, Fixed
  <2>2. Requested(x)
    BY <1>1, <1>3, <1>4, <1>5 DEF Requested, Fixed
  <2> QED BY <1>1, <1>2, <1>3, <1>4, <1>5, <2>1, <2>2 DEF Open, Fixed
<1>8. Settled(x) /\ Dropped(x)
  BY <1>1, <1>4 DEF Settled, Dropped
<1>9. KeepsQueue(s, x)
  <2>1. KeepsQueue(t, x)
    BY <1>1, <1>4, SameKeeps DEF SameQueue
  <2> QED BY <1>1, <2>1, KeepsTrans
<1>10. ClaimsInv(x) /\ ObserverLocks(x)
  BY <1>1, <1>3, FixedClaims, FixedObserverLocks
<1>11. Moves(s, x) /\ Awake(x)
  BY <1>1, <1>3, <1>4, <1>6, <1>7, <1>8, <1>9, <1>10
     DEF Moves, Ready, Fate, Owned, KeepsQueue, Awake
<1> QED BY <1>11 DEF x

(* _mcd_dispatch_operation_handler_decision_cb: a plugin has decided     *)
(* about the handler.                                                    *)
LEMMA HandlerDecisionMoves ==
  ASSUME Inv(cdo), registry \subseteq Handler, NEW p \in Plugin, NEW suitable \in BOOLEAN,
         HandlerDecision(p, suitable)
  PROVE  Moves(cdo, cdo') /\ Inv(cdo') /\ registry' = registry
<1> DEFINE v == cdo.deciding \ {p}
           w == cdo.handler_unsuitable \/ ~suitable
           s == [cdo EXCEPT !.deciding = v, !.handler_unsuitable = w]
           t == [s EXCEPT !.handler_unsuitable = FALSE]
<1>1. Ready(cdo) /\ Typed(cdo) /\ IsCdo(cdo) /\ Always(cdo)
  BY TypedIsCdo DEF Inv, Ready, Fate
<1>2. registry' = registry /\ cdo.deciding # {}
  BY DEF HandlerDecision
<1>3. cdo.trying_handler # None /\ cdo.handling = None
  BY <1>1, <1>2 DEF Always
<1>4. cdo' = CASE s.deciding # {} -> s
               [] s.deciding = {} /\ s.handler_unsuitable -> HandlerFailed(t)
               [] OTHER -> HandleChannels(s)
  <2>1. s = [cdo EXCEPT !.deciding = @ \ {p}, !.handler_unsuitable = @ \/ ~suitable]
    BY <1>1 DEF IsCdo, Fields
  <2> HIDE DEF s
  <2> QED BY <2>1 DEF HandlerDecision
<1>5. v \in FieldType.deciding /\ w \in FieldType.handler_unsuitable
  BY <1>1, TypedFields, FieldTypes
<1>6. v \subseteq cdo.deciding
  OBVIOUS
<1> HIDE DEF v, w
<1>7. Typed(s) /\ s.deciding = v /\ Others(cdo, s, {"deciding", "handler_unsuitable"})
  <2>1. Typed(s)
    BY <1>1, <1>5, TypedExcept2, FieldNames
  <2>2. s.deciding = v
    BY <1>1 DEF IsCdo, Fields
  <2>3. Others(cdo, s, {"deciding", "handler_unsuitable"})
    BY <1>1 DEF IsCdo, Others
  <2> QED BY <2>1, <2>2, <2>3
<1> HIDE DEF s
<1>8. Others(cdo, s, {"handling", "deciding", "handler_unsuitable"}) /\ s.handling = None
  BY <1>3, <1>7, FieldNames DEF Others
<1>9. CASE s.deciding # {}
  <2>1. Fate(s)
    <3>1. /\ s.trying_handler = cdo.trying_handler /\ s.handling = None
          /\ s.adding = cdo.adding /\ s.result = cdo.result
          /\ s.tried_handlers_before_approval = cdo.tried_handlers_before_approval
          /\ s.criticals = cdo.criticals /\ s.ado_pending = cdo.ado_pending
          /\ s.possible_handlers = cdo.possible_handlers /\ s.approvals = cdo.approvals
          /\ s.channel = cdo.channel /\ s.closing = cdo.closing /\ s.idle = cdo.idle
          /\ s.accepted_by_an_approver = cdo.accepted_by_an_approver
          /\ s.invoked_approvers_if_needed = cdo.invoked_approvers_if_needed
          /\ s.needs_approval = cdo.needs_approval /\ s.handled_by = cdo.handled_by
      BY <1>8 DEF Others, Fields
    <3>2. Entries(s) = Entries(cdo) /\ IsInternal(s) = IsInternal(cdo)
      BY <3>1 DEF Entries, IsInternal
    <3>3. Always(s)
      BY <1>1, <1>3, <3>1, <3>2 DEF Always
    <3>4. Open(s)
      BY <1>1, <1>9, <3>1, <3>2 DEF Ready, Fate, Open, PresentedToUser, Requested
    <3>5. Settled(s) /\ Dropped(s)
      BY <1>1, <3>1 DEF Ready, Fate, Settled, Dropped
    <3> QED BY <3>3, <3>4, <3>5 DEF Fate
  <2>2. Others(cdo, s, Controls)
    BY <1>7 DEF Others, Controls, Fields
  <2>3. Moves(cdo, s)
    BY <1>1, <1>7, <2>1, <2>2, ControlsMoves
  <2>4. s.trying_handler # None
    BY <1>3, <1>8, FieldNames DEF Others
  <2>5. Inv(s)
    BY <2>3, <2>4 DEF Inv, Awake, Moves
  <2>6. cdo' = s
    BY <1>4, <1>9
  <2> QED BY <1>2, <2>3, <2>5, <2>6
<1>10. CASE s.deciding = {} /\ s.handler_unsuitable
  <2>1. Typed(t)
    <3>1. FALSE \in FieldType.handler_unsuitable
      BY FieldTypes
    <3> QED BY <1>7, <3>1, TypedExcept, FieldNames
  <2>2. t.deciding = s.deciding /\ t.handling = s.handling /\ Others(s, t, {"handler_unsuitable"})
    BY <1>7, TypedIsCdo DEF IsCdo, Fields, Others
  <2> HIDE DEF t
  <2>3. Decided(cdo, t)
    BY <1>8, <1>10, <2>1, <2>2 DEF Decided, Others
  <2>4. cdo' = HandlerFailed(t)
    BY <1>4, <1>10
  <2> QED BY <1>1, <1>2, <1>3, <2>3, <2>4, HandlerFailedMoves
<1>11. CASE s.deciding = {} /\ ~s.handler_unsuitable
  <2>1. Decided(cdo, s)
    BY <1>7, <1>8, <1>11 DEF Decided
  <2>2. cdo' = HandleChannels(s)
    BY <1>4, <1>11
  <2>3. Moves(cdo, cdo') /\ Awake(cdo')
    BY <1>1, <1>3, <2>1, <2>2, InvokeMoves
  <2> QED BY <1>2, <2>3 DEF Moves, Inv
<1> QED BY <1>9, <1>10, <1>11

(* A new operation satisfies the invariant.                              *)
LEMMA CreatedInv ==
  ASSUME NEW needs \in BOOLEAN, NEW observe \in BOOLEAN,
         NEW handlers \in Seq(Handler \cup {Internal}), NEW preferred \in Handler \cup {None},
         needs => preferred = None
  PROVE  Inv(Created(needs, observe, handlers, preferred))
<1> DEFINE s == Created(needs, observe, handlers, preferred)
           a == [type |-> "REQUESTED", client_bus_name |-> preferred, caller |-> None]
           q == IF preferred = None THEN <<>> ELSE <<a>>
<1>1. a \in Approval
  BY DEF Approval, ApprovalType
<1>2. /\ q \in Seq(Approval)
      /\ \A i \in DOMAIN q : q[i] = a
      /\ needs => DOMAIN q = {}
  BY <1>1
<1>3. a.type = "REQUESTED" /\ a.caller = None
  OBVIOUS
<1> HIDE DEF a
<1> DEFINE u == [c \in ClaimCaller |-> {}]
           v == [c \in HandleWithCaller |-> None]
           r == [c \in Caller |-> "uncalled"]
           st == IF observe THEN "UNDISPATCHED" ELSE "DISPATCHING"
<1>4. /\ u \in [ClaimCaller -> SUBSET Plugin] /\ v \in [HandleWithCaller -> Handler \cup {None, BadName}]
      /\ r \in [Caller -> {"uncalled", "waiting", "ok", "error"}]
      /\ st \in ChannelStatus
      /\ \A c \in ClaimCaller : u[c] = {}
      /\ \A c \in Caller : r[c] = "uncalled"
  BY DEF ChannelStatus
<1> DEFINE x == [
    needs_approval |-> needs, observe_only |-> observe,
    possible_handlers |-> handlers,
    failed_handlers |-> {}, result |-> "none", approvals |-> q,
    successful_handler |-> None, channel |-> TRUE, lost_channel |-> FALSE,
    accepted_by_an_approver |-> FALSE, invoked_observers_if_needed |-> FALSE,
    invoked_approvers_if_needed |-> FALSE, observers_pending |-> 0,
    delay_approver_observers_pending |-> 0, ado_pending |-> 0,
    handler_unsuitable |-> FALSE, cancelled |-> FALSE, trying_handler |-> None,
    tried_handlers_before_approval |-> FALSE, plugins_pending |-> 0,
    did_post_observer_actions |-> FALSE, after_observers |-> "NONE",
    status |-> st, error |-> "none", invalidated |-> FALSE, closing |-> FALSE,
    handled_by |-> None, observing |-> {}, adding |-> {}, handling |-> None,
    deciding |-> {}, claims |-> u, idle |-> FALSE, leaked |-> FALSE,
    asked |-> v, reply |-> r, signals |-> <<>>, criticals |-> {} ]
<1>0. s = x
  BY DEF Created, a
<1> HIDE DEF s, u, v, r, st, q
<1>7. Typed(s)
  <2>1. <<>> \in Seq({"ChannelLost", "Finished"})
    OBVIOUS
  <2>2. x \in CdoType
    BY <1>2, <1>4, <2>1 DEF CdoType, Result, PluginAction, ChannelError
  <2> HIDE DEF x
  <2> QED BY <1>0, <2>2, TypedIsType
<1>5. /\ s.needs_approval = needs /\ s.possible_handlers = handlers
      /\ s.result = "none" /\ s.approvals = q
      /\ s.channel /\ ~s.accepted_by_an_approver /\ ~s.invoked_observers_if_needed
      /\ ~s.invoked_approvers_if_needed /\ s.observers_pending = 0
      /\ s.delay_approver_observers_pending = 0 /\ s.ado_pending = 0
      /\ s.trying_handler = None /\ ~s.tried_handlers_before_approval
      /\ s.handled_by = None /\ s.observing = {} /\ s.adding = {} /\ s.handling = None
      /\ s.deciding = {} /\ s.claims = u /\ ~s.idle /\ s.reply = r /\ s.criticals = {}
  BY <1>0
<1> HIDE DEF x
<1>8. Entries(s) = {q[i] : i \in DOMAIN q}
  BY <1>5 DEF Entries
<1>9. \A b \in Entries(s) : b.type = "REQUESTED" /\ b.caller = None
  BY <1>2, <1>3, <1>8
<1>10. needs => Entries(s) = {}
  BY <1>2, <1>8
<1>11. Cardinality({}) = 0
  BY FS_EmptySet
<1>12. Always(s)
  BY <1>5, <1>9, <1>11 DEF Always
<1>13. Open(s) /\ Settled(s) /\ Dropped(s)
  BY <1>5, <1>9, <1>10 DEF Open, Settled, Dropped, PresentedToUser, Requested
<1>14. ObserverLocks(s)
  <2>1. {} \cap DelayApprovers = {}
    OBVIOUS
  <2> QED BY <1>5, <1>11, <2>1 DEF ObserverLocks
<1>15. QueueInv(s) /\ ClaimsInv(s)
  <2>1. \A c : ~Pending(s, c)
    BY <1>4, <1>5 DEF Pending
  <2>2. \A i \in DOMAIN s.approvals : s.approvals[i].caller = None
    BY <1>2, <1>3, <1>5
  <2> QED BY <1>4, <1>5, <2>1, <2>2 DEF QueueInv, ClaimsInv
<1>16. Awake(s)
  BY <1>5 DEF Awake
<1>17. Inv(s)
  BY <1>7, <1>12, <1>13, <1>14, <1>15, <1>16 DEF Inv, Ready, Fate
<1> QED BY <1>17 DEF s

(* The inductive invariant.                                              *)
IInv == Inv(cdo) /\ registry \subseteq Handler

(* It holds of every initial state.                                      *)
LEMMA InitInv == Init => IInv
<1> SUFFICES ASSUME Init PROVE IInv
  OBVIOUS
<1>1. CASE \E l \in HandlerLists \cup {<<>>}, r \in SUBSET Handler :
             /\ \A i \in DOMAIN l : l[i] \in r
             /\ registry = r
             /\ \/ cdo = Created(TRUE, FALSE, l, None)
                \/ \E p \in Handler \cup {None} : cdo = Created(FALSE, FALSE, l, p)
  <2>1. PICK l \in HandlerLists \cup {<<>>}, r \in SUBSET Handler :
             /\ registry = r
             /\ \/ cdo = Created(TRUE, FALSE, l, None)
                \/ \E p \in Handler \cup {None} : cdo = Created(FALSE, FALSE, l, p)
    BY <1>1
  <2>2. l \in Seq(Handler \cup {Internal})
    <3>1. CASE l = <<>>
      BY <3>1
    <3>2. CASE l \in HandlerLists
      <4>1. l \in Seq(Handler)
        BY <3>2, HandlerListsAssumption
      <4>2. Len(l) \in Nat /\ l = [i \in 1 .. Len(l) |-> l[i]] /\ \A i \in 1 .. Len(l) : l[i] \in Handler
        BY <4>1
      <4> QED BY <4>2, IsASeq
    <3> QED BY <3>1, <3>2
  <2>3. Inv(Created(TRUE, FALSE, l, None))
    BY <2>2, CreatedInv
  <2>4. \A p \in Handler \cup {None} : Inv(Created(FALSE, FALSE, l, p))
    BY <2>2, CreatedInv
  <2> QED BY <2>1, <2>3, <2>4 DEF IInv
<1>2. CASE /\ registry \in SUBSET Handler
           /\ cdo \in {Created(FALSE, TRUE, <<>>, None),
                       Created(FALSE, FALSE, <<Internal>>, None)}
  <2>1. <<>> \in Seq(Handler \cup {Internal}) /\ <<Internal>> \in Seq(Handler \cup {Internal})
    OBVIOUS
  <2>2. Inv(Created(FALSE, TRUE, <<>>, None)) /\ Inv(Created(FALSE, FALSE, <<Internal>>, None))
    BY <2>1, CreatedInv
  <2> QED BY <1>2, <2>2 DEF IInv
<1> QED BY <1>1, <1>2 DEF Init

(* Every action keeps it, takes the channel from nobody and changes no   *)
(* reply: one lemma for each action.                                     *)
LEMMA StepMoves ==
  ASSUME IInv, [Next]_vars
  PROVE  Moves(cdo, cdo') /\ Inv(cdo') /\ registry' \subseteq Handler
<1> USE DEF IInv
<1>1. CASE UNCHANGED vars
  <2>1. cdo' = cdo /\ registry' = registry
    BY <1>1 DEF vars
  <2>2. Moves(cdo, cdo)
    BY MovesSelf DEF Inv
  <2> QED BY <2>1, <2>2
<1>2. ASSUME NEW observers \in SUBSET Observer, NEW delaying \in SUBSET Plugin,
             NEW now \in BOOLEAN, NEW later \in PluginAction,
             RunClients(observers, delaying, now, later)
      PROVE  Moves(cdo, cdo') /\ Inv(cdo') /\ registry' \subseteq Handler
  BY <1>2, RunClientsMoves
<1>3. ASSUME NEW o \in Observer, ObserverReturns(o)
      PROVE  Moves(cdo, cdo') /\ Inv(cdo') /\ registry' \subseteq Handler
  BY <1>3, ObserverReturnsMoves
<1>4. ASSUME NEW approvers \in SUBSET Approver, IdleRunApprovers(approvers)
      PROVE  Moves(cdo, cdo') /\ Inv(cdo') /\ registry' \subseteq Handler
  BY <1>4, IdleRunApproversMoves
<1>5. ASSUME NEW a \in Approver, NEW accepted \in BOOLEAN, ApproverReturns(a, accepted)
      PROVE  Moves(cdo, cdo') /\ Inv(cdo') /\ registry' \subseteq Handler
  BY <1>5, ApproverReturnsMoves
<1>6. ASSUME NEW c \in HandleWithCaller, NEW name \in Handler \cup {None, BadName},
             HandleWith(c, name)
      PROVE  Moves(cdo, cdo') /\ Inv(cdo') /\ registry' \subseteq Handler
  BY <1>6, HandleWithMoves
<1>7. ASSUME NEW c \in ClaimCaller, Claim(c)
      PROVE  Moves(cdo, cdo') /\ Inv(cdo') /\ registry' \subseteq Handler
  BY <1>7, ClaimMoves
<1>8. ASSUME NEW c \in ClaimCaller, NEW p \in Plugin, NEW suitable \in BOOLEAN,
             ClaimSuitability(c, p, suitable)
      PROVE  Moves(cdo, cdo') /\ Inv(cdo') /\ registry' \subseteq Handler
  BY <1>8, ClaimSuitabilityMoves
<1>9. ASSUME NEW preferred \in Handler \cup {None}, Approve(preferred)
      PROVE  Moves(cdo, cdo') /\ Inv(cdo') /\ registry' \subseteq Handler
  BY <1>9, ApproveMoves
<1>10. ASSUME NEW p \in Plugin, NEW suitable \in BOOLEAN, HandlerDecision(p, suitable)
       PROVE  Moves(cdo, cdo') /\ Inv(cdo') /\ registry' \subseteq Handler
  BY <1>10, HandlerDecisionMoves
<1>11. ASSUME NEW success \in BOOLEAN, HandleChannelsReturns(success)
       PROVE  Moves(cdo, cdo') /\ Inv(cdo') /\ registry' \subseteq Handler
  BY <1>11, HandleChannelsReturnsMoves
<1>12. ASSUME EndPluginDelay \/ PluginStartsDelay \/ PluginTerminatesNow
       PROVE  Moves(cdo, cdo') /\ Inv(cdo') /\ registry' \subseteq Handler
  BY <1>12, EndPluginDelayMoves, PluginStartsDelayMoves, PluginTerminatesNowMoves
<1>13. ASSUME NEW action \in PluginAction, PluginTerminatesLater(action)
       PROVE  Moves(cdo, cdo') /\ Inv(cdo') /\ registry' \subseteq Handler
  BY <1>13, PluginTerminatesLaterMoves
<1>14. ASSUME ChannelInvalidated \/ ConnectionAborted \/ RequestCancelled
       PROVE  Moves(cdo, cdo') /\ Inv(cdo') /\ registry' \subseteq Handler
  BY <1>14, ChannelInvalidatedMoves, ConnectionAbortedMoves, RequestCancelledMoves
<1>15. ASSUME NEW h \in Handler, HandlerVanishes(h) \/ HandlerAppears(h)
       PROVE  Moves(cdo, cdo') /\ Inv(cdo') /\ registry' \subseteq Handler
  BY <1>15, HandlerComesOrGoesMoves
<1> QED BY <1>1, <1>2, <1>3, <1>4, <1>5, <1>6, <1>7, <1>8, <1>9, <1>10, <1>11, <1>12,
           <1>13, <1>14, <1>15 DEF Next

(* Of every reachable state: the invariant above, for any sets of        *)
(* clients, plugins and callers.                                         *)
THEOREM InductiveInvariant == Spec => []IInv
<1>1. Init => IInv
  BY InitInv
<1>2. IInv /\ [Next]_vars => IInv'
  <2> SUFFICES ASSUME IInv, [Next]_vars PROVE IInv'
    OBVIOUS
  <2> QED BY StepMoves DEF IInv
<1> QED BY <1>1, <1>2, PTL DEF Spec

(* The operation's record keeps its types, the queue and the handlers    *)
(* listed among them, for any constants: in particular the counters of   *)
(* the locks, which the code keeps in gsize and tests for zero, never go *)
(* below zero.                                                           *)
THEOREM TypeCorrectness == Spec => []TypeOK
<1>1. IInv => TypeOK
  BY TypedIsType DEF IInv, Inv, Ready, TypeOK
<1> QED BY <1>1, InductiveInvariant, PTL

(* The locks count what they stand for: the observers' two the calls of  *)
(* ObserveChannels that have not returned, the approvers' one those of   *)
(* AddDispatchOperation, unless its misuse was reported (mcd-dispatch-   *)
(* operation.c:325 and :345).                                            *)
LocksCounted ==
  /\ cdo.observers_pending = Cardinality(cdo.observing)
  /\ cdo.delay_approver_observers_pending = Cardinality(cdo.observing \cap DelayApprovers)
  /\ cdo.criticals \cap Misuse = {} => cdo.ado_pending = Cardinality(cdo.adding)

(* No sequence of events leaves a lock of the observers or the approvers *)
(* too high, which would stall the channel, or too low, which would hand *)
(* it over before everyone has seen it.                                  *)
THEOREM LocksAreCounted == Spec => []LocksCounted
<1>1. IInv => LocksCounted
  BY DEF IInv, Inv, Ready, ObserverLocks, Fate, Always, LocksCounted
<1> QED BY <1>1, InductiveInvariant, PTL

(* An operation that is over leaves no channel behind                    *)
(* (NoChannelLeftBehind): the channel has an owner, or is being closed,  *)
(* or is gone (_mcd_dispatch_operation_finish and its callers).          *)
THEOREM NoChannelIsLeftBehind == Spec => []NoChannelLeftBehind
<1>1. IInv => NoChannelLeftBehind
  BY DEF IInv, Inv, Ready, Fate, Settled, NoChannelLeftBehind
<1> QED BY <1>1, InductiveInvariant, PTL

(* No handler that cannot bypass approval is called for an incoming      *)
(* channel before the user, or the lack of any approver, has approved    *)
(* (UserApproved).                                                       *)
THEOREM UserHasApproved == Spec => []UserApproved
<1>1. IInv => UserApproved
  <2> SUFFICES ASSUME IInv, cdo.trying_handler \notin BypassApproval \cup {None},
                      cdo.needs_approval, cdo.result = "none"
               PROVE  \/ /\ ~cdo.accepted_by_an_approver
                         /\ cdo.invoked_approvers_if_needed /\ cdo.ado_pending = 0
                      \/ \E i \in DOMAIN cdo.approvals :
                           cdo.approvals[i].type \in {"HANDLE_WITH", "REQUESTED"}
    BY DEF UserApproved
  <2>1. Always(cdo) /\ Open(cdo) /\ PresentedToUser(cdo)
    BY DEF IInv, Inv, Ready, Fate, Open
  <2>2. PICK a \in Entries(cdo) :
          \/ a.type \in {"HANDLE_WITH", "REQUESTED"}
          \/ a.type = "NO_APPROVERS" /\ cdo.invoked_approvers_if_needed
    BY <2>1 DEF PresentedToUser
  <2>3. CASE a.type = "NO_APPROVERS" /\ cdo.invoked_approvers_if_needed
    <3>1. ~cdo.accepted_by_an_approver /\ cdo.adding = {}
      BY <2>1, <2>3 DEF PresentedToUser
    <3>2. cdo.ado_pending = Cardinality({})
      BY <2>1, <3>1 DEF Open, Always
    <3> QED BY <2>3, <3>1, <3>2, FS_EmptySet
  <2> QED BY <2>2, <2>3 DEF Entries
<1> QED BY <1>1, InductiveInvariant, PTL

(* An operation that needs no approval, for a requested channel, is      *)
(* never left with nothing to wait for and no outcome                    *)
(* (RequestedNeverStalls).                                               *)
THEOREM RequestedNeverStall == Spec => []RequestedNeverStalls
<1>1. IInv => RequestedNeverStalls
  <2> SUFFICES ASSUME IInv, Quiescent, ~cdo.needs_approval, ~cdo.observe_only
               PROVE  cdo.result # "none" \/ IsInternal(cdo)
    BY DEF RequestedNeverStalls
  <2>1. Awake(cdo) /\ Open(cdo) /\ Typed(cdo)
    BY DEF IInv, Inv, Ready, Fate
  <2>2. cdo.trying_handler # None => cdo.result # "none"
    BY <2>1 DEF Open, Quiescent
  <2> QED BY <2>1, <2>2, TypedFields DEF Awake, Quiescent
<1> QED BY <1>1, InductiveInvariant, PTL

(* No reply is changed and no owner of the channel replaced, in any step *)
(* (OutcomesAreFinal).                                                   *)
THEOREM OutcomesStayFinal == Spec => OutcomesAreFinal
<1>1. IInv /\ [Next]_vars =>
        [/\ cdo.handled_by # None => cdo'.handled_by = cdo.handled_by
         /\ \A c \in Caller :
              cdo.reply[c] \in {"ok", "error"} => cdo'.reply[c] = cdo.reply[c]]_vars
  BY StepMoves DEF Moves, Owned, Answered
<1> QED BY <1>1, InductiveInvariant, PTL DEF Spec, OutcomesAreFinal

(* MC's own request, or a channel that nobody can handle: approvers are  *)
(* never asked.                                                          *)
Direct(s) == IsInternal(s) \/ s.possible_handlers = <<>>

LEMMA DirectIsBypass ==
  ASSUME NEW s
  PROVE  /\ Direct(s) => CanBypassApproval(s)
         /\ BypassApproval = {} => (CanBypassApproval(s) => Direct(s))
  BY DEF Direct, CanBypassApproval

(* Two updates in turn write no more than the fields of both.            *)
LEMMA OthersTrans ==
  ASSUME NEW s, NEW t, NEW u, NEW F, NEW G, Others(s, t, F), Others(t, u, G)
  PROVE  Others(s, u, F \cup G)
  BY DEF Others

(* An update may be said to write more fields than it does.              *)
LEMMA OthersMore ==
  ASSUME NEW s, NEW t, NEW F, NEW G, Others(s, t, F), F \subseteq G
  PROVE  Others(s, t, G)
  BY DEF Others

(* One assignment to a well typed operation writes that field alone.     *)
LEMMA OneTypedWrite ==
  ASSUME NEW s, Typed(s), NEW f \in Fields, NEW v
  PROVE  LET t == [s EXCEPT ![f] = v] IN IsCdo(t) /\ Others(s, t, {f}) /\ t[f] = v
  BY TypedIsCdo DEF IsCdo, Others

(* The same of any record with the fields of an operation.               *)
LEMMA OneWrite ==
  ASSUME NEW s, IsCdo(s), NEW f \in Fields, NEW v
  PROVE  LET t == [s EXCEPT ![f] = v] IN IsCdo(t) /\ Others(s, t, {f}) /\ t[f] = v
  BY DEF IsCdo, Others

(* Two assignments to distinct fields.                                   *)
LEMMA TwoWrites ==
  ASSUME NEW s, IsCdo(s), NEW f \in Fields, NEW v, NEW g \in Fields \ {f}, NEW w
  PROVE  LET t == [s EXCEPT ![f] = v, ![g] = w]
         IN IsCdo(t) /\ Others(s, t, {f, g}) /\ t[f] = v /\ t[g] = w
  BY DEF IsCdo, Others

(* The fields that the loss of the channel writes, finish apart.         *)
Loss == {"channel", "cancelled", "status", "error", "lost_channel", "criticals", "signals"}

(* mcd_dispatch_operation_lose_channel up to its call of finish:         *)
(* ChannelLost is emitted at once only if no client holds the signals    *)
(* back; otherwise it is remembered in lost_channel.                     *)
LEMMA DropChannelShape ==
  ASSUME NEW s, IsCdo(s)
  PROVE  LET d == DropChannel(s) IN
         /\ Others(s, d, Loss) /\ IsCdo(d)
         /\ \/ d.signals = s.signals /\ d.lost_channel = s.lost_channel
            \/ ~MaySignalFinished(s) /\ d.signals = s.signals /\ d.lost_channel
            \/ /\ MaySignalFinished(s) /\ d.lost_channel = s.lost_channel
               /\ d.signals = Append(s.signals, "ChannelLost")
<1> DEFINE e == IF s.status \in {"DISPATCHING", "HANDLER_INVOKED"} THEN "OTHER" ELSE s.error
           b == [s EXCEPT !.status = "ABORTED", !.error = e]
           v == b.cancelled \/ b.error = "CANCELLED"
           a == [b EXCEPT !.channel = FALSE, !.cancelled = v]
           c == a.criticals \cup {"lose_channel"}
           r == [a EXCEPT !.criticals = c]
           l == [a EXCEPT !.lost_channel = TRUE]
           q == Append(a.signals, "ChannelLost")
           g == [a EXCEPT !.signals = q]
           d == DropChannel(s)
<1>1. AbortChannel(s) = b
  BY DEF AbortChannel, IsCdo, Fields
<1> HIDE DEF e
<1>2. IsCdo(b) /\ Others(s, b, {"status", "error"})
  BY TwoWrites, FieldNames
<1> HIDE DEF b
<1>3. IsCdo(a) /\ Others(b, a, {"channel", "cancelled"})
  <2> HIDE DEF v
  <2> QED BY <1>2, TwoWrites, FieldNames
<1>4. d = r \/ (d = l /\ ~MaySignalFinished(a)) \/ (d = g /\ MaySignalFinished(a))
  <2>1. a = [b EXCEPT !.channel = FALSE, !.cancelled = @ \/ b.error = "CANCELLED"]
    BY <1>2 DEF IsCdo, Fields
  <2>2. d = CASE ~HasError(a) -> Report(a, "lose_channel")
              [] HasError(a) /\ ~MaySignalFinished(a) -> l
              [] OTHER -> Emit(a, "ChannelLost")
    <3> HIDE DEF a
    <3> QED BY <1>1, <2>1 DEF DropChannel
  <2> HIDE DEF a, d
  <2>3. r = Report(a, "lose_channel")
    BY <1>3 DEF Report, IsCdo, Fields
  <2>4. g = Emit(a, "ChannelLost")
    BY <1>3 DEF Emit, IsCdo, Fields
  <2> HIDE DEF r, l, g
  <2>5. CASE ~HasError(a)
    BY <2>2, <2>3, <2>5
  <2>6. CASE HasError(a) /\ ~MaySignalFinished(a)
    BY <2>2, <2>6
  <2>7. CASE HasError(a) /\ MaySignalFinished(a)
    BY <2>2, <2>4, <2>7
  <2> QED BY <2>5, <2>6, <2>7
<1> HIDE DEF a, d
<1>5. Others(s, a, {"status", "error", "channel", "cancelled"})
  BY <1>2, <1>3 DEF Others
<1>6. MaySignalFinished(a) = MaySignalFinished(s) /\ a.signals = s.signals /\ a.lost_channel = s.lost_channel
  BY <1>5, FieldNames DEF Others, MaySignalFinished
<1>7. IsCdo(r) /\ Others(a, r, {"criticals"})
  <2> HIDE DEF c
  <2> QED BY <1>3, OneWrite, FieldNames
<1>8. IsCdo(l) /\ Others(a, l, {"lost_channel"}) /\ l.lost_channel
  BY <1>3, OneWrite, FieldNames
<1>9. IsCdo(g) /\ Others(a, g, {"signals"}) /\ g.signals = q
  <2> HIDE DEF q
  <2> QED BY <1>3, OneWrite, FieldNames
<1>10. q = Append(s.signals, "ChannelLost")
  BY <1>6
<1> HIDE DEF r, l, g, q
<1>11. CASE d = r
  <2>1. d.signals = s.signals /\ d.lost_channel = s.lost_channel
    BY <1>6, <1>7, <1>11, FieldNames DEF Others
  <2>2. Others(s, d, Loss)
    BY <1>5, <1>7, <1>11 DEF Others, Loss
  <2> QED BY <1>7, <1>11, <2>1, <2>2 DEF d
<1>12. CASE d = l /\ ~MaySignalFinished(a)
  <2>1. d.signals = s.signals
    BY <1>6, <1>8, <1>12, FieldNames DEF Others
  <2>2. Others(s, d, Loss)
    BY <1>5, <1>8, <1>12 DEF Others, Loss
  <2> QED BY <1>6, <1>8, <1>12, <2>1, <2>2 DEF d
<1>13. CASE d = g /\ MaySignalFinished(a)
  <2>1. d.lost_channel = s.lost_channel
    BY <1>6, <1>9, <1>13, FieldNames DEF Others
  <2>2. Others(s, d, Loss)
    BY <1>5, <1>9, <1>13 DEF Others, Loss
  <2> QED BY <1>6, <1>9, <1>10, <1>13, <2>1, <2>2 DEF d
<1> QED BY <1>4, <1>11, <1>12, <1>13

(* Finished, when nothing is due after the observers.                    *)
LEMMA ActuallyFinishShape ==
  ASSUME NEW s, IsCdo(s), s.after_observers = "NONE", Unscheduled(s)
  PROVE  LET t == ActuallyFinish(s) IN
         /\ IsCdo(t) /\ Others(s, t, {"signals", "did_post_observer_actions"})
         /\ t.signals = Append(s.signals, "Finished")
<1> DEFINE q == Append(s.signals, "Finished")
           e == [s EXCEPT !.signals = q]
           f == [e EXCEPT !.did_post_observer_actions = TRUE]
           p == PostObserverActionsFinished(e)
           t == ActuallyFinish(s)
<1>1. Emit(s, "Finished") = e
  BY DEF Emit, IsCdo, Fields
<1>2. IsCdo(e) /\ Others(s, e, {"signals"}) /\ e.signals = q
  <2> HIDE DEF q
  <2> QED BY OneWrite, FieldNames
<1>3. t = CheckClientLocksFinished(e)
  BY <1>1 DEF ActuallyFinish
<1> HIDE DEF e, t
<1>4. e.after_observers = "NONE" /\ Unscheduled(e)
  <2>1. /\ e.after_observers = s.after_observers /\ e.possible_handlers = s.possible_handlers
        /\ e.channel = s.channel
        /\ e.tried_handlers_before_approval = s.tried_handlers_before_approval
    BY <1>2, FieldNames DEF Others
  <2>2. CanBypassApproval(e) = CanBypassApproval(s)
    BY <2>1, CanBypassSame
  <2> QED BY <2>1, <2>2 DEF Unscheduled
<1>5. p \in {e, f}
  BY <1>4 DEF PostObserverActionsFinished, WillTerminate
<1>6. IsCdo(f) /\ Others(e, f, {"did_post_observer_actions"})
  BY <1>2, OneWrite, FieldNames
<1> HIDE DEF f, p
<1>7. IsCdo(p) /\ Others(e, p, {"did_post_observer_actions"})
  <2>1. Others(e, e, {"did_post_observer_actions"})
    BY DEF Others
  <2> QED BY <1>2, <1>5, <1>6, <2>1
<1>8. Unscheduled(p)
  <2>1. /\ p.possible_handlers = e.possible_handlers /\ p.channel = e.channel
        /\ p.tried_handlers_before_approval = e.tried_handlers_before_approval
    BY <1>7, FieldNames DEF Others
  <2>2. CanBypassApproval(p) = CanBypassApproval(e)
    BY <2>1, CanBypassSame
  <2> QED BY <1>4, <2>1, <2>2 DEF Unscheduled
<1>9. t \in {e, p}
  <2>1. ScheduleApprovers(p) = p
    BY <1>8 DEF ScheduleApprovers, Unscheduled
  <2> QED BY <1>3, <2>1 DEF CheckClientLocksFinished, p
<1>10. Others(s, p, {"signals", "did_post_observer_actions"}) /\ p.signals = q
  BY <1>2, <1>7, FieldNames DEF Others
<1>11. Others(s, e, {"signals", "did_post_observer_actions"})
  BY <1>2 DEF Others
<1> QED BY <1>2, <1>7, <1>9, <1>10, <1>11 DEF t

(* The fields that finish writes.                                        *)
Ends == {"result", "approvals", "reply", "signals", "did_post_observer_actions"}

LEMMA FinishShape ==
  ASSUME NEW s, Typed(s), s.after_observers = "NONE", Unscheduled(s), s.result = "none",
         NEW r \in {"NotYours", "Lost", "Failed"}
  PROVE  LET t == Finish(s, r) IN
         /\ Others(s, t, Ends) /\ t.result = r /\ t.approvals = <<>>
         /\ t.signals = IF MaySignalFinished(s) THEN Append(s.signals, "Finished") ELSE s.signals
         /\ t.reply = ReplyToQueue([s EXCEPT !.result = r]).reply
<1> DEFINE u == [s EXCEPT !.result = r]
           f == ReplyToQueue(u)
           t == Finish(s, r)
<1>1. t = IF MaySignalFinished(f) THEN ActuallyFinish(f) ELSE f
  BY DEF Finish
<1>2. IsCdo(u) /\ Others(s, u, {"result"}) /\ u.result = r
  BY OneTypedWrite, FieldNames
<1> HIDE DEF u
<1>3. IsCdo(f) /\ Others(u, f, {"approvals", "reply"}) /\ f.approvals = <<>>
  <2> DEFINE v == [c \in Caller |->
                       IF \E a \in QueuedCalls(u) : a.caller = c
                       THEN FinalReply(u, CHOOSE a \in QueuedCalls(u) : a.caller = c)
                       ELSE u.reply[c]]
             q == <<>>
             w == [u EXCEPT !.approvals = q, !.reply = v]
  <2>1. f = w
    BY DEF ReplyToQueue
  <2> HIDE DEF v, f, q
  <2>2. IsCdo(w) /\ Others(u, w, {"approvals", "reply"}) /\ w.approvals = q
    BY <1>2 DEF IsCdo, Others, Fields
  <2> HIDE DEF w
  <2> QED BY <2>1, <2>2 DEF q
<1> HIDE DEF f
<1>4. Others(s, f, {"result", "approvals", "reply"}) /\ f.result = r
  BY <1>2, <1>3, FieldNames DEF Others
<1>5. /\ f.after_observers = s.after_observers /\ f.possible_handlers = s.possible_handlers
      /\ f.channel = s.channel /\ f.signals = s.signals
      /\ f.tried_handlers_before_approval = s.tried_handlers_before_approval
      /\ MaySignalFinished(f) = MaySignalFinished(s)
  BY <1>4, FieldNames DEF Others, MaySignalFinished
<1>6. Unscheduled(f)
  <2>1. CanBypassApproval(f) = CanBypassApproval(s)
    BY <1>5, CanBypassSame
  <2> QED BY <1>5, <2>1 DEF Unscheduled
<1>7. CASE ~MaySignalFinished(s)
  <2>1. t = f
    BY <1>1, <1>5, <1>7
  <2>2. Others(s, f, Ends)
    BY <1>4 DEF Others, Ends
  <2> HIDE DEF t
  <2> QED BY <1>3, <1>4, <1>5, <1>7, <2>1, <2>2 DEF t, f, u
<1>8. CASE MaySignalFinished(s)
  <2>1. t = ActuallyFinish(f)
    BY <1>1, <1>5, <1>8
  <2> HIDE DEF t
  <2>2. /\ Others(f, t, {"signals", "did_post_observer_actions"})
        /\ t.signals = Append(f.signals, "Finished")
    BY <1>3, <1>5, <1>6, <2>1, ActuallyFinishShape
  <2>3. Others(s, t, Ends)
    BY <1>4, <2>2 DEF Others, Ends
  <2>4. t.result = r /\ t.approvals = <<>> /\ t.reply = f.reply
    BY <1>3, <1>4, <2>2, FieldNames DEF Others
  <2> QED BY <1>5, <1>8, <2>2, <2>3, <2>4 DEF t, f, u
<1> QED BY <1>7, <1>8

(* Without plugins: nothing is pending or put off for one, and no lock   *)
(* of the approvers is misused.                                          *)
Plain(s) ==
  /\ s.plugins_pending = 0 /\ s.after_observers = "NONE" /\ ~s.leaked
  /\ s.criticals \cap Misuse = {}

(* The approvers' idle source is attached at most once, after the        *)
(* observers were called, while the operation is open, and never for a   *)
(* channel that nobody is asked about.                                   *)
Scheduled(s) ==
  /\ s.idle => s.invoked_observers_if_needed /\ s.result = "none" /\ ~Direct(s)
  /\ ~Direct(s) /\ ~s.tried_handlers_before_approval =>
       /\ ~s.invoked_approvers_if_needed
       /\ s.trying_handler = None
       /\ s.result # "none" => ~s.channel

(* Once the result is known, the queue holds no call of a client: all    *)
(* were answered.                                                        *)
Silent(s) == s.result # "none" => \A a \in Entries(s) : a.caller = None

(* Finished is emitted exactly when the result is known and no client is *)
(* being called, ChannelLost at most once and before it; a loss that is  *)
(* still to be told belongs to an operation that told nothing.           *)
Signalled(s) ==
  /\ s.signals \in {<<>>, <<"Finished">>, <<"ChannelLost", "Finished">>}
  /\ s.signals # <<>> <=> s.result # "none" /\ MaySignalFinished(s)
  /\ s.lost_channel => ~s.channel /\ s.signals = <<>>
  /\ s.signals = <<"ChannelLost", "Finished">> => ~s.channel

(* What holds, besides IInv, without plugins and without handlers that   *)
(* bypass approval.                                                      *)
Orderly(s) == Plain(s) /\ Scheduled(s) /\ Silent(s) /\ Signalled(s)

(* No signal is taken back.                                              *)
Grows(s, t) == t.signals = <<>> => s.signals = <<>>

(* Direct depends on the possible handlers alone.                        *)
LEMMA DirectSame ==
  ASSUME NEW s, NEW t, t.possible_handlers = s.possible_handlers
  PROVE  Direct(t) = Direct(s)
  BY DEF Direct, IsInternal

(* Once the result is known check_client_locks attaches no idle source   *)
(* any more.                                                             *)
LEMMA NothingLeftToSchedule ==
  ASSUME NEW s, Scheduled(s), s.result # "none"
  PROVE  Unscheduled(s)
  BY DirectIsBypass DEF Scheduled, Unscheduled

(* The three sequences of signals that an operation can have emitted.    *)
LEMMA FirstSignals ==
  /\ Append(<<>>, "Finished") = <<"Finished">>
  /\ Append(<<>>, "ChannelLost") = <<"ChannelLost">>
  /\ Append(<<"ChannelLost">>, "Finished") = <<"ChannelLost", "Finished">>
  /\ <<"Finished">> # <<>> /\ <<"ChannelLost", "Finished">> # <<>> /\ <<"ChannelLost">> # <<>>
  /\ <<"ChannelLost", "Finished">> # <<"Finished">>
<1> DEFINE p == Append(<<"ChannelLost">>, "Finished")
           q == <<"ChannelLost", "Finished">>
<1>1. p \in Seq({"ChannelLost", "Finished"}) /\ q \in Seq({"ChannelLost", "Finished"})
  OBVIOUS
<1>2. Len(p) = 2 /\ Len(q) = 2 /\ p[1] = q[1] /\ p[2] = q[2]
  OBVIOUS
<1> HIDE DEF p, q
<1>3. p = q
  BY <1>1, <1>2, SeqEqual, \A i \in 1 .. 2 : i = 1 \/ i = 2
<1>4. /\ Append(<<>>, "Finished") = <<"Finished">>
      /\ Append(<<>>, "ChannelLost") = <<"ChannelLost">>
  OBVIOUS
<1>5. /\ <<"Finished">> # <<>> /\ <<"ChannelLost", "Finished">> # <<>> /\ <<"ChannelLost">> # <<>>
      /\ <<"ChannelLost", "Finished">> # <<"Finished">>
  OBVIOUS
<1> QED BY <1>3, <1>4, <1>5 DEF p, q

(* check_finished                                                        *)
LEMMA CheckFinishedShape ==
  ASSUME NEW s, Typed(s), s.after_observers = "NONE", s.result # "none" => Unscheduled(s)
  PROVE  LET t == CheckFinished(s)
             q == IF s.lost_channel THEN Append(s.signals, "ChannelLost") ELSE s.signals
         IN /\ IsCdo(t) /\ Others(s, t, {"lost_channel", "signals", "did_post_observer_actions"})
            /\ ~MaySignalFinished(s) => t = s
            /\ MaySignalFinished(s) =>
                 /\ ~t.lost_channel
                 /\ t.signals = IF s.result # "none" THEN Append(q, "Finished") ELSE q
<1> DEFINE q == IF s.lost_channel THEN Append(s.signals, "ChannelLost") ELSE s.signals
           F == {"lost_channel", "signals", "did_post_observer_actions"}
           m == [s EXCEPT !.lost_channel = FALSE]
           l == IF s.lost_channel THEN Emit(m, "ChannelLost") ELSE s
           t == CheckFinished(s)
<1>1. IsCdo(s) /\ Others(s, s, F)
  BY TypedIsCdo DEF Others
<1>2. CASE ~MaySignalFinished(s)
  <2>1. t = s
    BY <1>2 DEF CheckFinished
  <2> HIDE DEF t
  <2> QED BY <1>1, <1>2, <2>1 DEF t, F
<1>3. CASE MaySignalFinished(s)
  <2>1. IsCdo(m) /\ Others(s, m, {"lost_channel"}) /\ ~m.lost_channel
    BY <1>1 DEF IsCdo, Others, Fields
  <2>2. IsCdo(l) /\ Others(s, l, {"lost_channel", "signals"}) /\ ~l.lost_channel /\ l.signals = q
    <3>1. CASE ~s.lost_channel
      <4>1. l = s /\ q = s.signals
        BY <3>1
      <4> QED BY <1>1, <3>1, <4>1 DEF Others
    <3>2. CASE s.lost_channel
      <4> DEFINE v == Append(m.signals, "ChannelLost")
                 n == [m EXCEPT !.signals = v]
      <4>1. Emit(m, "ChannelLost") = n
        BY <2>1 DEF Emit, IsCdo, Fields
      <4>2. m.signals = s.signals
        BY <2>1, FieldNames DEF Others
      <4>3. v = q
        BY <3>2, <4>2
      <4> HIDE DEF m, v
      <4>4. IsCdo(n) /\ Others(m, n, {"signals"}) /\ n.signals = v
        BY <2>1, OneWrite, FieldNames
      <4> HIDE DEF n
      <4>5. l = n
        BY <3>2, <4>1
      <4> HIDE DEF q, l
      <4>6. Others(s, n, {"lost_channel", "signals"}) /\ ~n.lost_channel
        BY <2>1, <4>4, FieldNames DEF Others
      <4> QED BY <4>3, <4>4, <4>5, <4>6
    <3> QED BY <3>1, <3>2
  <2>3. t = IF l.result # "none" THEN ActuallyFinish(l) ELSE l
    BY <1>3 DEF CheckFinished
  <2> HIDE DEF m, l, t, q
  <2>4. /\ l.result = s.result /\ l.after_observers = "NONE"
        /\ l.possible_handlers = s.possible_handlers /\ l.channel = s.channel
        /\ l.tried_handlers_before_approval = s.tried_handlers_before_approval
    BY <2>2, FieldNames DEF Others
  <2>5. CASE s.result = "none"
    <3>1. t = l
      BY <2>3, <2>4, <2>5
    <3>2. Others(s, t, F)
      BY <2>2, <3>1 DEF Others
    <3> QED BY <1>3, <2>2, <2>5, <3>1, <3>2 DEF t, F, q
  <2>6. CASE s.result # "none"
    <3>1. t = ActuallyFinish(l)
      BY <2>3, <2>4, <2>6
    <3>2. Unscheduled(l)
      <4>1. CanBypassApproval(l) = CanBypassApproval(s)
        BY <2>4, CanBypassSame
      <4> QED BY <2>4, <2>6, <4>1 DEF Unscheduled
    <3>3. /\ IsCdo(t) /\ Others(l, t, {"signals", "did_post_observer_actions"})
          /\ t.signals = Append(l.signals, "Finished")
      BY <2>2, <2>4, <3>1, <3>2, ActuallyFinishShape
    <3>4. Others(s, t, F) /\ ~t.lost_channel /\ t.signals = Append(q, "Finished")
      BY <2>2, <3>3, FieldNames DEF Others
    <3> QED BY <1>3, <2>6, <3>3, <3>4 DEF t, F, q
  <2> QED BY <2>5, <2>6
<1> QED BY <1>2, <1>3

(* check_finished when the lock that it follows was still held: nothing  *)
(* was signalled before.                                                 *)
LEMMA CheckFinishedOrderly ==
  ASSUME NEW s, Typed(s), Plain(s), Scheduled(s), Silent(s), s.signals = <<>>,
         s.lost_channel => ~s.channel, s.result = "none" => s.channel
  PROVE  LET t == CheckFinished(s)
         IN /\ Orderly(t)
            /\ Others(s, t, {"lost_channel", "signals", "did_post_observer_actions"})
<1> DEFINE t == CheckFinished(s)
           q == IF s.lost_channel THEN Append(s.signals, "ChannelLost") ELSE s.signals
           F == {"lost_channel", "signals", "did_post_observer_actions"}
<1>1. s.result # "none" => Unscheduled(s)
  BY NothingLeftToSchedule
<1>2. /\ IsCdo(t) /\ Others(s, t, F)
      /\ ~MaySignalFinished(s) => t = s
      /\ MaySignalFinished(s) =>
           /\ ~t.lost_channel
           /\ t.signals = IF s.result # "none" THEN Append(q, "Finished") ELSE q
  BY <1>1, CheckFinishedShape DEF Plain
<1>3. q = IF s.lost_channel THEN <<"ChannelLost">> ELSE <<>>
  BY FirstSignals
<1> HIDE DEF t, q
<1>4. /\ Plain(t) /\ Scheduled(t) /\ Silent(t) /\ MaySignalFinished(t) = MaySignalFinished(s)
      /\ t.result = s.result /\ t.channel = s.channel
  <2>1. /\ t.plugins_pending = s.plugins_pending /\ t.after_observers = s.after_observers
        /\ t.leaked = s.leaked /\ t.criticals = s.criticals /\ t.idle = s.idle
        /\ t.result = s.result /\ t.channel = s.channel
        /\ t.possible_handlers = s.possible_handlers
        /\ t.tried_handlers_before_approval = s.tried_handlers_before_approval
        /\ t.invoked_approvers_if_needed = s.invoked_approvers_if_needed
        /\ t.trying_handler = s.trying_handler /\ t.approvals = s.approvals
        /\ t.invoked_observers_if_needed = s.invoked_observers_if_needed
    BY <1>2, FieldNames DEF Others
  <2>2. Direct(t) = Direct(s) /\ Entries(t) = Entries(s)
    BY <2>1, DirectSame DEF Entries
  <2>3. Plain(t)
    BY <2>1 DEF Plain
  <2>4. Scheduled(t)
    BY <2>1, <2>2 DEF Scheduled
  <2>5. Silent(t)
    BY <2>1, <2>2 DEF Silent
  <2>6. MaySignalFinished(t) = MaySignalFinished(s)
    BY <1>2, FieldNames DEF Others, MaySignalFinished
  <2> QED BY <2>1, <2>3, <2>4, <2>5, <2>6
<1>5. Signalled(t)
  <2>1. CASE ~MaySignalFinished(s)
    BY <1>2, <1>4, <2>1, FirstSignals DEF Signalled
  <2>2. CASE MaySignalFinished(s) /\ s.result = "none"
    <3>1. t.signals = <<>> /\ ~t.lost_channel
      BY <1>2, <1>3, <2>2
    <3> QED BY <1>4, <2>2, <3>1, FirstSignals DEF Signalled
  <2>3. CASE MaySignalFinished(s) /\ s.result # "none"
    <3>1. ~t.lost_channel /\ t.signals = IF s.lost_channel THEN <<"ChannelLost", "Finished">>
                                                           ELSE <<"Finished">>
      BY <1>2, <1>3, <2>3, FirstSignals
    <3> QED BY <1>4, <2>3, <3>1, FirstSignals DEF Signalled
  <2> QED BY <2>1, <2>2, <2>3
<1> QED BY <1>2, <1>4, <1>5 DEF Orderly, t

(* The fields that each conjunct of Orderly reads.                       *)
PlainOn == {"plugins_pending", "after_observers", "leaked", "criticals"}
ScheduledOn ==
  {"idle", "result", "possible_handlers", "tried_handlers_before_approval",
   "invoked_approvers_if_needed", "trying_handler", "channel", "invoked_observers_if_needed"}
SilentOn == {"result", "approvals"}
SignalledOn ==
  {"signals", "lost_channel", "channel", "result", "invoked_observers_if_needed",
   "observers_pending", "ado_pending"}

(* Each conjunct of Orderly outlives a step that writes none of its      *)
(* fields.                                                               *)
LEMMA PlainSame ==
  ASSUME NEW s, NEW t, NEW F, Others(s, t, F), F \cap PlainOn = {}, Plain(s)
  PROVE  Plain(t)
<1>1. /\ t.plugins_pending = s.plugins_pending /\ t.after_observers = s.after_observers
      /\ t.leaked = s.leaked /\ t.criticals = s.criticals
  BY FieldNames DEF Others, PlainOn
<1> QED BY <1>1 DEF Plain

LEMMA ScheduledSame ==
  ASSUME NEW s, NEW t, NEW F, Others(s, t, F), F \cap ScheduledOn = {}, Scheduled(s)
  PROVE  Scheduled(t)
<1>1. /\ t.idle = s.idle /\ t.result = s.result /\ t.possible_handlers = s.possible_handlers
      /\ t.tried_handlers_before_approval = s.tried_handlers_before_approval
      /\ t.invoked_approvers_if_needed = s.invoked_approvers_if_needed
      /\ t.trying_handler = s.trying_handler /\ t.channel = s.channel
      /\ t.invoked_observers_if_needed = s.invoked_observers_if_needed
  BY FieldNames DEF Others, ScheduledOn
<1>2. Direct(t) = Direct(s)
  BY <1>1, DirectSame
<1> QED BY <1>1, <1>2 DEF Scheduled

LEMMA SilentSame ==
  ASSUME NEW s, NEW t, NEW F, Others(s, t, F), F \cap SilentOn = {}, Silent(s)
  PROVE  Silent(t)
<1>1. t.result = s.result /\ t.approvals = s.approvals
  BY FieldNames DEF Others, SilentOn
<1> QED BY <1>1 DEF Silent, Entries

(* Whether the signals are held back depends on the locks of the         *)
(* clients.                                                              *)
LEMMA MaySame ==
  ASSUME NEW s, NEW t, NEW F, Others(s, t, F),
         F \cap {"invoked_observers_if_needed", "observers_pending", "ado_pending"} = {}
  PROVE  MaySignalFinished(t) = MaySignalFinished(s)
  BY FieldNames DEF Others, MaySignalFinished

LEMMA SignalledSame ==
  ASSUME NEW s, NEW t, NEW F, Others(s, t, F), F \cap SignalledOn = {}, Signalled(s)
  PROVE  Signalled(t)
<1>1. /\ t.signals = s.signals /\ t.lost_channel = s.lost_channel
      /\ t.channel = s.channel /\ t.result = s.result
  BY FieldNames DEF Others, SignalledOn
<1>2. MaySignalFinished(t) = MaySignalFinished(s)
  BY MaySame DEF SignalledOn
<1> QED BY <1>1, <1>2 DEF Signalled

LEMMA OrderlySame ==
  ASSUME NEW s, NEW t, NEW F, Others(s, t, F), Orderly(s),
         F \cap (PlainOn \cup ScheduledOn \cup SilentOn \cup SignalledOn) = {}
  PROVE  Orderly(t) /\ t.signals = s.signals
<1>1. F \cap PlainOn = {} /\ F \cap ScheduledOn = {} /\ F \cap SilentOn = {} /\ F \cap SignalledOn = {}
  OBVIOUS
<1>2. t.signals = s.signals
  BY <1>1, FieldNames DEF Others, SignalledOn
<1> QED BY <1>1, <1>2, PlainSame, ScheduledSame, SilentSame, SignalledSame DEF Orderly

(* Before finish: ChannelLost is announced or deferred.                  *)
Unannounced(s) ==
  \/ s.signals = <<>> /\ (s.lost_channel => ~s.channel /\ ~MaySignalFinished(s))
  \/ s.signals = <<"ChannelLost">> /\ MaySignalFinished(s) /\ ~s.lost_channel /\ ~s.channel

(* finish, of an operation whose signals were not emitted out of turn,   *)
(* restores the order, whatever its caller writes afterwards about the   *)
(* channel.                                                              *)
LEMMA FinishOrderly ==
  ASSUME NEW s, Typed(s), Plain(s), Scheduled(s), s.result = "none", Unannounced(s),
         s.tried_handlers_before_approval \/ Direct(s) \/ ~s.channel,
         NEW r \in {"NotYours", "Lost", "Failed"},
         NEW t, Others(Finish(s, r), t, {"idle", "status", "error", "closing"}), ~t.idle
  PROVE  Orderly(t)
<1> DEFINE f == Finish(s, r)
           G == {"idle", "status", "error", "closing"}
           E == Ends \cup G
<1>1. Unscheduled(s)
  BY DirectIsBypass DEF Unscheduled
<1>2. /\ Others(s, f, Ends) /\ f.result = r /\ f.approvals = <<>>
      /\ f.signals = IF MaySignalFinished(s) THEN Append(s.signals, "Finished") ELSE s.signals
  BY <1>1, FinishShape DEF Plain
<1>3. Others(f, t, G)
  OBVIOUS
<1> HIDE DEF f
<1>4. Others(s, t, E)
  BY <1>2, <1>3, OthersTrans
<1>5. t.result = r /\ t.approvals = <<>> /\ t.signals = f.signals
  BY <1>2, <1>3, FieldNames DEF Others
<1>6. Plain(t)
  BY <1>4, PlainSame DEF Ends, PlainOn
<1>7. /\ t.possible_handlers = s.possible_handlers /\ t.channel = s.channel
      /\ t.tried_handlers_before_approval = s.tried_handlers_before_approval
      /\ t.invoked_approvers_if_needed = s.invoked_approvers_if_needed
      /\ t.trying_handler = s.trying_handler /\ t.lost_channel = s.lost_channel
  BY <1>4, FieldNames DEF Others, Ends
<1>8. MaySignalFinished(t) = MaySignalFinished(s)
  BY <1>4, MaySame DEF Ends
<1>9. Scheduled(t)
  <2>1. Direct(t) = Direct(s)
    BY <1>7, DirectSame
  <2> QED BY <1>7, <2>1 DEF Scheduled
<1>10. Silent(t)
  BY <1>5, NoEntries DEF Silent
<1>11. Signalled(t)
  <2>1. r # "none"
    OBVIOUS
  <2>2. CASE s.signals = <<>> /\ ~MaySignalFinished(s)
    <3>1. t.signals = <<>>
      BY <1>2, <1>5, <2>2
    <3> QED BY <1>5, <1>7, <1>8, <2>2, <3>1, FirstSignals DEF Signalled, Unannounced
  <2>3. CASE s.signals = <<>> /\ MaySignalFinished(s)
    <3>1. t.signals = <<"Finished">>
      BY <1>2, <1>5, <2>3, FirstSignals
    <3>2. ~t.lost_channel
      BY <1>7, <2>3, FirstSignals DEF Unannounced
    <3> QED BY <1>5, <1>8, <2>1, <2>3, <3>1, <3>2, FirstSignals DEF Signalled
  <2>4. CASE s.signals = <<"ChannelLost">> /\ MaySignalFinished(s)
    <3>1. t.signals = <<"ChannelLost", "Finished">>
      BY <1>2, <1>5, <2>4, FirstSignals
    <3>2. ~t.lost_channel /\ ~t.channel
      BY <1>7, <2>4, FirstSignals DEF Unannounced
    <3> QED BY <1>5, <1>8, <2>1, <2>4, <3>1, <3>2, FirstSignals DEF Signalled
  <2> QED BY <2>2, <2>3, <2>4 DEF Unannounced
<1> QED BY <1>6, <1>9, <1>10, <1>11 DEF Orderly

(* No update at all writes nothing.                                      *)
LEMMA SelfOthers == ASSUME NEW s, NEW F PROVE Others(s, s, F)
  BY DEF Others

(* _mcd_dispatch_operation_close_as_undispatchable, of an open result    *)
LEMMA CloseAsUndispatchableOrderly ==
  ASSUME NEW s, Typed(s), Plain(s), Scheduled(s), s.result = "none", Unannounced(s),
         s.tried_handlers_before_approval \/ Direct(s) \/ ~s.channel, ~s.idle
  PROVE  LET t == CloseAsUndispatchable(s)
         IN /\ Orderly(t)
            /\ ~t.idle /\ t.tried_handlers_before_approval = s.tried_handlers_before_approval
            /\ t.possible_handlers = s.possible_handlers
<1> DEFINE f == Finish(s, "Failed")
           t == CloseAsUndispatchable(s)
           u == [f EXCEPT !.error = "OTHER", !.status = "FAILED"]
           w == [u EXCEPT !.closing = TRUE]
           G == {"idle", "status", "error", "closing"}
<1>1. Typed(f)
  BY TypedFinish
<1>2. IsCdo(f)
  BY <1>1, TypedIsCdo
<1>3. t = IF f.channel THEN [TakeError(f, "OTHER") EXCEPT !.closing = TRUE] ELSE f
  BY DEF CloseAsUndispatchable
<1>4. Others(s, f, Ends)
  <2>1. Unscheduled(s)
    BY DirectIsBypass DEF Unscheduled
  <2> QED BY <2>1, FinishShape DEF Plain
<1> HIDE DEF f, t
<1>5. TakeError(f, "OTHER") = u
  BY DEF TakeError
<1>6. IsCdo(u) /\ Others(f, u, {"error", "status"})
  BY <1>2 DEF IsCdo, Others, Fields
<1> HIDE DEF u
<1>7. Others(u, w, {"closing"})
  BY <1>6 DEF IsCdo, Others, Fields
<1> HIDE DEF w
<1>8. Others(f, w, G)
  BY <1>6, <1>7 DEF Others
<1>9. Others(f, f, G)
  BY SelfOthers
<1>10. t \in {f, w}
  BY <1>3, <1>5 DEF w
<1>11. Others(f, t, G) /\ t.idle = f.idle
  <2>1. w.idle = f.idle
    BY <1>6, <1>7, FieldNames DEF Others
  <2> QED BY <1>8, <1>9, <1>10, <2>1
<1>12. /\ f.idle = s.idle /\ f.possible_handlers = s.possible_handlers
       /\ f.tried_handlers_before_approval = s.tried_handlers_before_approval
  BY <1>4, FieldNames DEF Others, Ends
<1>13. /\ t.possible_handlers = s.possible_handlers
       /\ t.tried_handlers_before_approval = s.tried_handlers_before_approval
  BY <1>11, <1>12, FieldNames DEF Others
<1>14. Orderly(t)
  BY <1>11, <1>12, FinishOrderly DEF f
<1> QED BY <1>11, <1>12, <1>13, <1>14 DEF t

(* _mcd_dispatch_operation_set_channel_handled_by                        *)
LEMMA HandledByShape ==
  ASSUME NEW s, IsCdo(s), NEW who
  PROVE  Others(s, SetChannelHandledBy(s, who), {"handled_by", "status"})
<1> DEFINE v == IF s.status = "FAILED" THEN s.status ELSE "DISPATCHED"
           t == [s EXCEPT !.handled_by = who, !.status = v]
<1>1. SetChannelHandledBy(s, who) = t
  BY DEF SetChannelHandledBy, IsCdo, Fields
<1> HIDE DEF v
<1>2. Others(s, t, {"handled_by", "status"})
  BY DEF IsCdo, Others, Fields
<1> QED BY <1>1, <1>2

(* What the callers of finish write before they call it disturbs none of *)
(* its preconditions.                                                    *)
LEMMA PreparedSame ==
  ASSUME NEW s, NEW t, NEW F, Others(s, t, F), Plain(s), Scheduled(s), s.signals = <<>>,
         F \cap (PlainOn \cup ScheduledOn \cup {"signals", "lost_channel"}) = {}
  PROVE  Plain(t) /\ Scheduled(t) /\ t.signals = <<>> /\ t.lost_channel = s.lost_channel
         /\ t.channel = s.channel /\ t.result = s.result
<1>1. /\ t.signals = s.signals /\ t.lost_channel = s.lost_channel /\ t.channel = s.channel
      /\ t.result = s.result
  BY FieldNames DEF Others, ScheduledOn
<1>2. F \cap PlainOn = {} /\ F \cap ScheduledOn = {}
  OBVIOUS
<1> QED BY <1>1, <1>2, PlainSame, ScheduledSame

(* accept a CLAIM at the head of the queue                               *)
LEMMA AcceptClaimOrderly ==
  ASSUME NEW s, Typed(s), s.approvals # <<>>, Head0(s).caller \in Caller,
         Plain(s), Scheduled(s), s.result = "none",
         s.signals = <<>>, ~s.lost_channel, s.tried_handlers_before_approval,
         NEW fresh \in BOOLEAN, s.idle => fresh
  PROVE  LET t == AcceptClaim(s, fresh)
         IN /\ Orderly(t) /\ ~t.idle
            /\ t.tried_handlers_before_approval = s.tried_handlers_before_approval
            /\ t.possible_handlers = s.possible_handlers
<1> DEFINE caller == Head0(s).caller
           q == Tail(s.approvals)
           v == [s.reply EXCEPT ![caller] = "ok"]
           p == [s EXCEPT !.approvals = q, !.reply = v]
           h == IF p.channel THEN SetChannelHandledBy(p, caller) ELSE p
           f == Finish(h, "NotYours")
           w == f.idle /\ ~fresh
           u == [f EXCEPT !.idle = w]
           t == AcceptClaim(s, fresh)
<1>1. Typed(p)
  BY TypedAnswerHead
<1>2. Others(s, p, {"approvals", "reply"})
  <2> HIDE DEF q, v
  <2> QED BY TypedIsCdo DEF IsCdo, Others, Fields
<1>3. t = [f EXCEPT !.idle = @ /\ ~fresh]
  <2>1. p = [s EXCEPT !.approvals = Tail(@), !.reply[caller] = "ok"]
    BY TypedIsCdo DEF IsCdo, Fields
  <2> HIDE DEF p
  <2> QED BY <2>1 DEF AcceptClaim
<1> HIDE DEF p, q, v, t
<1>4. Typed(h)
  BY <1>1, TypedSetChannelHandledBy
<1>5. Others(p, h, {"handled_by", "status"})
  BY <1>1, TypedIsCdo, HandledByShape, SelfOthers
<1> HIDE DEF h
<1>6. Others(s, h, {"approvals", "reply", "handled_by", "status"})
  BY <1>2, <1>5 DEF Others
<1>7. Plain(h) /\ Scheduled(h) /\ h.signals = <<>> /\ ~h.lost_channel /\ h.result = "none"
  BY <1>6, PreparedSame DEF PlainOn, ScheduledOn
<1>8. /\ h.idle = s.idle /\ h.tried_handlers_before_approval = s.tried_handlers_before_approval
      /\ h.possible_handlers = s.possible_handlers
  BY <1>6, FieldNames DEF Others
<1>9. Typed(f) /\ IsCdo(f)
  BY <1>4, TypedFinish, TypedIsCdo
<1>10. Others(h, f, Ends)
  <2>1. Unscheduled(h)
    BY <1>8 DEF Unscheduled
  <2> QED BY <1>4, <1>7, <2>1, FinishShape DEF Plain
<1>11. t = u
  BY <1>3, <1>9 DEF IsCdo, Fields
<1>12. ~w
  <2>1. f.idle = h.idle
    BY <1>10, FieldNames DEF Others, Ends
  <2> QED BY <1>8, <2>1
<1>13. Others(f, u, {"idle", "status", "error", "closing"}) /\ ~u.idle
  <2>1. Others(f, u, {"idle"}) /\ u.idle = w
    <3> HIDE DEF w, f
    <3> QED BY <1>9 DEF IsCdo, Others, Fields
  <2>2. ~u.idle
    BY <1>12, <2>1
  <2> QED BY <2>1, <2>2 DEF Others
<1> HIDE DEF u, w
<1>14. Orderly(u)
  BY <1>4, <1>7, <1>8, <1>13, FinishOrderly DEF Unannounced, f
<1> HIDE DEF f
<1>15. /\ u.tried_handlers_before_approval = s.tried_handlers_before_approval
       /\ u.possible_handlers = s.possible_handlers
  BY <1>8, <1>10, <1>13, FieldNames DEF Others, Ends
<1> QED BY <1>11, <1>13, <1>14, <1>15 DEF t

(* A function that keeps the order and attaches no idle source.          *)
Kept(s, t) ==
  /\ Orderly(t)
  /\ t.idle => s.idle
  /\ t.tried_handlers_before_approval = s.tried_handlers_before_approval
  /\ t.possible_handlers = s.possible_handlers

(* An operation that is open, and was decided to go on with.             *)
Going(s) ==
  /\ Typed(s) /\ Orderly(s)
  /\ s.result = "none" /\ s.channel
  /\ s.tried_handlers_before_approval \/ Direct(s)

(* An open operation has emitted nothing.                                *)
LEMMA GoingUnannounced ==
  ASSUME NEW s, Going(s) PROVE Unannounced(s) /\ s.signals = <<>> /\ ~s.lost_channel
  BY DEF Going, Orderly, Signalled, Unannounced

(* To do nothing keeps the order.                                        *)
LEMMA KeptSelf ==
  ASSUME NEW s, Going(s) PROVE Kept(s, s)
  BY DEF Going, Kept

(* mcd_dispatch_operation_try_handler: no plugin is asked, so            *)
(* HandleChannels is called at once.                                     *)
LEMMA TryHandlerKept ==
  ASSUME Plugin = {}, NEW s, Going(s), NEW h \in Handler
  PROVE  Kept(s, TryHandler(s, h))
<1> DEFINE u == [s EXCEPT !.trying_handler = h]
           t == [u EXCEPT !.handling = h, !.status = "HANDLER_INVOKED"]
<1>1. IsCdo(u) /\ Others(s, u, {"trying_handler"}) /\ u.trying_handler = h
  BY OneTypedWrite, FieldNames DEF Going
<1>2. TryHandler(s, h) = HandleChannels(u)
  BY DEF TryHandler
<1> HIDE DEF u
<1>3. u.channel
  BY <1>1, FieldNames DEF Others, Going
<1>4. HandleChannels(u) = t
  BY <1>1, <1>3 DEF HandleChannels
<1>5. Others(u, t, {"handling", "status"})
  BY <1>1 DEF IsCdo, Others, Fields
<1> HIDE DEF t
<1>6. Others(s, t, {"trying_handler", "handling", "status"})
  BY <1>1, <1>5 DEF Others
<1>7. Plain(t) /\ Silent(t) /\ Signalled(t)
  BY <1>6, PlainSame, SilentSame, SignalledSame DEF Going, Orderly, PlainOn, SilentOn, SignalledOn
<1>8. /\ t.idle = s.idle /\ t.result = s.result /\ t.possible_handlers = s.possible_handlers
      /\ t.tried_handlers_before_approval = s.tried_handlers_before_approval
      /\ t.invoked_observers_if_needed = s.invoked_observers_if_needed
  BY <1>6, FieldNames DEF Others
<1>9. Scheduled(t)
  <2>1. Direct(t) = Direct(s)
    BY <1>8, DirectSame
  <2> QED BY <1>8, <2>1 DEF Going, Orderly, Scheduled
<1> QED BY <1>2, <1>4, <1>7, <1>8, <1>9 DEF Kept, Orderly

(* A HandleWith for a handler that is gone is answered with an error.    *)
LEMMA RejectHeadKept ==
  ASSUME NEW s, Going(s)
  PROVE  Kept(s, RejectHead(s))
<1> DEFINE q == Tail(s.approvals)
           v == [s.reply EXCEPT ![Head0(s).caller] = "error"]
           t == [s EXCEPT !.approvals = q, !.reply = v]
<1>1. RejectHead(s) = t
  BY TypedIsCdo DEF Going, RejectHead, IsCdo, Fields
<1> HIDE DEF q, v
<1>2. Others(s, t, {"approvals", "reply"})
  BY TypedIsCdo DEF Going, IsCdo, Fields, Others
<1> HIDE DEF t
<1>3. Plain(t) /\ Scheduled(t) /\ Signalled(t)
  BY <1>2, PlainSame, ScheduledSame, SignalledSame
     DEF Going, Orderly, PlainOn, ScheduledOn, SignalledOn
<1>4. /\ t.idle = s.idle /\ t.result = s.result /\ t.possible_handlers = s.possible_handlers
      /\ t.tried_handlers_before_approval = s.tried_handlers_before_approval
  BY <1>2, FieldNames DEF Others
<1>5. Silent(t)
  BY <1>4 DEF Going, Silent
<1> QED BY <1>1, <1>3, <1>4, <1>5 DEF Kept, Orderly

(* _mcd_dispatch_operation_try_next_handler: whichever handler it        *)
(* chooses, or none.                                                     *)
LEMMA TryNextHandlerKept ==
  ASSUME Plugin = {}, registry \subseteq Handler, NEW s, Going(s), NEW ranOut, Kept(s, ranOut)
  PROVE  Kept(s, TryNextHandler(s, ranOut))
<1>1. CASE PreferredIsUsable(s)
  <2>1. PreferredHandler(s) \in Handler
    BY <1>1 DEF PreferredIsUsable
  <2>2. ~HandleWithIsGone(s)
    BY <1>1 DEF PreferredIsUsable, HandleWithIsGone
  <2>3. TryNextHandler(s, ranOut) = TryHandler(s, PreferredHandler(s))
    BY <1>1, <2>2 DEF TryNextHandler
  <2> QED BY <2>1, <2>3, TryHandlerKept
<1>2. CASE ~PreferredIsUsable(s) /\ HandleWithIsGone(s)
  <2>1. TryNextHandler(s, ranOut) = RejectHead(s)
    BY <1>2 DEF TryNextHandler
  <2> QED BY <2>1, RejectHeadKept
<1>3. CASE ~PreferredIsUsable(s) /\ ~HandleWithIsGone(s) /\ Candidates(s) # {}
  <2> DEFINE h == Best(s, Candidates(s))
  <2>1. h \in Handler
    BY <1>3, BestCandidate DEF Going
  <2>2. TryNextHandler(s, ranOut) = TryHandler(s, h)
    BY <1>3 DEF TryNextHandler
  <2> HIDE DEF h
  <2> QED BY <2>1, <2>2, TryHandlerKept
<1>4. CASE ~PreferredIsUsable(s) /\ ~HandleWithIsGone(s) /\ ~(Candidates(s) # {})
  <2>1. TryNextHandler(s, ranOut) = ranOut
    BY <1>4 DEF TryNextHandler
  <2> QED BY <2>1
<1> QED BY <1>1, <1>2, <1>3, <1>4

(* A claim in the queue has a caller.                                    *)
Named(s) == \A a \in Entries(s) : a.type = "CLAIM" => a.caller # None

(* _mcd_dispatch_operation_check_client_locks after its early returns;   *)
(* in the source's order, the approvers' idle source is detached before  *)
(* anything that may finish the operation.                               *)
LEMMA ProceedKept ==
  ASSUME Plugin = {}, registry \subseteq Handler, NEW s, Going(s), Named(s),
         NEW fresh \in BOOLEAN, s.idle => fresh, fresh => ~s.invoked_approvers_if_needed
  PROVE  Kept(s, Proceed(s, fresh))
<1> DEFINE v == s.idle /\ ~fresh
           h == [s EXCEPT !.invoked_approvers_if_needed = TRUE, !.idle = v]
           t == IF HeadIs(s, "HANDLE_WITH") THEN h ELSE s
           g == [t EXCEPT !.tried_handlers_before_approval = TRUE, !.idle = TRUE]
           c == CloseAsUndispatchable(t)
           r == Proceed(s, fresh)
<1>1. CASE IsInternal(s)
  <2>1. r \in {s, [s EXCEPT !.handled_by = Internal]}
    BY <1>1 DEF Proceed
  <2> DEFINE w == [s EXCEPT !.handled_by = Internal]
  <2>2. Others(s, w, {"handled_by"})
    BY TypedIsCdo, OneTypedWrite, FieldNames DEF Going
  <2> HIDE DEF r, w
  <2>3. Orderly(w)
    BY <2>2, OrderlySame DEF Going, PlainOn, ScheduledOn, SilentOn, SignalledOn
  <2>5. /\ w.idle = s.idle /\ w.possible_handlers = s.possible_handlers
        /\ w.tried_handlers_before_approval = s.tried_handlers_before_approval
    BY <2>2, FieldNames DEF Others
  <2>4. Kept(s, w)
    BY <2>3, <2>5 DEF Kept
  <2> QED BY <2>1, <2>4, KeptSelf DEF r, w
<1>2. CASE ~IsInternal(s) /\ s.possible_handlers = <<>>
  <2>1. r = CloseAsUndispatchable(s)
    BY <1>2 DEF Proceed
  <2>2. Direct(s) /\ ~s.idle
    BY <1>2 DEF Direct, Going, Orderly, Scheduled
  <2>3. Kept(s, CloseAsUndispatchable(s))
    BY <2>2, GoingUnannounced, CloseAsUndispatchableOrderly DEF Going, Orderly, Kept
  <2> HIDE DEF r
  <2> QED BY <2>1, <2>3 DEF r
<1>3. CASE ~IsInternal(s) /\ s.possible_handlers # <<>> /\ HeadIs(s, "CLAIM")
  <2>1. r = AcceptClaim(s, fresh)
    BY <1>3 DEF Proceed
  <2>2. s.tried_handlers_before_approval
    BY <1>3 DEF Direct, Going
  <2>3. s.approvals # <<>> /\ Head0(s).type = "CLAIM"
    BY <1>3 DEF HeadIs
  <2>4. Head0(s).caller \in Caller
    BY <2>3, TypedHead, HeadEntry DEF Going, Named
  <2>5. Kept(s, AcceptClaim(s, fresh))
    BY <2>2, <2>3, <2>4, GoingUnannounced, AcceptClaimOrderly DEF Going, Orderly, Kept
  <2> HIDE DEF r
  <2> QED BY <2>1, <2>5 DEF r
<1>4. CASE ~IsInternal(s) /\ s.possible_handlers # <<>> /\ ~HeadIs(s, "CLAIM")
  <2>1. r = IF t.invoked_approvers_if_needed /\ IsApproved(t)
            THEN TryNextHandler(t, c)
            ELSE IF ~t.invoked_approvers_if_needed /\ ~t.tried_handlers_before_approval
            THEN TryNextHandler(t, g)
            ELSE t
    <3>1. h = [s EXCEPT !.invoked_approvers_if_needed = TRUE, !.idle = @ /\ ~fresh]
      BY TypedIsCdo DEF Going, IsCdo, Fields
    <3> HIDE DEF h, v
    <3> QED BY <1>4, <3>1 DEF Proceed
  <2>2. ~Direct(s) /\ s.tried_handlers_before_approval
    BY <1>4 DEF Direct, Going
  <2>3. v = FALSE
    OBVIOUS
  <2> HIDE DEF r, v
  <2>4. Typed(h) /\ Others(s, h, {"invoked_approvers_if_needed", "idle"}) /\ ~h.idle
    <3>1. v \in BOOLEAN
      BY <2>3
    <3>2. Typed(h)
      BY <3>1, TypedFlag DEF Going
    <3>3. Others(s, h, {"invoked_approvers_if_needed", "idle"}) /\ h.idle = v
      BY TypedIsCdo DEF Going, IsCdo, Others, Fields
    <3> QED BY <2>3, <3>2, <3>3
  <2> HIDE DEF h
  <2>5. Going(h) /\ Kept(s, h)
    <3>1. Plain(h) /\ Silent(h) /\ Signalled(h)
      BY <2>4, PlainSame, SilentSame, SignalledSame
         DEF Going, Orderly, PlainOn, SilentOn, SignalledOn
    <3>2. /\ h.result = s.result /\ h.possible_handlers = s.possible_handlers
          /\ h.channel = s.channel
          /\ h.tried_handlers_before_approval = s.tried_handlers_before_approval
      BY <2>4, FieldNames DEF Others
    <3>3. Scheduled(h)
      BY <2>2, <2>4, <3>2 DEF Scheduled
    <3> QED BY <2>2, <2>4, <3>1, <3>2, <3>3 DEF Going, Kept, Orderly
  <2>6. Going(t) /\ Kept(s, t)
    BY <2>5, KeptSelf
  <2>7. t.invoked_approvers_if_needed => ~t.idle
    <3>1. CASE HeadIs(s, "HANDLE_WITH")
      BY <2>4, <3>1
    <3>2. CASE ~HeadIs(s, "HANDLE_WITH")
      BY <3>2
    <3> QED BY <3>1, <3>2
  <2> HIDE DEF t
  <2>8. t.tried_handlers_before_approval /\ t.possible_handlers = s.possible_handlers
    BY <2>2, <2>6 DEF Kept
  <2>9. CASE t.invoked_approvers_if_needed /\ IsApproved(t)
    <3>1. r = TryNextHandler(t, c)
      BY <2>1, <2>9
    <3>2. Kept(t, c)
      BY <2>6, <2>7, <2>8, <2>9, GoingUnannounced, CloseAsUndispatchableOrderly
         DEF Going, Orderly, Kept
    <3> HIDE DEF c
    <3>3. Kept(t, r)
      BY <2>6, <3>1, <3>2, TryNextHandlerKept
    <3> QED BY <2>6, <3>3 DEF Kept, r
  <2>10. CASE ~(t.invoked_approvers_if_needed /\ IsApproved(t))
    <3>1. r = t
      BY <2>1, <2>8, <2>10
    <3> QED BY <2>6, <3>1 DEF r
  <2> QED BY <2>9, <2>10
<1> QED BY <1>1, <1>2, <1>3, <1>4

(* check_client_locks: its outcome.                                      *)
Checked(s, t) ==
  /\ Orderly(t)
  /\ Grows(s, t)
  /\ s.tried_handlers_before_approval => t.tried_handlers_before_approval /\ ~t.idle

(* The counters of the observers at zero mean that no ObserveChannels is *)
(* in flight.                                                            *)
LEMMA NoObservers ==
  ASSUME NEW s, Typed(s), ObserverLocks(s), s.observers_pending = 0
  PROVE  s.observing = {} /\ s.delay_approver_observers_pending = 0
<1>1. s.observing \subseteq Observer /\ IsFiniteSet(s.observing)
  BY TypedFields, ClientsAssumption, FS_Subset
<1>2. s.observing = {}
  BY <1>1, FS_EmptySet DEF ObserverLocks
<1>3. s.observing \cap DelayApprovers = {}
  BY <1>2
<1> QED BY <1>2, <1>3, FS_EmptySet DEF ObserverLocks

(* Without plugins nothing was put off until after the observers.        *)
LEMMA PostObserverActionsShape ==
  ASSUME NEW s, Typed(s), s.after_observers = "NONE"
  PROVE  Others(s, PostObserverActions(s), {"did_post_observer_actions"})
<1> DEFINE u == IF WillTerminate(s) THEN TerminateChannels(s) ELSE s
           d == [u EXCEPT !.did_post_observer_actions = TRUE]
<1>1. PostObserverActions(s) \in {s, d}
  BY DEF PostObserverActions
<1>2. u = s
  BY DEF WillTerminate
<1> HIDE DEF u
<1>3. Others(s, d, {"did_post_observer_actions"})
  BY <1>2, TypedIsCdo DEF IsCdo, Others, Fields
<1> QED BY <1>1, <1>3, SelfOthers

(* check_client_locks attaches the approvers' idle source once, to an    *)
(* operation that is open: tried_handlers_before_approval is set with    *)
(* it. Without handlers that bypass approval the condition cannot come   *)
(* true a second time.                                                   *)
LEMMA ScheduleOrderly ==
  ASSUME BypassApproval = {}, NEW s, Typed(s), Orderly(s), ~s.idle,
         s.invoked_observers_if_needed
  PROVE  LET t == ScheduleApprovers(s)
         IN /\ Orderly(t)
            /\ Others(s, t, {"tried_handlers_before_approval", "idle"})
            /\ s.tried_handlers_before_approval => t.tried_handlers_before_approval /\ ~t.idle
            /\ t.idle => ~t.invoked_approvers_if_needed
            /\ s.channel /\ s.delay_approver_observers_pending = 0 =>
                 t.tried_handlers_before_approval \/ Direct(t)
<1> DEFINE t == ScheduleApprovers(s)
           u == [s EXCEPT !.tried_handlers_before_approval = TRUE, !.idle = TRUE]
           F == {"tried_handlers_before_approval", "idle"}
<1>1. CanBypassApproval(s) = Direct(s) /\ ~WillTerminate(s)
  <2>1. CanBypassApproval(s) \in BOOLEAN /\ Direct(s) \in BOOLEAN
    BY DEF CanBypassApproval, Direct, IsInternal
  <2> QED BY <2>1, DirectIsBypass DEF Orderly, Plain, WillTerminate
<1>2. CASE /\ ~s.tried_handlers_before_approval /\ ~Direct(s)
           /\ s.delay_approver_observers_pending = 0 /\ s.channel
  <2>1. t = u
    BY <1>1, <1>2 DEF ScheduleApprovers
  <2>2. Others(s, u, F) /\ u.tried_handlers_before_approval /\ u.idle
    BY TypedIsCdo DEF IsCdo, Others, Fields
  <2> HIDE DEF u, t
  <2>3. Plain(u) /\ Silent(u) /\ Signalled(u)
    BY <2>2, PlainSame, SilentSame, SignalledSame
       DEF Orderly, PlainOn, SilentOn, SignalledOn
  <2>4. /\ u.result = s.result /\ u.possible_handlers = s.possible_handlers
        /\ u.invoked_approvers_if_needed = s.invoked_approvers_if_needed
        /\ u.invoked_observers_if_needed = s.invoked_observers_if_needed
    BY <2>2, FieldNames DEF Others
  <2>5. s.result = "none" /\ ~s.invoked_approvers_if_needed
    BY <1>2 DEF Orderly, Scheduled
  <2>6. ~Direct(u)
    BY <1>2, <2>4, DirectSame
  <2>7. Scheduled(u)
    BY <2>2, <2>4, <2>5, <2>6 DEF Scheduled
  <2> QED BY <1>2, <2>1, <2>2, <2>3, <2>4, <2>5, <2>7 DEF t, Orderly
<1>3. CASE ~(/\ ~s.tried_handlers_before_approval /\ ~Direct(s)
             /\ s.delay_approver_observers_pending = 0 /\ s.channel)
  <2>1. t = s
    BY <1>1, <1>3 DEF ScheduleApprovers
  <2> HIDE DEF t
  <2> QED BY <1>3, <2>1, SelfOthers DEF t
<1> QED BY <1>2, <1>3

(* The part of the inductive invariant that check_client_locks reads.    *)
Sound(s) ==
  /\ Typed(s) /\ ObserverLocks(s)
  /\ s.result = "none" => s.channel /\ Named(s)

(* A step that writes none of those fields keeps it.                     *)
LEMMA SoundSame ==
  ASSUME NEW s, Sound(s), NEW t, Typed(t), NEW F, Others(s, t, F),
         F \cap {"observing", "observers_pending", "delay_approver_observers_pending",
                "approvals", "result", "channel"} = {}
  PROVE  Sound(t)
<1>1. /\ t.observing = s.observing /\ t.observers_pending = s.observers_pending
      /\ t.delay_approver_observers_pending = s.delay_approver_observers_pending
      /\ t.approvals = s.approvals /\ t.result = s.result /\ t.channel = s.channel
  BY FieldNames DEF Others
<1> QED BY <1>1 DEF Sound, ObserverLocks, Named, Entries

(* _mcd_dispatch_operation_check_client_locks as a whole.                *)
LEMMA CheckClientLocksChecked ==
  ASSUME Plugin = {}, BypassApproval = {}, registry \subseteq Handler,
         NEW s, Sound(s), Orderly(s), ~s.idle
  PROVE  Checked(s, CheckClientLocks(s))
<1> DEFINE a == PostObserverActions(s)
           b == ScheduleApprovers(a)
           fresh == b.idle /\ ~a.idle
           t == CheckClientLocks(s)
<1>1. t = IF ~s.invoked_observers_if_needed \/ s.plugins_pending > 0 THEN s
          ELSE IF Locked(b) THEN b ELSE Proceed(b, fresh)
  BY DEF CheckClientLocks
<1>2. Typed(a) /\ Others(s, a, {"did_post_observer_actions"})
  BY TypedPostObserverActions, PostObserverActionsShape DEF Sound, Orderly, Plain
<1>3. fresh \in BOOLEAN
  OBVIOUS
<1>4. Sound(a)
  <2> HIDE DEF a
  <2> QED BY <1>2, SoundSame
<1> HIDE DEF a, t
<1>5. /\ Orderly(a) /\ a.signals = s.signals
      /\ a.idle = s.idle /\ a.tried_handlers_before_approval = s.tried_handlers_before_approval
      /\ a.invoked_observers_if_needed = s.invoked_observers_if_needed
  <2>1. Orderly(a) /\ a.signals = s.signals
    BY <1>2, OrderlySame DEF PlainOn, ScheduledOn, SilentOn, SignalledOn
  <2> QED BY <1>2, <2>1, FieldNames DEF Others
<1>6. Typed(b)
  BY <1>2, TypedScheduleApprovers
<1>9. Checked(s, s)
  <2>1. s.tried_handlers_before_approval => ~s.idle
    OBVIOUS
  <2> QED BY <2>1 DEF Checked, Grows
<1>13. CASE ~s.invoked_observers_if_needed
  BY <1>1, <1>9, <1>13 DEF t
<1> SUFFICES ASSUME s.invoked_observers_if_needed PROVE Checked(s, CheckClientLocks(s))
  BY <1>13
<1>7. /\ Orderly(b)
      /\ Others(a, b, {"tried_handlers_before_approval", "idle"})
      /\ a.tried_handlers_before_approval => b.tried_handlers_before_approval /\ ~b.idle
      /\ b.idle => ~b.invoked_approvers_if_needed
      /\ a.channel /\ a.delay_approver_observers_pending = 0 =>
           b.tried_handlers_before_approval \/ Direct(b)
  BY <1>2, <1>5, ScheduleOrderly
<1> HIDE DEF b
<1>8. /\ b.signals = s.signals /\ b.channel = a.channel
      /\ b.observers_pending = a.observers_pending /\ b.result = a.result
  BY <1>5, <1>7, FieldNames DEF Others
<1>14. Sound(b)
  BY <1>4, <1>6, <1>7, SoundSame
<1>10. Checked(s, b)
  BY <1>5, <1>7, <1>8 DEF Checked, Grows
<1>11. CASE ~Locked(b)
  <2>1. b.result = "none" /\ ~(b.observers_pending > 0)
    BY <1>11 DEF Locked
  <2>2. b.channel
    BY <1>14, <2>1 DEF Sound
  <2>3. a.observers_pending = 0
    BY <1>2, <1>8, <2>1, TypedFields
  <2>4. a.delay_approver_observers_pending = 0
    BY <1>2, <1>4, <2>3, NoObservers DEF Sound
  <2>5. Going(b)
    BY <1>6, <1>7, <1>8, <2>1, <2>2, <2>4 DEF Going
  <2>6. b.idle => fresh
    BY <1>5
  <2>7. fresh => ~b.invoked_approvers_if_needed
    BY <1>7
  <2>8. Named(b)
    BY <1>14, <2>1 DEF Sound
  <2> HIDE DEF fresh
  <2>9. Kept(b, Proceed(b, fresh))
    BY <1>3, <2>5, <2>6, <2>7, <2>8, ProceedKept
  <2>10. s.signals = <<>>
    BY <1>8, <2>5, GoingUnannounced
  <2>11. Checked(s, Proceed(b, fresh))
    BY <1>5, <1>7, <2>9, <2>10 DEF Kept, Checked, Grows
  <2> QED BY <1>1, <1>9, <1>11, <2>11 DEF t
<1>12. CASE Locked(b)
  BY <1>1, <1>9, <1>10, <1>12 DEF t
<1> QED BY <1>11, <1>12

(* The inductive invariant implies it.                                   *)
LEMMA ReadySound ==
  ASSUME NEW s, Ready(s) PROVE Sound(s) /\ Typed(s)
<1>1. s.result = "none" => s.channel
  BY DEF Ready, Fate, Open
<1>2. Named(s)
  BY DEF Ready, Fate, Always, Named
<1> QED BY <1>1, <1>2 DEF Ready, Sound

(* While a client lock is held nothing was signalled.                    *)
LEMMA HeldIsSilent ==
  ASSUME NEW s, Orderly(s), ~MaySignalFinished(s)
  PROVE  s.signals = <<>> /\ (s.lost_channel => ~s.channel)
  BY DEF Orderly, Signalled

(* What a callback leaves behind.                                        *)
Follows(s, t) == Orderly(t) /\ Grows(s, t)

(* Steps in turn.                                                        *)
LEMMA FollowsTrans ==
  ASSUME NEW s, NEW t, NEW u, Follows(s, t), Follows(t, u) PROVE Follows(s, u)
  BY DEF Follows, Grows

(* check_client_locks at the end of a handler.                           *)
LEMMA CheckedFollows ==
  ASSUME NEW s, NEW t, NEW u, Follows(s, t), Checked(t, u) PROVE Follows(s, u)
  BY DEF Follows, Checked, Grows

(* From an operation that has emitted nothing any orderly one follows.   *)
LEMMA SignalledInOrder ==
  ASSUME NEW s, NEW t, Orderly(t), s.signals = <<>> PROVE Follows(s, t)
  BY DEF Follows, Grows

(* A step that writes none of the fields of Orderly.                     *)
LEMMA AsideFollows ==
  ASSUME NEW s, NEW t, NEW F, Others(s, t, F), Orderly(s),
         F \cap (PlainOn \cup ScheduledOn \cup SilentOn \cup SignalledOn) = {}
  PROVE  Follows(s, t)
  BY OrderlySame DEF Follows, Grows

(* A lock is released, or the first callback has run: check_finished and *)
(* check_client_locks.                                                   *)
LEMMA ReleasedOrderly ==
  ASSUME Plugin = {}, BypassApproval = {}, registry \subseteq Handler,
         NEW s, Sound(s), Plain(s), Scheduled(s), Silent(s), s.signals = <<>>,
         s.lost_channel => ~s.channel, ~s.idle
  PROVE  LET f == CheckFinished(s)
         IN Orderly(f) /\ Sound(f) /\ ~f.idle /\ Orderly(CheckClientLocks(f))
<1> DEFINE f == CheckFinished(s)
           F == {"lost_channel", "signals", "did_post_observer_actions"}
<1>1. Orderly(f) /\ Others(s, f, F)
  BY CheckFinishedOrderly DEF Sound
<1>2. Typed(f)
  BY TypedCheckFinished DEF Sound
<1> HIDE DEF f
<1>3. Sound(f)
  BY <1>1, <1>2, SoundSame
<1>4. f.idle = s.idle
  BY <1>1, FieldNames DEF Others
<1>5. Checked(f, CheckClientLocks(f))
  BY <1>1, <1>3, <1>4, CheckClientLocksChecked
<1> QED BY <1>1, <1>3, <1>4, <1>5 DEF Checked, f

(* The fields that calling the observers writes.                         *)
Calling ==
  {"observing", "observers_pending", "delay_approver_observers_pending",
   "plugins_pending", "after_observers", "invoked_observers_if_needed"}

(* _mcd_dispatch_operation_run_clients, without plugins: the observers   *)
(* are called, or none and the operation goes on.                        *)
LEMMA ObserversCalled ==
  ASSUME Plugin = {}, Ready(cdo),
         NEW observers \in SUBSET Observer, NEW delaying \in SUBSET Plugin,
         NEW now \in BOOLEAN, NEW later \in PluginAction,
         RunClients(observers, delaying, now, later)
  PROVE  \E u :
           /\ cdo' = CheckClientLocks(CheckFinished(u)) /\ ~cdo.invoked_observers_if_needed
           /\ Typed(u) /\ ObserverLocks(u) /\ Others(cdo, u, Calling)
           /\ u.invoked_observers_if_needed
           /\ u.plugins_pending = 0 /\ u.after_observers = "NONE"
<1> DEFINE called == IF CanBypassObservers(cdo) THEN {} ELSE observers
           n == Cardinality(called)
           m == Cardinality(called \cap DelayApprovers)
           a == [cdo EXCEPT !.observing = called]
           o == [a EXCEPT !.observers_pending = n, !.delay_approver_observers_pending = m]
           p == [o EXCEPT !.plugins_pending = 0, !.after_observers = "NONE"]
           u == [p EXCEPT !.invoked_observers_if_needed = TRUE]
<1>1. Typed(cdo) /\ IsCdo(cdo) /\ ~cdo.invoked_observers_if_needed
  BY TypedIsCdo DEF Ready, RunClients
<1>2. Cardinality(delaying) = 0 /\ ~now /\ later = "NONE"
  <2>1. delaying = {}
    OBVIOUS
  <2> QED BY <2>1, FS_EmptySet DEF RunClients
<1>3. cdo' = CheckClientLocks(CheckFinished(u))
  <2>1. o = [cdo EXCEPT !.observing = called, !.observers_pending = n,
                        !.delay_approver_observers_pending = m]
    <3> HIDE DEF called, n, m
    <3> QED BY <1>1 DEF IsCdo, Fields
  <2> HIDE DEF o
  <2> QED BY <1>2, <2>1 DEF RunClients
<1>4. called \in SUBSET Observer
  OBVIOUS
<1> HIDE DEF called
<1>5. n \in Nat /\ m \in Nat
  <2>1. IsFiniteSet(called) /\ n \in Nat
    BY <1>4, ClientsAssumption, SubsetCardinality
  <2> QED BY <2>1, SubsetCardinality
<1>6. Typed(a) /\ IsCdo(a) /\ Others(cdo, a, {"observing"}) /\ a.observing = called
  <2>1. called \in FieldType.observing
    BY <1>4, FieldTypes
  <2>2. Typed(a)
    BY <1>1, <2>1, TypedExcept, FieldNames
  <2> QED BY <1>1, <2>2, OneTypedWrite, FieldNames
<1> HIDE DEF a
<1>7. /\ Typed(o) /\ IsCdo(o)
      /\ Others(a, o, {"observers_pending", "delay_approver_observers_pending"})
      /\ o.observers_pending = n /\ o.delay_approver_observers_pending = m
  <2>1. n \in FieldType.observers_pending /\ m \in FieldType.delay_approver_observers_pending
    BY <1>5, FieldTypes
  <2> HIDE DEF n, m
  <2>2. Typed(o)
    BY <1>6, <2>1, TypedExcept2, FieldNames
  <2>3. /\ Others(a, o, {"observers_pending", "delay_approver_observers_pending"})
        /\ o.observers_pending = n /\ o.delay_approver_observers_pending = m
    BY <1>6 DEF IsCdo, Others, Fields
  <2> HIDE DEF o
  <2> QED BY <2>2, <2>3, TypedIsCdo
<1> HIDE DEF o
<1>8. /\ Typed(p) /\ IsCdo(p) /\ Others(o, p, {"plugins_pending", "after_observers"})
      /\ p.plugins_pending = 0 /\ p.after_observers = "NONE"
  <2>1. 0 \in FieldType.plugins_pending /\ "NONE" \in FieldType.after_observers
    BY FieldTypes DEF PluginAction
  <2>2. Typed(p)
    BY <1>7, <2>1, TypedExcept2, FieldNames
  <2>3. /\ Others(o, p, {"plugins_pending", "after_observers"})
        /\ p.plugins_pending = 0 /\ p.after_observers = "NONE"
    BY <1>7 DEF IsCdo, Others, Fields
  <2> HIDE DEF p
  <2> QED BY <2>2, <2>3, TypedIsCdo
<1> HIDE DEF p
<1>9. Typed(u) /\ Others(p, u, {"invoked_observers_if_needed"}) /\ u.invoked_observers_if_needed
  <2>1. Typed(u)
    BY <1>8, TypedFlag
  <2>2. Others(p, u, {"invoked_observers_if_needed"}) /\ u.invoked_observers_if_needed
    BY <1>8 DEF IsCdo, Others, Fields
  <2> HIDE DEF u
  <2> QED BY <2>1, <2>2
<1> HIDE DEF u
<1>10. Others(cdo, u, Calling)
  BY <1>6, <1>7, <1>8, <1>9 DEF Others, Calling
<1>11. /\ u.observing = called /\ u.observers_pending = n
       /\ u.delay_approver_observers_pending = m
       /\ u.plugins_pending = 0 /\ u.after_observers = "NONE"
  BY <1>6, <1>7, <1>8, <1>9, FieldNames DEF Others
<1>12. ObserverLocks(u)
  BY <1>11 DEF ObserverLocks
<1> QED BY <1>1, <1>3, <1>9, <1>10, <1>11, <1>12

(* Nothing has been told before, and nothing is told too early.          *)
LEMMA RunClientsFollows ==
  ASSUME Plugin = {}, BypassApproval = {}, Ready(cdo), Orderly(cdo), registry \subseteq Handler,
         NEW observers \in SUBSET Observer, NEW delaying \in SUBSET Plugin,
         NEW now \in BOOLEAN, NEW later \in PluginAction,
         RunClients(observers, delaying, now, later)
  PROVE  Follows(cdo, cdo')
<1>10. PICK u :
         /\ cdo' = CheckClientLocks(CheckFinished(u)) /\ ~cdo.invoked_observers_if_needed
         /\ Typed(u) /\ ObserverLocks(u) /\ Others(cdo, u, Calling)
         /\ u.invoked_observers_if_needed
         /\ u.plugins_pending = 0 /\ u.after_observers = "NONE"
  BY ObserversCalled
<1>12. /\ u.leaked = cdo.leaked /\ u.criticals = cdo.criticals /\ u.idle = cdo.idle
       /\ u.possible_handlers = cdo.possible_handlers /\ u.result = cdo.result
       /\ u.tried_handlers_before_approval = cdo.tried_handlers_before_approval
       /\ u.invoked_approvers_if_needed = cdo.invoked_approvers_if_needed
       /\ u.trying_handler = cdo.trying_handler /\ u.channel = cdo.channel
       /\ u.signals = cdo.signals /\ u.lost_channel = cdo.lost_channel
       /\ u.approvals = cdo.approvals
  BY <1>10, FieldNames DEF Others, Calling
<1>13. cdo.signals = <<>> /\ (cdo.lost_channel => ~cdo.channel)
  BY <1>10, HeldIsSilent DEF MaySignalFinished
<1>14. ~cdo.idle
  BY <1>10 DEF Orderly, Scheduled
<1>15. Plain(u)
  BY <1>10, <1>12 DEF Orderly, Plain
<1>16. Scheduled(u)
  <2>1. Direct(u) = Direct(cdo)
    BY <1>12, DirectSame
  <2> QED BY <1>12, <1>14, <2>1 DEF Orderly, Scheduled
<1>17. Silent(u)
  BY <1>12 DEF Orderly, Silent, Entries
<1>18. Sound(u)
  <2>1. Sound(cdo)
    BY ReadySound
  <2> QED BY <1>10, <1>12, <2>1 DEF Sound, Named, Entries
<1>19. Orderly(cdo')
  BY <1>10, <1>12, <1>13, <1>14, <1>15, <1>16, <1>17, <1>18, ReleasedOrderly
<1> QED BY <1>13, <1>19, SignalledInOrder

(* observe_channels_cb: the last observer to return releases the         *)
(* signals, and then the operation goes on.                              *)
LEMMA ObserverReturnsFollows ==
  ASSUME Plugin = {}, BypassApproval = {}, Ready(cdo), Orderly(cdo), registry \subseteq Handler,
         NEW o, ObserverReturns(o)
  PROVE  Follows(cdo, cdo')
<1> DEFINE d == ObserverLeft(cdo, o)
           F == {"observing", "observers_pending", "delay_approver_observers_pending"}
<1>1. o \in cdo.observing /\ ~cdo.idle
  BY DEF ObserverReturns, NotPreempted
<1>2. cdo' = CheckClientLocks(CheckFinished(d))
  BY DEF ObserverReturns, DecObserversPending, ObserverLeft
<1>3. Typed(cdo) /\ ObserverLocks(cdo) /\ Sound(cdo)
  BY ReadySound DEF Ready
<1>4. Typed(d) /\ ObserverLocks(d) /\ Others(cdo, d, F)
  BY <1>1, <1>3, ObserverLeftFields
<1> HIDE DEF d
<1>5. cdo.signals = <<>> /\ (cdo.lost_channel => ~cdo.channel)
  <2>1. IsFiniteSet(cdo.observing)
    BY <1>3, TypedFields, ClientsAssumption, FS_Subset
  <2>2. cdo.observers_pending # 0
    BY <1>1, <1>3, <2>1, RemoveOne DEF ObserverLocks
  <2> QED BY <2>2, HeldIsSilent DEF MaySignalFinished
<1>6. /\ d.signals = cdo.signals /\ d.lost_channel = cdo.lost_channel /\ d.channel = cdo.channel
      /\ d.idle = cdo.idle /\ d.result = cdo.result /\ d.approvals = cdo.approvals
  BY <1>4, FieldNames DEF Others
<1>7. Plain(d) /\ Scheduled(d) /\ Silent(d)
  BY <1>4, PlainSame, ScheduledSame, SilentSame DEF Orderly, PlainOn, ScheduledOn, SilentOn
<1>8. Sound(d)
  BY <1>3, <1>4, <1>6 DEF Sound, Named, Entries
<1>9. Orderly(cdo')
  BY <1>1, <1>2, <1>5, <1>6, <1>7, <1>8, ReleasedOrderly
<1> QED BY <1>5, <1>9, SignalledInOrder

(* An approval joins the queue.                                          *)
Joined(s, a) == [s EXCEPT !.approvals = Append(s.approvals, a)]

(* An approval joins the queue of an open operation, or one that nobody  *)
(* waits for.                                                            *)
LEMMA AppendOrderly ==
  ASSUME NEW s, Orderly(s), Sound(s), NEW a \in Approval,
         s.result # "none" => a.caller = None, a.type = "CLAIM" => a.caller # None,
         NEW u, Typed(u), Others(s, u, {"reply", "asked"}),
         NEW t, t = Joined(u, a)
  PROVE  /\ Follows(s, t) /\ Sound(t) /\ t.idle = s.idle
         /\ t.tried_handlers_before_approval = s.tried_handlers_before_approval
<1> DEFINE q == Append(u.approvals, a)
           x == [u EXCEPT !.approvals = q]
           G == {"approvals", "reply", "asked"}
<1>1. Typed(t)
  BY TypedAppend DEF Joined
<1>2. t = x /\ u.approvals = s.approvals
  BY FieldNames DEF Others, Joined
<1> HIDE DEF q
<1>3. Others(u, x, {"approvals"}) /\ x.approvals = q
  BY TypedIsCdo DEF IsCdo, Others, Fields
<1> HIDE DEF x
<1>4. Others(s, t, G) /\ t.approvals = Append(s.approvals, a)
  <2>2. Others(s, x, {"reply", "asked"} \cup {"approvals"})
    BY <1>3, OthersTrans
  <2>3. Others(s, x, G)
    BY <2>2, OthersMore
  <2> QED BY <1>2, <1>3, <2>3 DEF q
<1>5. Entries(t) = Entries(s) \cup {a}
  BY <1>4, AppendEntries DEF Sound
<1>6. /\ t.idle = s.idle /\ t.result = s.result /\ t.channel = s.channel
      /\ t.tried_handlers_before_approval = s.tried_handlers_before_approval
      /\ t.observing = s.observing /\ t.observers_pending = s.observers_pending
      /\ t.delay_approver_observers_pending = s.delay_approver_observers_pending
      /\ t.signals = s.signals
  BY <1>4, FieldNames DEF Others
<1>7. Plain(t) /\ Scheduled(t) /\ Signalled(t)
  BY <1>4, PlainSame, ScheduledSame, SignalledSame
     DEF Orderly, PlainOn, ScheduledOn, SignalledOn
<1>8. Silent(t)
  BY <1>5, <1>6 DEF Orderly, Silent
<1>9. Sound(t)
  BY <1>1, <1>5, <1>6 DEF Sound, ObserverLocks, Named
<1> QED BY <1>6, <1>7, <1>8, <1>9 DEF Follows, Grows, Orderly

(* _mcd_dispatch_operation_dec_ado_pending                               *)
LEMMA DecAdoPendingOrderly ==
  ASSUME Plugin = {}, BypassApproval = {}, registry \subseteq Handler,
         NEW k, Sound(k), Plain(k), Scheduled(k), Silent(k), k.signals = <<>>,
         k.lost_channel => ~k.channel, ~k.idle, k.ado_pending # 0,
         k.tried_handlers_before_approval
  PROVE  LET t == DecAdoPending(k)
         IN Orderly(t) /\ ~t.idle /\ t.tried_handlers_before_approval
<1> DEFINE n == k.ado_pending - 1
           d == [k EXCEPT !.ado_pending = n]
           f == CheckFinished(d)
           g == [f EXCEPT !.approvals = Append(f.approvals, NoApprovers)]
           e == IF f.ado_pending = 0 /\ ~f.accepted_by_an_approver THEN g ELSE f
           t == DecAdoPending(k)
<1>1. Typed(k) /\ IsCdo(k)
  BY TypedIsCdo DEF Sound
<1>2. d = [k EXCEPT !.ado_pending = @ - 1]
  BY <1>1 DEF IsCdo, Fields
<1>3. n \in FieldType.ado_pending
  BY <1>1, TypedFields, FieldTypes
<1> HIDE DEF n
<1>4. Typed(d) /\ Others(k, d, {"ado_pending"})
  BY <1>1, <1>3, TypedExcept, OneTypedWrite, FieldNames
<1> HIDE DEF d
<1>5. Plain(d) /\ Scheduled(d) /\ Silent(d) /\ Sound(d)
  BY <1>4, PlainSame, ScheduledSame, SilentSame, SoundSame DEF PlainOn, ScheduledOn, SilentOn
<1>6. /\ d.signals = k.signals /\ d.lost_channel = k.lost_channel /\ d.channel = k.channel
      /\ d.idle = k.idle
      /\ d.tried_handlers_before_approval = k.tried_handlers_before_approval
  BY <1>4, FieldNames DEF Others
<1>7. Orderly(f) /\ Sound(f) /\ ~f.idle
  BY <1>5, <1>6, ReleasedOrderly
<1>8. Typed(f) /\ IsCdo(f) /\ f.tried_handlers_before_approval
  <2>1. Others(d, f, {"lost_channel", "signals", "did_post_observer_actions"})
    BY <1>4, <1>5, <1>6, CheckFinishedOrderly DEF Sound
  <2>2. f.tried_handlers_before_approval = d.tried_handlers_before_approval
    BY <2>1, FieldNames DEF Others
  <2> QED BY <1>6, <1>7, <2>2, TypedIsCdo DEF Sound
<1>9. t = CheckClientLocks(e)
  <2>1. g = [f EXCEPT !.approvals = Append(@, NoApprovers)]
    <3> HIDE DEF f
    <3> QED BY <1>8 DEF IsCdo, Fields
  <2> HIDE DEF g
  <2> QED BY <1>2, <2>1 DEF DecAdoPending
<1> HIDE DEF f, t, e
<1>10. Orderly(g) /\ Sound(g) /\ ~g.idle /\ g.tried_handlers_before_approval
  <2>1. Others(f, f, {"reply", "asked"})
    BY SelfOthers
  <2>2. /\ f.result # "none" => NoApprovers.caller = None
        /\ NoApprovers.type = "CLAIM" => NoApprovers.caller # None
    BY DEF NoApprovers
  <2> HIDE DEF g
  <2>3. g = Joined(f, NoApprovers)
    BY DEF g, Joined
  <2>5. Orderly(f) /\ Sound(f) /\ Typed(f) /\ NoApprovers \in Approval
    BY <1>7, <1>8, NoApproversType
  <2>4. /\ Follows(f, g) /\ Sound(g) /\ g.idle = f.idle
        /\ g.tried_handlers_before_approval = f.tried_handlers_before_approval
    BY <2>1, <2>2, <2>3, <2>5, AppendOrderly, Z3
  <2> QED BY <1>7, <1>8, <2>4 DEF Follows
<1> HIDE DEF g
<1>11. Orderly(e) /\ Sound(e) /\ ~e.idle /\ e.tried_handlers_before_approval
  BY <1>7, <1>8, <1>10 DEF e
<1>12. Checked(e, t)
  BY <1>9, <1>11, CheckClientLocksChecked
<1> QED BY <1>11, <1>12 DEF Checked, t

(* _mcd_dispatch_operation_run_approvers of an open operation            *)
LEMMA RunApproversOrderly ==
  ASSUME Plugin = {}, BypassApproval = {}, registry \subseteq Handler,
         NEW approvers \in SUBSET Approver,
         NEW s, Sound(s), Orderly(s), ~s.idle, s.tried_handlers_before_approval,
         s.result = "none", s.ado_pending = 0
  PROVE  LET t == RunApprovers(s, approvers)
         IN Follows(s, t) /\ ~t.idle /\ t.tried_handlers_before_approval
<1> DEFINE called == IF s.channel THEN approvers ELSE {}
           n == Cardinality(called)
           i == IncAdoPending(s, 1)
           j == IncAdoPending(i, n)
           v == j.adding \cup called
           k == [j EXCEPT !.adding = v]
           t == RunApprovers(s, approvers)
<1>1. called \in SUBSET Approver
  OBVIOUS
<1>2. Typed(s) /\ s.signals = <<>> /\ (s.lost_channel => ~s.channel)
  BY DEF Sound, Orderly, Signalled
<1> HIDE DEF called
<1>3. n \in Nat
  BY <1>1, ClientsAssumption, SubsetCardinality
<1>4. /\ Typed(i) /\ Others(s, i, {"ado_pending", "criticals"})
      /\ i.ado_pending = s.ado_pending + 1 /\ i.criticals = s.criticals
  BY <1>2, IncAdoPendingFields
<1> HIDE DEF i
<1>5. i.result = "none" /\ i.ado_pending = 1
  BY <1>4, FieldNames DEF Others
<1>6. /\ Typed(j) /\ Others(i, j, {"ado_pending", "criticals"})
      /\ j.ado_pending = i.ado_pending + n /\ j.criticals = i.criticals
  BY <1>3, <1>4, <1>5, IncAdoPendingFields
<1>7. t = DecAdoPending(k)
  <2>1. t = DecAdoPending([j EXCEPT !.adding = @ \cup called])
    BY DEF RunApprovers, i, called
  <2> HIDE DEF j
  <2>2. k = [j EXCEPT !.adding = @ \cup called]
    BY <1>6, TypedIsCdo DEF IsCdo, Fields
  <2> HIDE DEF k
  <2> QED BY <2>1, <2>2
<1> HIDE DEF j, t
<1>8. v \in FieldType.adding
  BY <1>1, <1>6, TypedFields, FieldTypes
<1> HIDE DEF v
<1>9. Typed(k) /\ Others(j, k, {"adding"})
  BY <1>6, <1>8, TypedExcept, OneTypedWrite, FieldNames
<1> HIDE DEF k
<1>10. k.ado_pending # 0 /\ k.criticals = s.criticals
  <2>1. k.ado_pending = j.ado_pending /\ k.criticals = j.criticals
    BY <1>9, FieldNames DEF Others
  <2> QED BY <1>3, <1>4, <1>5, <1>6, <2>1
<1>11. Others(s, k, {"ado_pending", "criticals", "adding"})
  BY <1>4, <1>6, <1>9 DEF Others
<1>12. Scheduled(k) /\ Silent(k) /\ Sound(k)
  BY <1>9, <1>11, ScheduledSame, SilentSame, SoundSame DEF Orderly, ScheduledOn, SilentOn
<1>13. /\ k.plugins_pending = s.plugins_pending /\ k.after_observers = s.after_observers
       /\ k.leaked = s.leaked /\ k.signals = s.signals /\ k.lost_channel = s.lost_channel
       /\ k.channel = s.channel /\ k.idle = s.idle
       /\ k.tried_handlers_before_approval = s.tried_handlers_before_approval
  BY <1>11, FieldNames DEF Others
<1>14. Plain(k)
  BY <1>10, <1>13 DEF Orderly, Plain
<1>15. Orderly(t) /\ ~t.idle /\ t.tried_handlers_before_approval
  BY <1>2, <1>7, <1>10, <1>12, <1>13, <1>14, DecAdoPendingOrderly
<1> QED BY <1>2, <1>15, SignalledInOrder DEF t

(* _mcd_dispatch_operation_run_approvers from its idle source:           *)
(* AddDispatchOperation is called, under a lock of MC's own.             *)
LEMMA IdleRunApproversFollows ==
  ASSUME Plugin = {}, BypassApproval = {}, Inv(cdo), Orderly(cdo), registry \subseteq Handler,
         NEW approvers \in SUBSET Approver, IdleRunApprovers(approvers)
  PROVE  Follows(cdo, cdo')
<1> DEFINE s == [cdo EXCEPT !.idle = FALSE]
           due == s.needs_approval /\ ~IsApproved(s)
           r == IF due THEN RunApprovers(s, approvers) ELSE s
           t == [r EXCEPT !.invoked_approvers_if_needed = TRUE]
<1>1. cdo' = CheckClientLocks(t) /\ cdo.idle
  BY DEF IdleRunApprovers
<1>2. Ready(cdo) /\ Sound(cdo) /\ Typed(cdo) /\ IsCdo(cdo)
  BY ReadySound, TypedIsCdo DEF Inv
<1>3. /\ cdo.result = "none" /\ ~Direct(cdo) /\ cdo.tried_handlers_before_approval
      /\ cdo.ado_pending = 0
  <2>1. cdo.result = "none" /\ ~Direct(cdo)
    BY <1>1 DEF Orderly, Scheduled
  <2>2. cdo.tried_handlers_before_approval /\ cdo.adding = {}
    BY <1>1, <1>2 DEF Ready, Fate, Always
  <2>3. cdo.ado_pending = Cardinality(cdo.adding)
    BY <1>2 DEF Ready, Fate, Always, Orderly, Plain
  <2> QED BY <2>1, <2>2, <2>3, FS_EmptySet
<1>4. Typed(s) /\ ~s.idle /\ Others(cdo, s, {"idle"})
  <2>1. Typed(s)
    BY <1>2, TypedFlag
  <2>2. ~s.idle /\ Others(cdo, s, {"idle"})
    BY <1>2 DEF IsCdo, Others, Fields
  <2> QED BY <2>1, <2>2
<1> HIDE DEF s
<1>5. /\ s.result = cdo.result /\ s.possible_handlers = cdo.possible_handlers
      /\ s.tried_handlers_before_approval = cdo.tried_handlers_before_approval
      /\ s.ado_pending = cdo.ado_pending /\ s.signals = cdo.signals
  BY <1>4, FieldNames DEF Others
<1>6. Follows(cdo, s) /\ Sound(s)
  <2>1. Plain(s) /\ Silent(s) /\ Signalled(s)
    BY <1>4, PlainSame, SilentSame, SignalledSame
       DEF Orderly, PlainOn, SilentOn, SignalledOn
  <2>2. Scheduled(s)
    BY <1>3, <1>4, <1>5 DEF Scheduled
  <2>3. Sound(s)
    BY <1>2, <1>4, SoundSame
  <2> QED BY <1>5, <2>1, <2>2, <2>3 DEF Follows, Grows, Orderly
<1>7. Follows(s, r) /\ ~r.idle /\ r.tried_handlers_before_approval /\ Sound(r)
  <2>1. CASE ~due
    <3>1. r = s
      BY <2>1
    <3> HIDE DEF r
    <3> QED BY <1>3, <1>4, <1>5, <1>6, <3>1 DEF Follows, Grows
  <2>2. CASE due
    <3>1. r = RunApprovers(s, approvers)
      BY <2>2
    <3>2. Follows(s, r) /\ ~r.idle /\ r.tried_handlers_before_approval
      <4> HIDE DEF r
      <4> QED BY <1>3, <1>4, <1>5, <1>6, <3>1, RunApproversOrderly DEF Follows
    <3>3. /\ s.needs_approval = cdo.needs_approval /\ s.approvals = cdo.approvals
          /\ s.adding = cdo.adding
          /\ s.invoked_approvers_if_needed = cdo.invoked_approvers_if_needed
      BY <1>4, FieldNames DEF Others
    <3>4. Moves(cdo, s)
      <4>1. Others(cdo, s, {"idle", "invoked_approvers_if_needed"})
        BY <1>4 DEF Others
      <4> QED BY <1>2, <1>4, <2>2, <3>3, <4>1, ScheduleMoves
    <3>5. s.tried_handlers_before_approval /\ s.adding = {} /\ s.approvals = <<>>
      BY <1>1, <1>2, <1>5, <2>2, <3>3 DEF Ready, Fate, Always, IsApproved
    <3>6. Moves(s, RunApprovers(s, approvers))
      BY <1>4, <2>2, <3>4, <3>5, RunApproversMoves DEF Moves
    <3> HIDE DEF r
    <3>7. Sound(r)
      BY <3>1, <3>6, ReadySound DEF Moves
    <3> QED BY <3>2, <3>7 DEF r
  <2> QED BY <2>1, <2>2
<1> HIDE DEF r
<1>8. Typed(r) /\ IsCdo(r)
  BY <1>7, TypedIsCdo DEF Sound
<1>9. Typed(t) /\ Others(r, t, {"invoked_approvers_if_needed"})
  <2>1. Typed(t)
    BY <1>8, TypedFlag
  <2>2. Others(r, t, {"invoked_approvers_if_needed"})
    BY <1>8 DEF IsCdo, Others, Fields
  <2> QED BY <2>1, <2>2
<1> HIDE DEF t
<1>10. /\ t.idle = r.idle /\ t.signals = r.signals
       /\ t.tried_handlers_before_approval = r.tried_handlers_before_approval
  BY <1>9, FieldNames DEF Others
<1>11. Orderly(t) /\ Sound(t)
  <2>1. Plain(t) /\ Silent(t) /\ Signalled(t)
    BY <1>7, <1>9, PlainSame, SilentSame, SignalledSame
       DEF Follows, Orderly, PlainOn, SilentOn, SignalledOn
  <2>2. Scheduled(t)
    BY <1>7, <1>10 DEF Scheduled
  <2>3. Sound(t)
    BY <1>7, <1>9, SoundSame
  <2> QED BY <2>1, <2>2, <2>3 DEF Orderly
<1>12. Follows(r, t)
  BY <1>10, <1>11 DEF Follows, Grows
<1>13. Checked(t, cdo')
  BY <1>1, <1>7, <1>10, <1>11, CheckClientLocksChecked
<1> QED BY <1>6, <1>7, <1>12, <1>13, FollowsTrans, CheckedFollows

(* add_dispatch_operation_cb: the last approver to return releases the   *)
(* signals; if none accepted, the operation is approved.                 *)
LEMMA ApproverReturnsFollows ==
  ASSUME Plugin = {}, BypassApproval = {}, Inv(cdo), Orderly(cdo), registry \subseteq Handler,
         NEW a \in Approver, NEW accepted \in BOOLEAN, ApproverReturns(a, accepted)
  PROVE  Follows(cdo, cdo')
<1> DEFINE v == cdo.adding \ {a}
           w == cdo.accepted_by_an_approver \/ accepted
           k == [cdo EXCEPT !.adding = v, !.accepted_by_an_approver = w]
<1>1. Ready(cdo) /\ Sound(cdo) /\ Typed(cdo) /\ IsCdo(cdo) /\ Always(cdo)
  BY ReadySound, TypedIsCdo DEF Inv, Ready, Fate
<1>2. a \in cdo.adding /\ ~cdo.idle
  BY DEF ApproverReturns, NotPreempted
<1>3. cdo' = DecAdoPending(k)
  <2>1. k = [cdo EXCEPT !.adding = @ \ {a}, !.accepted_by_an_approver = @ \/ accepted]
    BY <1>1 DEF IsCdo, Fields
  <2> HIDE DEF k
  <2> QED BY <2>1 DEF ApproverReturns
<1>4. v \in FieldType.adding /\ w \in FieldType.accepted_by_an_approver
  BY <1>1, TypedFields, FieldTypes
<1>5. cdo.ado_pending # 0 /\ cdo.tried_handlers_before_approval
  <2>1. cdo.ado_pending = Cardinality(cdo.adding) /\ cdo.tried_handlers_before_approval
    BY <1>1, <1>2 DEF Always, Orderly, Plain
  <2>2. Cardinality(cdo.adding) # 0
    BY <1>1, <1>2, TypedFields, ClientsAssumption, FS_Subset, RemoveOne
  <2> QED BY <2>1, <2>2
<1> HIDE DEF v, w
<1>6. Typed(k) /\ Others(cdo, k, {"adding", "accepted_by_an_approver"})
  <2>1. Typed(k)
    BY <1>1, <1>4, TypedExcept2, FieldNames
  <2>2. Others(cdo, k, {"adding", "accepted_by_an_approver"})
    BY <1>1 DEF IsCdo, Others, Fields
  <2> QED BY <2>1, <2>2
<1> HIDE DEF k
<1>7. cdo.signals = <<>> /\ (cdo.lost_channel => ~cdo.channel)
  BY <1>5, HeldIsSilent DEF MaySignalFinished
<1>8. /\ k.ado_pending = cdo.ado_pending /\ k.idle = cdo.idle /\ k.signals = cdo.signals
      /\ k.lost_channel = cdo.lost_channel /\ k.channel = cdo.channel
      /\ k.tried_handlers_before_approval = cdo.tried_handlers_before_approval
  BY <1>6, FieldNames DEF Others
<1>9. Plain(k) /\ Scheduled(k) /\ Silent(k) /\ Sound(k)
  BY <1>1, <1>6, PlainSame, ScheduledSame, SilentSame, SoundSame
     DEF Orderly, PlainOn, ScheduledOn, SilentOn
<1>10. Orderly(cdo')
  BY <1>2, <1>3, <1>5, <1>7, <1>8, <1>9, DecAdoPendingOrderly
<1> QED BY <1>7, <1>10, SignalledInOrder

(* An approval joins the queue and the locks are checked.                *)
LEMMA JoinedFollows ==
  ASSUME Plugin = {}, BypassApproval = {}, Ready(cdo), Orderly(cdo), registry \subseteq Handler,
         ~cdo.idle, NEW a \in Approval,
         cdo.result # "none" => a.caller = None, a.type = "CLAIM" => a.caller # None,
         NEW u, Typed(u), Others(cdo, u, {"reply", "asked"}),
         NEW t, t = Joined(u, a)
  PROVE  Follows(cdo, CheckClientLocks(t))
<1>1. Sound(cdo)
  BY ReadySound
<1>2. Follows(cdo, t) /\ Sound(t) /\ t.idle = cdo.idle
  BY <1>1, AppendOrderly, Z3
<1>3. Checked(t, CheckClientLocks(t))
  BY <1>2, CheckClientLocksChecked DEF Follows
<1> QED BY <1>2, <1>3, CheckedFollows

(* A call is refused: only its reply changes.                            *)
LEMMA RefusedFollows ==
  ASSUME NEW s, Orderly(s), NEW t, Others(s, t, {"reply", "asked"})
  PROVE  Follows(s, t)
  BY AsideFollows DEF PlainOn, ScheduledOn, SilentOn, SignalledOn

(* dispatch_operation_handle_with: refused, or queued.                   *)
LEMMA HandleWithFollows ==
  ASSUME Plugin = {}, BypassApproval = {}, Inv(cdo), Orderly(cdo), registry \subseteq Handler,
         NEW c \in HandleWithCaller, NEW name \in Handler \cup {None, BadName},
         HandleWith(c, name)
  PROVE  Follows(cdo, cdo')
<1> DEFINE n == [cdo.asked EXCEPT ![c] = name]
           s == [cdo EXCEPT !.asked = n]
           a == Invitation(c, name)
           e == [s EXCEPT !.reply = [s.reply EXCEPT ![c] = "error"]]
           w == [s EXCEPT !.reply = [s.reply EXCEPT ![c] = "waiting"]]
           t == Joined(w, a)
           refused == s.result # "none" \/ s.approvals # <<>> \/ name = BadName
<1>1. Ready(cdo) /\ Typed(cdo) /\ IsCdo(cdo)
  BY TypedIsCdo DEF Inv, Ready
<1>2. c \in Caller /\ ~cdo.idle
  BY DEF HandleWith, Callable, Caller, NotPreempted
<1>3. n \in FieldType.asked
  BY <1>1, TypedFields, FieldTypes
<1>4. s = [cdo EXCEPT !.asked[c] = name]
  BY <1>1 DEF IsCdo, Fields
<1>5. cdo' = IF refused THEN e ELSE CheckClientLocks(t)
  <2> HIDE DEF n
  <2>1. s.approvals = cdo.approvals /\ s.reply = cdo.reply /\ IsCdo(s)
    BY <1>1 DEF IsCdo, Fields
  <2> HIDE DEF s
  <2>2. e = [s EXCEPT !.reply[c] = "error"]
    BY <2>1 DEF IsCdo, Fields
  <2>3. t = [s EXCEPT !.reply[c] = "waiting", !.approvals = Append(@, a)]
    <3> DEFINE r == [s.reply EXCEPT ![c] = "waiting"]
    <3> HIDE DEF r, a
    <3>1. t = [s EXCEPT !.reply = r, !.approvals = Append(@, a)]
      BY <2>1 DEF IsCdo, Fields, r, Joined
    <3> HIDE DEF t
    <3> QED BY <2>1, <3>1 DEF IsCdo, Fields, r
  <2> HIDE DEF e, t
  <2> QED BY <1>4, <2>2, <2>3 DEF HandleWith, Invitation
<1> HIDE DEF n
<1>6. Typed(s) /\ Others(cdo, s, {"asked"})
  <2>1. Typed(s)
    BY <1>1, <1>3, TypedExcept, FieldNames
  <2> QED BY <1>1, <2>1 DEF IsCdo, Others
<1> HIDE DEF s
<1>7. s.result = cdo.result
  BY <1>6 DEF Others, Fields
<1>8. CASE refused
  <2>1. Others(s, e, {"reply"})
    BY <1>2, <1>6, ReplyFields
  <2> HIDE DEF e
  <2>2. Others(cdo, e, {"reply", "asked"})
    BY <1>6, <2>1 DEF Others
  <2> QED BY <1>5, <1>8, <2>2, RefusedFollows
<1>9. CASE ~refused
  <2>1. Typed(w) /\ Others(s, w, {"reply"})
    BY <1>2, <1>6, ReplyFields
  <2> HIDE DEF w
  <2>2. Others(cdo, w, {"reply", "asked"})
    BY <1>6, <2>1 DEF Others
  <2>3. a \in Approval /\ a.type # "CLAIM"
    <3>1. name \in Handler \cup {None} /\ c # None
      BY <1>2, <1>9, CallerNotNone
    <3> QED BY <1>2, <3>1 DEF Approval, ApprovalType, Invitation
  <2>4. (cdo.result # "none" => a.caller = None) /\ (a.type = "CLAIM" => a.caller # None)
    BY <1>7, <1>9, <2>3
  <2> HIDE DEF a, t
  <2>5. t = Joined(w, a)
    BY DEF t
  <2>6. Follows(cdo, CheckClientLocks(t))
    BY <1>1, <1>2, <2>1, <2>2, <2>3, <2>4, <2>5, JoinedFollows, Z3
  <2> QED BY <1>5, <1>9, <2>6
<1> QED BY <1>8, <1>9

(* dispatch_operation_claim: refused, or queued.                         *)
LEMMA ClaimFollows ==
  ASSUME Plugin = {}, BypassApproval = {}, Inv(cdo), Orderly(cdo), registry \subseteq Handler,
         NEW c \in ClaimCaller, Claim(c)
  PROVE  Follows(cdo, cdo')
<1> DEFINE e == [cdo EXCEPT !.reply = [cdo.reply EXCEPT ![c] = "error"]]
           w == [cdo EXCEPT !.reply = [cdo.reply EXCEPT ![c] = "waiting"]]
           a == ClaimEntry(c)
           t == Joined(w, a)
<1>1. Ready(cdo) /\ Typed(cdo) /\ IsCdo(cdo)
  BY TypedIsCdo DEF Inv, Ready
<1>2. c \in Caller /\ c # None /\ ~cdo.idle
  BY CallerNotNone DEF Claim, Callable, Caller, NotPreempted
<1>3. /\ e = [cdo EXCEPT !.reply[c] = "error"]
      /\ w = [cdo EXCEPT !.reply[c] = "waiting"]
  BY <1>1 DEF IsCdo, Fields
<1>4. Others(cdo, e, {"reply"}) /\ Typed(w) /\ Others(cdo, w, {"reply"})
  BY <1>1, <1>2, ReplyFields
<1> HIDE DEF e, w
<1>5. cdo' = IF cdo.result # "none" THEN e ELSE ResolveClaim(w, c)
  BY <1>3 DEF Claim
<1>6. ResolveClaim(w, c) = CheckClientLocks(t)
  <2> HIDE DEF a
  <2>1. t = [w EXCEPT !.approvals = Append(@, a)]
    BY <1>4, TypedIsCdo DEF IsCdo, Fields, Joined
  <2> HIDE DEF t
  <2> QED BY <2>1 DEF ResolveClaim, ClaimEntry, a
<1>7. CASE cdo.result # "none"
  <2>1. Others(cdo, e, {"reply", "asked"})
    BY <1>4 DEF Others
  <2> QED BY <1>5, <1>7, <2>1, RefusedFollows
<1>8. CASE cdo.result = "none"
  <2>1. Others(cdo, w, {"reply", "asked"})
    BY <1>4 DEF Others
  <2>2. a \in Approval /\ a.caller # None
    BY <1>2 DEF Approval, ApprovalType, ClaimEntry
  <2>3. (cdo.result # "none" => a.caller = None) /\ (a.type = "CLAIM" => a.caller # None)
    BY <1>8, <2>2
  <2> HIDE DEF a, t
  <2>4. t = Joined(w, a)
    BY DEF t
  <2>5. Follows(cdo, CheckClientLocks(t))
    BY <1>1, <1>2, <1>4, <2>1, <2>2, <2>3, <2>4, JoinedFollows, Z3
  <2> QED BY <1>5, <1>6, <1>8, <2>5
<1> QED BY <1>7, <1>8

(* _mcd_dispatch_operation_approve, for a request that found the         *)
(* channel.                                                              *)
LEMMA ApproveFollows ==
  ASSUME Plugin = {}, BypassApproval = {}, Inv(cdo), Orderly(cdo), registry \subseteq Handler,
         NEW preferred \in Handler \cup {None}, Approve(preferred)
  PROVE  Follows(cdo, cdo')
<1> DEFINE a == [type |-> "REQUESTED", client_bus_name |-> preferred, caller |-> None]
           t == Joined(cdo, a)
<1>1. Ready(cdo) /\ Typed(cdo) /\ IsCdo(cdo) /\ ~cdo.idle
  BY TypedIsCdo DEF Inv, Ready, Approve, NotPreempted
<1>2. cdo' = CheckClientLocks(t)
  <2> HIDE DEF a
  <2>1. t = [cdo EXCEPT !.approvals = Append(@, a)]
    BY <1>1 DEF IsCdo, Fields, Joined
  <2> HIDE DEF t
  <2> QED BY <2>1 DEF Approve, a
<1>3. /\ a \in Approval
      /\ cdo.result # "none" => a.caller = None
      /\ a.type = "CLAIM" => a.caller # None
  BY DEF Approval, ApprovalType
<1> HIDE DEF a, t
<1>4. Others(cdo, cdo, {"reply", "asked"}) /\ t = Joined(cdo, a)
  BY SelfOthers DEF t
<1>5. Follows(cdo, CheckClientLocks(t))
  BY <1>1, <1>3, <1>4, JoinedFollows, Z3
<1> QED BY <1>2, <1>5

(* No handler is tried any more, and the locks are checked.              *)
LEMMA HandlerLeftFollows ==
  ASSUME Plugin = {}, BypassApproval = {}, registry \subseteq Handler,
         NEW s, NEW g, Sound(g), Orderly(g), ~g.idle, Grows(s, g),
         NEW x, x = [g EXCEPT !.trying_handler = None]
  PROVE  Follows(s, CheckClientLocks(x))
<1> DEFINE y == [g EXCEPT !.trying_handler = None]
<1>1. None \in FieldType.trying_handler
  BY FieldTypes
<1>2. Typed(y)
  BY <1>1, TypedExcept, FieldNames DEF Sound
<1>3. y.trying_handler = None /\ Others(g, y, {"trying_handler"})
  BY TypedIsCdo DEF Sound, IsCdo, Fields, Others
<1>4. x = y
  OBVIOUS
<1> HIDE DEF y
<1>5. Plain(y) /\ Silent(y) /\ Signalled(y)
  BY <1>3, PlainSame, SilentSame, SignalledSame DEF Orderly, PlainOn, SilentOn, SignalledOn
<1>6. /\ y.idle = g.idle /\ y.result = g.result /\ y.possible_handlers = g.possible_handlers
      /\ y.tried_handlers_before_approval = g.tried_handlers_before_approval
      /\ y.invoked_approvers_if_needed = g.invoked_approvers_if_needed
      /\ y.channel = g.channel /\ y.signals = g.signals
      /\ y.invoked_observers_if_needed = g.invoked_observers_if_needed
  BY <1>3, FieldNames DEF Others
<1>7. Scheduled(y)
  <2>1. Direct(y) = Direct(g)
    BY <1>6, DirectSame
  <2> QED BY <1>3, <1>6, <2>1 DEF Orderly, Scheduled
<1>8. Sound(y)
  BY <1>2, <1>3, SoundSame
<1>9. Orderly(y)
  BY <1>5, <1>7 DEF Orderly
<1>10. Checked(y, CheckClientLocks(y))
  BY <1>6, <1>8, <1>9, CheckClientLocksChecked
<1>11. Follows(s, y)
  BY <1>6, <1>9 DEF Follows, Grows
<1> QED BY <1>4, <1>10, <1>11, CheckedFollows

(* The outcome is there already: finishing again does nothing.           *)
LEMMA CloseAgain ==
  ASSUME NEW s, s.result # "none", ~s.channel
  PROVE  CloseAsUndispatchable(s) = s
<1>1. Finish(s, "Failed") = s
  BY DEF Finish
<1> QED BY <1>1 DEF CloseAsUndispatchable

(* handle_channels_cb with an error.                                     *)
LEMMA HandlerFailedFollows ==
  ASSUME Plugin = {}, BypassApproval = {}, registry \subseteq Handler,
         NEW s, Ready(s), s.trying_handler # None,
         NEW t, Decided(s, t), Orderly(t), t.signals = s.signals, ~t.idle
  PROVE  Follows(s, HandlerFailed(t))
<1> DEFINE h == t.trying_handler
           f == HandlerTurnedDown(t, h)
           e == CloseAsUndispatchable(f)
           g == SetHandlerFailed(t, h)
           x == [g EXCEPT !.trying_handler = None]
<1>1. HandlerFailed(t) = CheckClientLocks(x)
  BY DEF HandlerFailed
<1>2. /\ Typed(t) /\ QueueInv(t) /\ ObserverLocks(t) /\ t.result = s.result /\ Always(t)
      /\ t.trying_handler = s.trying_handler /\ t.channel = s.channel
      /\ t.result = "none" => t.channel
  BY DecidedFate DEF Decided
<1>3. h \in Handler
  BY <1>2, TypedFields
<1>4. g \in {f, e}
  BY DEF SetHandlerFailed, HandlerTurnedDown
<1>5. t.tried_handlers_before_approval \/ Direct(t)
  BY <1>2 DEF Orderly, Scheduled
<1>6. t.result # "none" => ~t.channel
  BY <1>2 DEF Ready, Fate, Dropped
<1> HIDE DEF h, g
<1>7. Typed(f) /\ IsCdo(f)
  BY <1>2, <1>3, TypedSetHandlerFailed, TypedIsCdo
<1>8. /\ Others(t, f, {"failed_handlers", "approvals", "reply"})
      /\ f.approvals = Without(t.approvals, Insistent(t, h))
      /\ f.reply = TurnedAway(t, h)
  BY <1>2, <1>3, HandlerTurnedDownFields
<1> HIDE DEF f
<1>9. /\ f.result = t.result /\ f.claims = t.claims /\ f.channel = t.channel
      /\ f.idle = t.idle /\ f.signals = t.signals
      /\ f.tried_handlers_before_approval = t.tried_handlers_before_approval
      /\ f.possible_handlers = t.possible_handlers
      /\ f.observing = t.observing /\ f.observers_pending = t.observers_pending
      /\ f.delay_approver_observers_pending = t.delay_approver_observers_pending
  BY <1>8 DEF Others, Fields
<1>10. Entries(f) \subseteq Entries(t)
  BY <1>2, <1>3, <1>8, <1>9, TurnedAwayKeeps
<1>11. Plain(f) /\ Scheduled(f) /\ Signalled(f)
  BY <1>8, PlainSame, ScheduledSame, SignalledSame
     DEF Orderly, PlainOn, ScheduledOn, SignalledOn
<1>12. Silent(f)
  BY <1>9, <1>10 DEF Orderly, Silent
<1>13. Orderly(f) /\ Grows(s, f)
  BY <1>9, <1>11, <1>12 DEF Orderly, Grows
<1>14. ObserverLocks(f)
  BY <1>2, <1>9 DEF ObserverLocks
<1>15. Sound(f)
  <2>1. \A a \in Entries(t) : a.type = "CLAIM" => a.caller # None
    BY <1>2 DEF Always
  <2> QED BY <1>2, <1>7, <1>9, <1>10, <1>14, <2>1 DEF Sound, Named
<1>16. CASE g = f \/ f.result # "none"
  <2>1. g = f
    BY <1>4, <1>6, <1>9, <1>16, CloseAgain
  <2>2. x = [f EXCEPT !.trying_handler = None]
    BY <2>1
  <2> HIDE DEF x
  <2> QED BY <1>1, <1>9, <1>13, <1>15, <2>2, HandlerLeftFollows, Z3
<1>17. CASE g = e /\ f.result = "none"
  <2>1. f.signals = <<>> /\ ~f.lost_channel
    BY <1>2, <1>9, <1>11, <1>17 DEF Signalled
  <2>2. Unannounced(f)
    BY <2>1 DEF Unannounced
  <2>3. f.tried_handlers_before_approval \/ Direct(f)
    BY <1>5, <1>9, DirectSame
  <2>4. Orderly(e) /\ ~e.idle
    BY <1>7, <1>9, <1>11, <1>17, <2>2, <2>3, CloseAsUndispatchableOrderly
  <2>5. Typed(e) /\ Fixed(f, e) /\ e.result # "none"
    <3>1. Typed(e) /\ Fixed(f, e)
      BY <1>7, TypedCloseAsUndispatchable, FixedCloseAsUndispatchable
    <3>2. e.result # "none"
      <4>1. Finish(f, "Failed").result # "none"
        BY <1>7, FinishFields
      <4>2. IsCdo(Finish(f, "Failed"))
        BY <1>7, TypedFinish, TypedIsCdo
      <4> DEFINE b == Finish(f, "Failed")
      <4> HIDE DEF b
      <4>3. e \in {b, [TakeError(b, "OTHER") EXCEPT !.closing = TRUE]}
        BY DEF CloseAsUndispatchable, b
      <4>4. [TakeError(b, "OTHER") EXCEPT !.closing = TRUE].result = b.result
        BY <4>2 DEF TakeError, IsCdo, Fields, b
      <4> HIDE DEF e
      <4> QED BY <4>1, <4>3, <4>4 DEF b
    <3> QED BY <3>1, <3>2
  <2> HIDE DEF e
  <2>6. Sound(e)
    BY <1>14, <2>5, FixedObserverLocks DEF Sound
  <2>7. Grows(s, e)
    BY <1>9, <2>1 DEF Grows
  <2>8. x = [e EXCEPT !.trying_handler = None]
    BY <1>17
  <2> HIDE DEF x
  <2> QED BY <1>1, <2>4, <2>6, <2>7, <2>8, HandlerLeftFollows, Z3
<1> QED BY <1>4, <1>16, <1>17

(* handle_channels_cb with success.                                      *)
LEMMA HandlerSucceededFollows ==
  ASSUME Plugin = {}, BypassApproval = {}, registry \subseteq Handler,
         NEW s, Ready(s), s.trying_handler # None,
         NEW t, Decided(s, t), Orderly(t), t.signals = s.signals, ~t.idle
  PROVE  Follows(s, HandlerSucceeded(t))
<1> DEFINE h == t.trying_handler
           o == SetChannelHandledBy(t, h)
           l == [t EXCEPT !.closing = TRUE]
           c == CASE ~t.channel -> t
                  [] t.channel /\ h \notin registry -> l
                  [] OTHER -> o
           d == [c EXCEPT !.successful_handler = h]
           f == Finish(d, "NotYours")
           x == [f EXCEPT !.trying_handler = None]
           G == {"handled_by", "status", "closing", "successful_handler"}
<1>1. HandlerSucceeded(t) = CheckClientLocks(x)
  BY DEF HandlerSucceeded
<1>2. /\ Typed(t) /\ IsCdo(t) /\ ObserverLocks(t)
      /\ t.trying_handler = s.trying_handler
      /\ t.result = "none" => t.channel
  BY DecidedFate, TypedIsCdo DEF Decided
<1>3. h \in Handler
  BY <1>2, DecidedFate, TypedFields DEF Decided
<1>4. t.tried_handlers_before_approval \/ Direct(t)
  BY <1>2, DecidedFate DEF Orderly, Scheduled, Decided
<1> HIDE DEF h
<1>5. c \in {t, l, o}
  OBVIOUS
<1>6. Typed(o) /\ Others(t, o, {"handled_by", "status"})
  BY <1>2, <1>3, TypedSetChannelHandledBy, HandledByShape
<1>7. Typed(l) /\ Others(t, l, {"closing"})
  BY <1>2, TypedFlag DEF IsCdo, Fields, Others
<1> HIDE DEF o, l
<1>8. Typed(c) /\ Others(t, c, {"handled_by", "status", "closing"})
  <2>1. Others(t, t, {"handled_by", "status", "closing"})
    BY DEF Others
  <2>2. Others(t, o, {"handled_by", "status", "closing"})
    BY <1>6 DEF Others
  <2>3. Others(t, l, {"handled_by", "status", "closing"})
    BY <1>7 DEF Others
  <2> HIDE DEF c
  <2> QED BY <1>2, <1>5, <1>6, <1>7, <2>1, <2>2, <2>3
<1> HIDE DEF c
<1>9. Typed(d) /\ Others(c, d, {"successful_handler"})
  <2>1. h \in FieldType.successful_handler
    BY <1>3, FieldTypes
  <2>2. Typed(d)
    BY <1>8, <2>1, TypedExcept, FieldNames
  <2>3. Others(c, d, {"successful_handler"})
    BY <1>8, TypedIsCdo DEF IsCdo, Others
  <2> QED BY <2>2, <2>3
<1> HIDE DEF d
<1>10. Others(t, d, G)
  BY <1>8, <1>9 DEF Others
<1>11. Orderly(d) /\ d.signals = t.signals
  BY <1>10, OrderlySame DEF PlainOn, ScheduledOn, SilentOn, SignalledOn
<1>12. /\ d.result = t.result /\ d.channel = t.channel /\ d.idle = t.idle
       /\ d.possible_handlers = t.possible_handlers
       /\ d.tried_handlers_before_approval = t.tried_handlers_before_approval
       /\ d.observing = t.observing /\ d.observers_pending = t.observers_pending
       /\ d.delay_approver_observers_pending = t.delay_approver_observers_pending
  BY <1>10, FieldNames DEF Others
<1>13. Typed(f) /\ Fixed(d, f) /\ f.result # "none"
  <2>1. Typed(f) /\ Fixed(d, f)
    BY <1>9, TypedFinish, TypedIsCdo, FixedFinish
  <2>2. f.result # "none"
    BY <1>9, FinishFields
  <2> QED BY <2>1, <2>2
<1>14. Orderly(f) /\ ~f.idle /\ Grows(s, f)
  <2>1. CASE d.result # "none"
    <3>1. f = d
      BY <2>1 DEF Finish
    <3> HIDE DEF f
    <3> QED BY <1>11, <1>12, <3>1 DEF Grows
  <2>2. CASE d.result = "none"
    <3>1. d.signals = <<>> /\ ~d.lost_channel
      BY <1>2, <1>11, <1>12, <2>2 DEF Orderly, Signalled
    <3>2. Unannounced(d)
      BY <3>1 DEF Unannounced
    <3>3. d.tried_handlers_before_approval \/ Direct(d)
      BY <1>4, <1>12, DirectSame
    <3>4. ~f.idle
      <4>1. Unscheduled(d)
        BY <3>3, DirectIsBypass DEF Unscheduled
      <4>2. Others(d, f, Ends)
        BY <1>9, <1>11, <2>2, <4>1, FinishShape DEF Orderly, Plain
      <4>3. f.idle = d.idle
        BY <4>2, FieldNames DEF Others, Ends
      <4> QED BY <1>12, <4>3
    <3>5. Others(f, f, {"idle", "status", "error", "closing"})
      BY SelfOthers
    <3>6. Orderly(f)
      BY <1>9, <1>11, <2>2, <3>2, <3>3, <3>4, <3>5, FinishOrderly DEF Orderly
    <3> QED BY <1>11, <3>1, <3>4, <3>6 DEF Grows
  <2> QED BY <2>1, <2>2
<1> HIDE DEF f
<1>15. ObserverLocks(d)
  BY <1>2, <1>12 DEF ObserverLocks
<1>16. Sound(f)
  BY <1>13, <1>15, FixedObserverLocks DEF Sound
<1> HIDE DEF x
<1>17. x = [f EXCEPT !.trying_handler = None]
  BY DEF x
<1> QED BY <1>1, <1>14, <1>16, <1>17, HandlerLeftFollows, Z3

(* _mcd_dispatch_operation_handle_channels_cb, of a success or a         *)
(* failure.                                                              *)
LEMMA HandleChannelsReturnsFollows ==
  ASSUME Plugin = {}, BypassApproval = {}, Inv(cdo), Orderly(cdo), registry \subseteq Handler,
         NEW success \in BOOLEAN, HandleChannelsReturns(success)
  PROVE  Follows(cdo, cdo')
<1> DEFINE t == [cdo EXCEPT !.handling = None]
<1>1. Ready(cdo) /\ Typed(cdo) /\ IsCdo(cdo)
  BY TypedIsCdo DEF Inv, Ready
<1>2. /\ cdo' \in {HandlerSucceeded(t), HandlerFailed(t)}
      /\ cdo.handling # None /\ ~cdo.idle
  BY DEF HandleChannelsReturns, NotPreempted
<1>3. cdo.trying_handler # None /\ cdo.deciding = {}
  BY <1>1, <1>2 DEF Ready, Fate, Always
<1>4. Decided(cdo, t)
  <2>1. None \in FieldType.handling
    BY FieldTypes
  <2>2. Typed(t)
    BY <1>1, <2>1, TypedExcept, FieldNames
  <2>3. t.handling = None /\ t.deciding = {}
    BY <1>1, <1>3 DEF IsCdo, Fields
  <2>4. Others(cdo, t, {"handling", "deciding", "handler_unsuitable"})
    BY <1>1 DEF IsCdo, Others
  <2> HIDE DEF t
  <2> QED BY <2>2, <2>3, <2>4 DEF Decided
<1> HIDE DEF t
<1>5. Others(cdo, t, {"handling", "deciding", "handler_unsuitable"})
  BY <1>4 DEF Decided
<1>6. Orderly(t) /\ t.signals = cdo.signals
  BY <1>5, OrderlySame DEF PlainOn, ScheduledOn, SilentOn, SignalledOn
<1>7. ~t.idle
  BY <1>2, <1>5, FieldNames DEF Others
<1> QED BY <1>1, <1>2, <1>3, <1>4, <1>6, <1>7, HandlerSucceededFollows, HandlerFailedFollows

(* With no lock held there is no call that holds one.                    *)
LEMMA NobodyHolds ==
  ASSUME NEW s, Ready(s), Orderly(s), MaySignalFinished(s)
  PROVE  s.observing = {} /\ s.adding = {}
<1>1. Typed(s) /\ ObserverLocks(s) /\ s.observers_pending = 0 /\ s.ado_pending = 0
  BY DEF Ready, MaySignalFinished
<1>2. s.ado_pending = Cardinality(s.adding)
  BY DEF Ready, Fate, Always, Orderly, Plain
<1>3. IsFiniteSet(s.adding)
  BY <1>1, TypedFields, ClientsAssumption, FS_Subset
<1> QED BY <1>1, <1>2, <1>3, NoObservers, FS_EmptySet

(* An operation that still listens to its channel after the outcome has  *)
(* a lock to wait for: with no plugin, nothing else refers to it.        *)
LEMMA ListensForLocks ==
  ASSUME Plugin = {}, Ready(cdo), Orderly(cdo), Alive(cdo), cdo.channel, ~cdo.idle,
         cdo.result # "none"
  PROVE  ~MaySignalFinished(cdo)
<1> SUFFICES ASSUME MaySignalFinished(cdo) PROVE FALSE
  OBVIOUS
<1>1. cdo.observing = {} /\ cdo.adding = {}
  BY NobodyHolds
<1>2. \E i \in DOMAIN cdo.signals : cdo.signals[i] = "Finished"
  <2>1. cdo.signals \in {<<"Finished">>, <<"ChannelLost", "Finished">>}
    BY DEF Orderly, Signalled
  <2> QED BY <2>1
<1>3. cdo.handling = None
  BY DEF Ready, Fate, Always, Dropped
<1>4. cdo.deciding = {} /\ \A c \in ClaimCaller : cdo.claims[c] = {}
  BY TypedFields DEF Ready
<1>5. ~(cdo.plugins_pending > 0) /\ ~cdo.leaked
  BY DEF Orderly, Plain
<1> QED BY <1>1, <1>2, <1>3, <1>4, <1>5 DEF Alive

(* lose_channel and what follows it.                                     *)
LEMMA LoseChannelFollows ==
  ASSUME NEW s, Typed(s), Orderly(s), s.channel, ~s.idle,
         s.result # "none" => ~MaySignalFinished(s)
  PROVE  Follows(s, LoseChannel(s))
<1> DEFINE d == DropChannel(s)
           t == Finish(d, "Lost")
<1>1. LoseChannel(s) = t
  BY DEF LoseChannel
<1>2. IsCdo(s) /\ Typed(d)
  BY TypedIsCdo, TypedDropChannel
<1>3. /\ Others(s, d, Loss) /\ IsCdo(d)
      /\ \/ d.signals = s.signals /\ d.lost_channel = s.lost_channel
         \/ ~MaySignalFinished(s) /\ d.signals = s.signals /\ d.lost_channel
         \/ /\ MaySignalFinished(s) /\ d.lost_channel = s.lost_channel
            /\ d.signals = Append(s.signals, "ChannelLost")
  BY <1>2, DropChannelShape
<1>4. Wound(s, d) /\ ~d.channel
  BY <1>2, WoundDropChannel
<1> HIDE DEF d
<1>5. /\ d.plugins_pending = s.plugins_pending /\ d.after_observers = s.after_observers
      /\ d.leaked = s.leaked /\ d.criticals \cap Misuse = s.criticals \cap Misuse
      /\ d.idle = s.idle /\ d.result = s.result /\ d.approvals = s.approvals
      /\ d.possible_handlers = s.possible_handlers
      /\ d.tried_handlers_before_approval = s.tried_handlers_before_approval
      /\ d.invoked_approvers_if_needed = s.invoked_approvers_if_needed
      /\ d.trying_handler = s.trying_handler
      /\ MaySignalFinished(d) = MaySignalFinished(s)
  <2>1. /\ d.plugins_pending = s.plugins_pending /\ d.after_observers = s.after_observers
        /\ d.leaked = s.leaked /\ d.idle = s.idle /\ d.result = s.result
        /\ d.approvals = s.approvals /\ d.possible_handlers = s.possible_handlers
        /\ d.tried_handlers_before_approval = s.tried_handlers_before_approval
        /\ d.invoked_approvers_if_needed = s.invoked_approvers_if_needed
        /\ d.trying_handler = s.trying_handler
    BY <1>3, FieldNames DEF Others, Loss
  <2>2. MaySignalFinished(d) = MaySignalFinished(s)
    BY <1>3, MaySame DEF Loss
  <2>3. d.criticals \cap Misuse = s.criticals \cap Misuse
    BY <1>4 DEF Wound, Fixed
  <2> QED BY <2>1, <2>2, <2>3
<1>6. Plain(d)
  BY <1>5 DEF Orderly, Plain
<1>7. Scheduled(d)
  <2>1. Direct(d) = Direct(s)
    BY <1>5, DirectSame
  <2> QED BY <1>4, <1>5, <2>1 DEF Orderly, Scheduled
<1>8. ~s.lost_channel
  BY DEF Orderly, Signalled
<1>9. CASE s.result = "none"
  <2>1. s.signals = <<>>
    BY <1>9 DEF Orderly, Signalled
  <2>2. Unannounced(d)
    <3>1. CASE d.signals = s.signals /\ d.lost_channel = s.lost_channel
      BY <1>8, <2>1, <3>1 DEF Unannounced
    <3>2. CASE ~MaySignalFinished(s) /\ d.signals = s.signals /\ d.lost_channel
      BY <1>4, <1>5, <2>1, <3>2 DEF Unannounced
    <3>3. CASE /\ MaySignalFinished(s) /\ d.lost_channel = s.lost_channel
               /\ d.signals = Append(s.signals, "ChannelLost")
      BY <1>4, <1>5, <1>8, <2>1, <3>3, FirstSignals DEF Unannounced
    <3> QED BY <1>3, <3>1, <3>2, <3>3
  <2>3. ~t.idle
    <3>1. Unscheduled(d)
      BY <1>4 DEF Unscheduled
    <3>2. Others(d, t, Ends)
      BY <1>2, <1>5, <1>6, <1>9, <3>1, FinishShape DEF Plain
    <3> HIDE DEF t
    <3>3. t.idle = d.idle
      BY <3>2, FieldNames DEF Others, Ends
    <3> QED BY <1>5, <3>3
  <2>4. Others(t, t, {"idle", "status", "error", "closing"})
    BY SelfOthers
  <2>5. Orderly(t)
    BY <1>2, <1>4, <1>5, <1>6, <1>7, <1>9, <2>2, <2>3, <2>4, FinishOrderly
  <2> HIDE DEF t
  <2> QED BY <1>1, <2>1, <2>5, SignalledInOrder
<1>10. CASE s.result # "none"
  <2>1. t = d
    BY <1>5, <1>10 DEF Finish
  <2>2. s.signals = <<>> /\ d.signals = <<>>
    BY <1>3, <1>10 DEF Orderly, Signalled
  <2>3. Silent(d)
    BY <1>5 DEF Orderly, Silent, Entries
  <2>4. Signalled(d)
    BY <1>4, <1>5, <1>10, <2>2, FirstSignals DEF Signalled
  <2> HIDE DEF t
  <2> QED BY <1>1, <1>6, <1>7, <2>1, <2>2, <2>3, <2>4, SignalledInOrder DEF Orderly
<1> QED BY <1>9, <1>10

(* The same, after statements that only mark the channel.                *)
LEMMA LostFollows ==
  ASSUME Plugin = {}, Ready(cdo), Orderly(cdo), Alive(cdo), cdo.channel, ~cdo.idle,
         NEW s, Typed(s), Others(cdo, s, {"invalidated", "error", "status", "closing"})
  PROVE  Follows(cdo, LoseChannel(s))
<1>1. Orderly(s) /\ s.signals = cdo.signals
  BY OrderlySame DEF PlainOn, ScheduledOn, SilentOn, SignalledOn
<1>2. s.channel = cdo.channel /\ s.idle = cdo.idle /\ s.result = cdo.result
  BY FieldNames DEF Others
<1>3. MaySignalFinished(s) = MaySignalFinished(cdo)
  BY MaySame
<1>4. s.result # "none" => ~MaySignalFinished(s)
  BY <1>2, <1>3, ListensForLocks
<1>5. Follows(s, LoseChannel(s))
  BY <1>1, <1>2, <1>4, LoseChannelFollows
<1> QED BY <1>1, <1>5 DEF Follows, Grows

(* The channel is lost, with its connection, alone or because its        *)
(* request was cancelled.                                                *)
LEMMA LosingFollows ==
  ASSUME Plugin = {}, Inv(cdo), Orderly(cdo),
         ChannelInvalidated \/ ConnectionAborted \/ RequestCancelled
  PROVE  Follows(cdo, cdo')
<1> DEFINE i == [cdo EXCEPT !.invalidated = TRUE]
           e == [cdo EXCEPT !.error = "CANCELLED", !.status = "FAILED"]
           l == [e EXCEPT !.closing = TRUE]
           F == {"invalidated", "error", "status", "closing"}
<1>1. Ready(cdo) /\ Typed(cdo) /\ IsCdo(cdo)
  BY TypedIsCdo DEF Inv, Ready
<1>2. Alive(cdo) /\ cdo.channel /\ ~cdo.idle
  BY DEF ChannelInvalidated, ConnectionAborted, RequestCancelled, NotPreempted
<1>3. cdo' \in {LoseChannel(i), LoseChannel(cdo), LoseChannel(l)}
  BY DEF ChannelInvalidated, ConnectionAborted, RequestCancelled, TakeError
<1>4. Typed(i) /\ Others(cdo, i, F)
  <2>1. Typed(i)
    BY <1>1, TypedFlag
  <2> QED BY <1>1, <2>1 DEF IsCdo, Others, Fields
<1>5. Typed(e) /\ IsCdo(e) /\ Others(cdo, e, {"error", "status"})
  <2>1. "CANCELLED" \in FieldType.error /\ "FAILED" \in FieldType.status
    BY FieldTypes DEF ChannelError, ChannelStatus
  <2>2. Typed(e)
    BY <1>1, <2>1, TypedExcept2, FieldNames
  <2>3. Others(cdo, e, {"error", "status"})
    BY <1>1 DEF IsCdo, Others, Fields
  <2> HIDE DEF e
  <2> QED BY <2>2, <2>3, TypedIsCdo
<1> HIDE DEF e
<1>6. Typed(l) /\ Others(e, l, {"closing"})
  <2>1. Typed(l)
    BY <1>5, TypedFlag
  <2> QED BY <1>5, <2>1 DEF IsCdo, Others, Fields
<1> HIDE DEF i, l
<1>7. Others(cdo, l, F)
  BY <1>5, <1>6 DEF Others
<1>8. Others(cdo, cdo, F)
  BY SelfOthers
<1>9. Follows(cdo, LoseChannel(i))
  BY <1>1, <1>2, <1>4, LostFollows
<1>10. Follows(cdo, LoseChannel(cdo))
  BY <1>1, <1>2, <1>8, LostFollows
<1>11. Follows(cdo, LoseChannel(l))
  BY <1>1, <1>2, <1>6, <1>7, LostFollows
<1> QED BY <1>3, <1>9, <1>10, <1>11

(* A new operation is in order.                                          *)
LEMMA CreatedOrderly ==
  ASSUME NEW needs, NEW observe, NEW handlers, NEW preferred
  PROVE  Orderly(Created(needs, observe, handlers, preferred))
<1> DEFINE s == Created(needs, observe, handlers, preferred)
<1>1. /\ s.result = "none" /\ s.channel /\ ~s.lost_channel /\ s.signals = <<>>
      /\ s.plugins_pending = 0 /\ s.after_observers = "NONE" /\ ~s.leaked
      /\ s.criticals = {} /\ ~s.idle /\ s.trying_handler = None
      /\ ~s.invoked_approvers_if_needed
  BY DEF Created
<1> HIDE DEF s
<1>2. Plain(s) /\ Scheduled(s) /\ Silent(s)
  BY <1>1 DEF Plain, Scheduled, Silent
<1>3. Signalled(s)
  BY <1>1, FirstSignals DEF Signalled
<1> QED BY <1>2, <1>3 DEF Orderly, s

(* A new operation.                                                      *)
LEMMA InitOrderly == Init => Orderly(cdo)
  BY CreatedOrderly DEF Init

(* A callback that does not concern the operation.                       *)
LEMMA SelfFollows ==
  ASSUME NEW s, Orderly(s) PROVE Follows(s, s)
  BY DEF Follows, Grows

(* Every action keeps the order: without plugins, one lemma for each.    *)
LEMMA StepFollows ==
  ASSUME Plugin = {}, BypassApproval = {}, IInv, Orderly(cdo), [Next]_vars
  PROVE  Follows(cdo, cdo')
<1>1. Inv(cdo) /\ Ready(cdo) /\ registry \subseteq Handler /\ Typed(cdo)
  BY DEF IInv, Inv, Ready
<1>2. CASE UNCHANGED vars
  BY <1>2, SelfFollows DEF vars
<1>3. ASSUME NEW observers \in SUBSET Observer, NEW delaying \in SUBSET Plugin,
             NEW now \in BOOLEAN, NEW later \in PluginAction,
             RunClients(observers, delaying, now, later)
      PROVE  Follows(cdo, cdo')
  BY <1>1, <1>3, RunClientsFollows
<1>4. ASSUME NEW o \in Observer, ObserverReturns(o)
      PROVE  Follows(cdo, cdo')
  BY <1>1, <1>4, ObserverReturnsFollows
<1>5. ASSUME NEW approvers \in SUBSET Approver, IdleRunApprovers(approvers)
      PROVE  Follows(cdo, cdo')
  BY <1>1, <1>5, IdleRunApproversFollows
<1>6. ASSUME NEW a \in Approver, NEW accepted \in BOOLEAN, ApproverReturns(a, accepted)
      PROVE  Follows(cdo, cdo')
  BY <1>1, <1>6, ApproverReturnsFollows
<1>7. ASSUME NEW c \in HandleWithCaller, NEW name \in Handler \cup {None, BadName},
             HandleWith(c, name)
      PROVE  Follows(cdo, cdo')
  BY <1>1, <1>7, HandleWithFollows
<1>8. ASSUME NEW c \in ClaimCaller, Claim(c)
      PROVE  Follows(cdo, cdo')
  BY <1>1, <1>8, ClaimFollows
<1>9. ASSUME NEW preferred \in Handler \cup {None}, Approve(preferred)
      PROVE  Follows(cdo, cdo')
  BY <1>1, <1>9, ApproveFollows
<1>10. ASSUME NEW success \in BOOLEAN, HandleChannelsReturns(success)
       PROVE  Follows(cdo, cdo')
  BY <1>1, <1>10, HandleChannelsReturnsFollows
<1>11. ASSUME ChannelInvalidated \/ ConnectionAborted \/ RequestCancelled
       PROVE  Follows(cdo, cdo')
  BY <1>1, <1>11, LosingFollows
<1>12. ASSUME NEW h \in Handler, HandlerVanishes(h) \/ HandlerAppears(h)
       PROVE  Follows(cdo, cdo')
  <2>1. cdo' = cdo
    BY <1>12 DEF HandlerVanishes, HandlerAppears
  <2> QED BY <2>1, SelfFollows
<1>13. ~PluginIsWorking /\ ~(cdo.plugins_pending > 0)
  <2>1. ~(cdo.plugins_pending > 0)
    BY DEF Orderly, Plain
  <2>2. cdo.deciding = {} /\ \A c \in ClaimCaller : cdo.claims[c] = {}
    BY <1>1, TypedFields
  <2> QED BY <2>1, <2>2 DEF PluginIsWorking
<1>14. /\ ~EndPluginDelay /\ ~PluginStartsDelay /\ ~PluginTerminatesNow
       /\ \A action : ~PluginTerminatesLater(action)
  BY <1>13 DEF EndPluginDelay, PluginStartsDelay, PluginTerminatesNow, PluginTerminatesLater
<1> QED BY <1>2, <1>3, <1>4, <1>5, <1>6, <1>7, <1>8, <1>9, <1>10, <1>11, <1>12, <1>14
        DEF Next

(* The inductive invariant of the operations that no plugin works on and *)
(* whose handlers all wait for approval.                                 *)
LEMMA OrderInvariant ==
  ASSUME Plugin = {}, BypassApproval = {}
  PROVE  Spec => [](IInv /\ Orderly(cdo))
<1>1. Init => Orderly(cdo)
  BY InitOrderly
<1>2. IInv /\ Orderly(cdo) /\ [Next]_vars => Orderly(cdo)'
  BY StepFollows DEF Follows
<1> QED BY <1>1, <1>2, InductiveInvariant, PTL DEF Spec

(* The locks of the observers and the approvers count exactly the calls  *)
(* in flight (LocksMatchCalls), for any clients, when no plugin is       *)
(* loaded and no handler bypasses approval: mcd-dispatch-                *)
(* operation.c:325, :345 and the counters that observe_channels_cb and   *)
(* add_dispatch_operation_cb decrement. With plugins two callbacks may   *)
(* be ready at once, and with a bypassing handler the approvers may be   *)
(* called for an operation that is over, and the code reports it.        *)
THEOREM LocksMatch ==
  ASSUME Plugin = {}, BypassApproval = {}
  PROVE  Spec => []LocksMatchCalls
<1>1. IInv /\ Orderly(cdo) => LocksMatchCalls
  <2> SUFFICES ASSUME IInv, Orderly(cdo) PROVE LocksMatchCalls
    OBVIOUS
  <2>1. Ready(cdo) /\ Typed(cdo) /\ registry \subseteq Handler
    BY DEF IInv, Inv, Ready
  <2>2. cdo \in CdoType
    BY <2>1, TypedIsType
  <2>3. cdo.ado_pending = Cardinality(cdo.adding)
    BY <2>1 DEF Ready, Fate, Always, Orderly, Plain
  <2> QED BY <2>1, <2>2, <2>3 DEF LocksMatchCalls, TypeOK, Ready, ObserverLocks
<1> QED BY <1>1, OrderInvariant, PTL

(* None of the assertions and criticals on the lock of the approvers     *)
(* fires (mcd-dispatch-operation.c:325 to :350), and approval_free never *)
(* finds a call unanswered (:148), under the same two assumptions        *)
(* (AssertionsHold).                                                     *)
THEOREM AssertionsNeverFail ==
  ASSUME Plugin = {}, BypassApproval = {}
  PROVE  Spec => []AssertionsHold
<1>1. IInv /\ Orderly(cdo) => AssertionsHold
  <2> SUFFICES ASSUME IInv, Orderly(cdo) PROVE AssertionsHold
    OBVIOUS
  <2>1. Ready(cdo) /\ Typed(cdo) /\ QueueInv(cdo)
    BY DEF IInv, Inv, Ready
  <2>2. cdo.criticals \cap {"inc_ado_pending", "dec_ado_pending"} = {}
    BY DEF Orderly, Plain, Misuse
  <2>3. ASSUME ~Alive(cdo), NEW c \in Caller, cdo.reply[c] = "waiting"
        PROVE  FALSE
    <3>1. ~Pending(cdo, c)
      BY <2>3 DEF Pending, Alive
    <3>2. PICK i \in DOMAIN cdo.approvals : cdo.approvals[i].caller = c
      BY <2>1, <2>3, <3>1 DEF QueueInv, Queued
    <3>3. cdo.approvals[i] \in Entries(cdo) /\ cdo.approvals[i].caller # None
      BY <3>2, CallerNotNone DEF Entries
    <3>4. cdo.result = "none"
      BY <3>3 DEF Orderly, Silent
    <3>5. cdo.signals = <<>>
      BY <3>4 DEF Orderly, Signalled
    <3>6. ~cdo.needs_approval
      BY <2>3, <3>5 DEF Alive
    <3>7. cdo.approvals[i].type = "REQUESTED"
      BY <2>1, <3>3, <3>4, <3>6 DEF Ready, Fate, Open, Requested
    <3> QED BY <2>1, <3>3, <3>7 DEF Ready, Fate, Always
  <2> QED BY <2>2, <2>3 DEF AssertionsHold
<1> QED BY <1>1, OrderInvariant, PTL

(* ChannelLost and Finished are emitted at most once each, in this       *)
(* order, and only when no observer or approver is being called          *)
(* (QuietSignals; _mcd_dispatch_operation_check_finished), under the     *)
(* same two assumptions.                                                 *)
THEOREM SignalsAreQuiet ==
  ASSUME Plugin = {}, BypassApproval = {}
  PROVE  Spec => QuietSignals
<1>1. IInv /\ Orderly(cdo) /\ [Next]_vars =>
        [cdo'.signals # cdo.signals =>
           /\ cdo'.observing = {} /\ cdo'.adding = {}
           /\ cdo'.signals \in {<<"ChannelLost">>, <<"Finished">>, <<"ChannelLost", "Finished">>}]_vars
  <2> SUFFICES ASSUME IInv, Orderly(cdo), [Next]_vars, cdo'.signals # cdo.signals
               PROVE  /\ cdo'.observing = {} /\ cdo'.adding = {}
                      /\ cdo'.signals \in {<<"ChannelLost">>, <<"Finished">>,
                                           <<"ChannelLost", "Finished">>}
    OBVIOUS
  <2>1. Ready(cdo') /\ Orderly(cdo') /\ Grows(cdo, cdo')
    BY StepMoves, StepFollows DEF Moves, Follows
  <2>2. cdo'.signals # <<>>
    BY <2>1 DEF Grows
  <2>3. MaySignalFinished(cdo')
    BY <2>1, <2>2 DEF Orderly, Signalled
  <2>4. cdo'.observing = {} /\ cdo'.adding = {}
    BY <2>1, <2>3, NobodyHolds
  <2> QED BY <2>1, <2>2, <2>4 DEF Orderly, Signalled
<1> QED BY <1>1, OrderInvariant, PTL DEF Spec, QuietSignals


---------------------------------------------------------------------------
(* The refinement of ChannelDispatch.                                    *)

(* The queue as its callers see it: a Claim is of a caller of Claim, a   *)
(* HandleWith of one of HandleWith and for the handler it asked for, and *)
(* there is one HandleWith at most, since dispatch_operation_handle_with *)
(* refuses to join a queue that is not empty.                            *)
Proper(q, asked) ==
  \A i \in DOMAIN q :
    /\ q[i].type = "CLAIM" => q[i].caller \in ClaimCaller
    /\ q[i].type = "HANDLE_WITH" =>
         /\ q[i].caller \in HandleWithCaller
         /\ q[i].client_bus_name = asked[q[i].caller]
         /\ \A j \in DOMAIN q : q[j].type = "HANDLE_WITH" => j = i

(* What the promise needs to know beyond the inductive invariant: no     *)
(* plugin delays or terminates the operation; the handler is recorded as *)
(* successful together with the result; Mission Control's own channels   *)
(* are not offered to approvers; and the queue is proper.                *)
Faithful(s) ==
  /\ s.plugins_pending = 0 /\ s.after_observers = "NONE"
  /\ s.result = "none" => s.successful_handler = None
  /\ IsInternal(s) => ~s.needs_approval
  /\ Proper(s.approvals, s.asked)

(* A HandleWith at the head of the queue is acted upon by                *)
(* check_client_locks, unless something locks the operation.             *)
Patient(s) ==
  HeadIs(s, "HANDLE_WITH") /\ s.invoked_observers_if_needed => Locked(s)

(* MC has closed the channel, or lost it.                                *)
Closed(s) == s.closing \/ ~s.channel

(* The promise does not see the step.                                    *)
Stays(s, t) ==
  /\ t.handled_by = s.handled_by /\ t.asked = s.asked
  /\ t.result = "none" <=> s.result = "none"
  /\ Closed(t) <=> Closed(s)
  /\ \A c \in Caller : t.reply[c] = s.reply[c]

(* KeepInternal: the channel of MC's own request is MC's.                *)
Retains(s, t) ==
  /\ s.handled_by = None /\ t.handled_by = Internal
  /\ s.result = "none" /\ t.result = "none"
  /\ t.asked = s.asked
  /\ Closed(t) <=> Closed(s)
  /\ \A c \in Caller : t.reply[c] = s.reply[c]

(* Refuse: the calls of some who wait are answered with an error.        *)
Denies(s, t, cs) ==
  /\ \A c \in cs : c \in HandleWithCaller /\ s.reply[c] = "waiting"
  /\ t.handled_by = s.handled_by /\ t.asked = s.asked
  /\ t.result = "none" <=> s.result = "none"
  /\ Closed(t) <=> Closed(s)
  /\ \A c \in Caller : t.reply[c] = IF c \in cs THEN "error" ELSE s.reply[c]

(* Who gets what it called for when taker takes the channel.             *)
Wins(s, c, taker) ==
  IF c \in ClaimCaller THEN c = taker
  ELSE taker \in Handler /\ s.asked[c] \in {None, taker}

(* Decide: taker takes the channel, or nobody does and it is closed, and *)
(* everybody who waits is told.                                          *)
Settles(s, t, taker) ==
  /\ s.result = "none" /\ t.result # "none"
  /\ t.asked = s.asked
  /\ t.handled_by \in IF s.handled_by # None THEN {s.handled_by}
                      ELSE IF taker \in ClaimCaller THEN {taker} ELSE {None, taker}
  /\ t.handled_by = None => Closed(t)
  /\ \A c \in Caller :
       t.reply[c] = IF s.reply[c] = "waiting"
                    THEN IF Wins(s, c, taker) THEN "ok" ELSE "error"
                    ELSE s.reply[c]

(* Close: the channel of an operation that is over is closed.            *)
Shuts(s, t) ==
  /\ s.result # "none" /\ t.result # "none"
  /\ ~Closed(s) /\ Closed(t)
  /\ t.handled_by = s.handled_by /\ t.asked = s.asked
  /\ \A c \in Caller : t.reply[c] = s.reply[c]

(* What the check of the client locks comes to.                          *)
Goes(s, t) ==
  \/ Stays(s, t)
  \/ Retains(s, t)
  \/ HeadIs(s, "HANDLE_WITH") /\ ~Locked(s) /\ Denies(s, t, {Head0(s).caller})
  \/ \E taker \in ClaimCaller \cup {None} : Settles(s, t, taker)

(* The fields the promise is about.                                      *)
Seen == {"handled_by", "asked", "result", "closing", "channel", "reply"}

(* The fields of Faithful.                                               *)
FaithfulOn ==
  {"plugins_pending", "after_observers", "result", "successful_handler", "needs_approval",
   "possible_handlers", "approvals", "asked"}

(* A step that writes none of those fields is not seen.                  *)
LEMMA OthersStay ==
  ASSUME NEW s, NEW t, NEW F, Others(s, t, F), F \cap Seen = {}
  PROVE  Stays(s, t)
<1>1. /\ t.handled_by = s.handled_by /\ t.asked = s.asked /\ t.result = s.result
      /\ t.closing = s.closing /\ t.channel = s.channel /\ t.reply = s.reply
  BY FieldNames DEF Others, Seen
<1> QED BY <1>1 DEF Stays, Closed

(* Nor does one that writes none of Faithful's fields disturb Faithful.  *)
LEMMA OthersFaithful ==
  ASSUME NEW s, NEW t, NEW F, Others(s, t, F), F \cap FaithfulOn = {}, Faithful(s)
  PROVE  Faithful(t)
<1>1. /\ t.plugins_pending = s.plugins_pending /\ t.after_observers = s.after_observers
      /\ t.result = s.result /\ t.successful_handler = s.successful_handler
      /\ t.needs_approval = s.needs_approval /\ t.possible_handlers = s.possible_handlers
      /\ t.approvals = s.approvals /\ t.asked = s.asked
  BY FieldNames DEF Others, FaithfulOn
<1> QED BY <1>1 DEF Faithful, IsInternal

(* Two unseen steps are one.                                             *)
LEMMA StaysTrans ==
  ASSUME NEW s, NEW t, NEW u, Stays(s, t), Stays(t, u) PROVE Stays(s, u)
  BY DEF Stays

(* A decision after an unseen step is a decision.                        *)
LEMMA StaysSettles ==
  ASSUME NEW s, NEW t, NEW u, NEW taker, Stays(s, t), Settles(t, u, taker)
  PROVE  Settles(s, u, taker)
  BY DEF Stays, Settles, Wins

(* So is whatever the check of the client locks comes to, if the queue   *)
(* and the locks are the same.                                           *)
LEMMA StaysGoes ==
  ASSUME NEW s, NEW t, NEW u, Stays(s, t), Goes(t, u),
         t.approvals = s.approvals, Locked(t) <=> Locked(s)
  PROVE  Goes(s, u)
<1>1. CASE Stays(t, u)
  BY <1>1, StaysTrans DEF Goes
<1>2. CASE Retains(t, u)
  BY <1>2 DEF Goes, Stays, Retains
<1>3. CASE HeadIs(t, "HANDLE_WITH") /\ ~Locked(t) /\ Denies(t, u, {Head0(t).caller})
  <2>1. HeadIs(s, "HANDLE_WITH") /\ ~Locked(s) /\ Head0(t) = Head0(s)
    BY <1>3 DEF HeadIs, Head0
  <2>2. Denies(s, u, {Head0(s).caller})
    <3> DEFINE cs == {Head0(s).caller}
    <3>1. Denies(t, u, cs)
      BY <1>3, <2>1
    <3> HIDE DEF cs
    <3>2. \A c \in cs : c \in Caller
      BY <3>1 DEF Denies, Caller
    <3>3. Denies(s, u, cs)
      BY <3>1, <3>2 DEF Stays, Denies
    <3> QED BY <3>3 DEF cs
  <2> QED BY <2>1, <2>2 DEF Goes
<1>4. CASE \E taker \in ClaimCaller \cup {None} : Settles(t, u, taker)
  BY <1>4, StaysSettles DEF Goes
<1> QED BY <1>1, <1>2, <1>3, <1>4 DEF Goes

(* Nothing happens.                                                      *)
LEMMA StaysSelf ==
  ASSUME NEW s PROVE Stays(s, s)
  BY DEF Stays

(* When the head of a proper queue is taken out, the rest is proper, and *)
(* has no HandleWith if the head was one.                                *)
LEMMA ProperTail ==
  ASSUME NEW q \in Seq(Approval), q # <<>>, NEW asked, Proper(q, asked)
  PROVE  /\ Proper(Tail(q), asked)
         /\ q[1].type = "HANDLE_WITH" => \A i \in DOMAIN Tail(q) : Tail(q)[i].type # "HANDLE_WITH"
<1> DEFINE p == Tail(q)
<1>1. /\ DOMAIN p = 1 .. Len(q) - 1 /\ DOMAIN q = 1 .. Len(q) /\ Len(q) \in Nat /\ Len(q) # 0
      /\ \A i \in DOMAIN p : i + 1 \in DOMAIN q /\ i + 1 # 1 /\ p[i] = q[i + 1]
  OBVIOUS
<1>2. 1 \in DOMAIN q
  BY <1>1
<1> HIDE DEF p
<1>3. Proper(p, asked)
  <2> SUFFICES ASSUME NEW i \in DOMAIN p
               PROVE  /\ p[i].type = "CLAIM" => p[i].caller \in ClaimCaller
                      /\ p[i].type = "HANDLE_WITH" =>
                           /\ p[i].caller \in HandleWithCaller
                           /\ p[i].client_bus_name = asked[p[i].caller]
                           /\ \A j \in DOMAIN p : p[j].type = "HANDLE_WITH" => j = i
    BY DEF Proper
  <2>1. i + 1 \in DOMAIN q /\ p[i] = q[i + 1]
    BY <1>1
  <2>2. \A j \in DOMAIN p : q[j + 1].type = "HANDLE_WITH" /\ q[i + 1].type = "HANDLE_WITH" => j + 1 = i + 1
    BY <1>1, <2>1 DEF Proper
  <2>3. \A j \in DOMAIN p : j + 1 = i + 1 => j = i
    BY <1>1
  <2> QED BY <1>1, <2>1, <2>2, <2>3 DEF Proper
<1>4. q[1].type = "HANDLE_WITH" => \A i \in DOMAIN p : p[i].type # "HANDLE_WITH"
  BY <1>1, <1>2 DEF Proper
<1> QED BY <1>3, <1>4 DEF p

(* Nobody waits.                                                         *)
LEMMA ProperEmpty ==
  ASSUME NEW asked PROVE Proper(<<>>, asked)
  BY DEF Proper

(* An entry joins: a HandleWith only an empty queue.                     *)
LEMMA ProperAppend ==
  ASSUME NEW q \in Seq(Approval), NEW a \in Approval, NEW asked, Proper(q, asked),
         a.type = "CLAIM" => a.caller \in ClaimCaller,
         a.type = "HANDLE_WITH" =>
           /\ q = <<>> /\ a.caller \in HandleWithCaller /\ a.client_bus_name = asked[a.caller]
  PROVE  Proper(Append(q, a), asked)
<1> DEFINE p == Append(q, a)
           n == Len(q) + 1
<1>1. /\ DOMAIN p = 1 .. n /\ DOMAIN q = 1 .. Len(q) /\ Len(q) \in Nat
      /\ p[n] = a /\ \A i \in DOMAIN q : i \in DOMAIN p /\ p[i] = q[i]
  OBVIOUS
<1>2. \A i \in DOMAIN p : i = n \/ i \in DOMAIN q
  BY <1>1
<1>3. q = <<>> => DOMAIN q = {}
  OBVIOUS
<1>4. q # <<>> => a.type # "HANDLE_WITH"
  OBVIOUS
<1> HIDE DEF p, n
<1> SUFFICES ASSUME NEW i \in DOMAIN p
             PROVE  /\ p[i].type = "CLAIM" => p[i].caller \in ClaimCaller
                    /\ p[i].type = "HANDLE_WITH" =>
                         /\ p[i].caller \in HandleWithCaller
                         /\ p[i].client_bus_name = asked[p[i].caller]
                         /\ \A j \in DOMAIN p : p[j].type = "HANDLE_WITH" => j = i
  BY DEF Proper, p
<1>5. CASE i = n
  BY <1>1, <1>2, <1>3, <1>5
<1>6. CASE i \in DOMAIN q
  BY <1>1, <1>2, <1>3, <1>6 DEF Proper
<1> QED BY <1>2, <1>5, <1>6

(* Entries are taken out.                                                *)
LEMMA ProperWithout ==
  ASSUME NEW q \in Seq(Approval), NEW gone, NEW asked, Proper(q, asked)
  PROVE  Proper(Without(q, gone), asked)
<1> DEFINE p == Without(q, gone)
<1>1. /\ \A n \in DOMAIN p : \E i \in DOMAIN q \ gone : p[n] = q[i]
      /\ \A n, m \in DOMAIN p : n # m =>
           \E i, j \in DOMAIN q \ gone : i # j /\ p[n] = q[i] /\ p[m] = q[j]
  BY WithoutSome
<1> HIDE DEF p
<1> SUFFICES ASSUME NEW n \in DOMAIN p
             PROVE  /\ p[n].type = "CLAIM" => p[n].caller \in ClaimCaller
                    /\ p[n].type = "HANDLE_WITH" =>
                         /\ p[n].caller \in HandleWithCaller
                         /\ p[n].client_bus_name = asked[p[n].caller]
                         /\ \A j \in DOMAIN p : p[j].type = "HANDLE_WITH" => j = n
  BY DEF Proper, p
<1>2. PICK i \in DOMAIN q \ gone : p[n] = q[i]
  BY <1>1
<1>3. ASSUME p[n].type = "HANDLE_WITH", NEW m \in DOMAIN p, p[m].type = "HANDLE_WITH", m # n
      PROVE  FALSE
  <2>1. PICK k \in DOMAIN q \ gone, j \in DOMAIN q \ gone : k # j /\ p[n] = q[k] /\ p[m] = q[j]
    BY <1>1, <1>3
  <2> QED BY <1>3, <2>1 DEF Proper
<1> QED BY <1>2, <1>3 DEF Proper

(* A step of an internal function leaves the queue proper, if it takes   *)
(* no more than the head from it.                                        *)
LEMMA FixedFaithful ==
  ASSUME NEW s, NEW t, Typed(s), Faithful(s), Fixed(s, t),
         \/ t.approvals = s.approvals
         \/ t.approvals = <<>>
         \/ s.approvals # <<>> /\ t.approvals = Tail(s.approvals),
         t.result = "none" => s.result = "none"
  PROVE  Faithful(t)
<1>1. /\ t.plugins_pending = s.plugins_pending /\ t.after_observers = s.after_observers
      /\ t.successful_handler = s.successful_handler /\ t.needs_approval = s.needs_approval
      /\ t.possible_handlers = s.possible_handlers /\ t.asked = s.asked
  BY DEF Fixed
<1>2. Proper(t.approvals, t.asked)
  <2>1. s.approvals \in Seq(Approval)
    BY TypedFields
  <2> QED BY <1>1, <2>1, ProperTail, ProperEmpty DEF Faithful
<1> QED BY <1>1, <1>2 DEF Faithful, IsInternal

(* The replies that finish gives.                                        *)
LEMMA FinishReplies ==
  ASSUME NEW s, Typed(s), s.result = "none", NEW r \in {"NotYours", "Lost", "Failed"}
  PROVE  /\ Finish(s, r).reply = ReplyToQueue([s EXCEPT !.result = r]).reply
         /\ Finish(s, r).asked = s.asked
<1> DEFINE u == [s EXCEPT !.result = r]
           f == ReplyToQueue(u)
           t == Finish(s, r)
<1>1. t \in {f, ActuallyFinish(f)}
  BY DEF Finish
<1>2. Fixed(s, t)
  BY TypedIsCdo, FixedFinish
<1>3. IsCdo(u)
  BY TypedIsCdo DEF IsCdo
<1> HIDE DEF u
<1>4. IsCdo(f)
  BY <1>3, FixedReplyToQueue, FixedIsCdo
<1> HIDE DEF f
<1>5. Wound(f, t)
  BY <1>1, <1>4, WoundActuallyFinish, WoundSelf
<1> HIDE DEF t
<1>6. t.reply = f.reply /\ t.asked = s.asked
  BY <1>2, <1>5 DEF Wound, Fixed
<1> QED BY <1>6 DEF t, f, u

(* Everybody in the queue is answered according to the handler that took *)
(* the channel, which a caller of Claim is not.                          *)
LEMMA QueueIsTold ==
  ASSUME Plugin = {}, NEW s, Typed(s), QueueInv(s), Always(s), Proper(s.approvals, s.asked),
         NEW c \in Caller, NEW r
  PROVE  ReplyToQueue([s EXCEPT !.result = r]).reply[c] =
           IF s.reply[c] = "waiting"
           THEN IF Wins(s, c, s.successful_handler) THEN "ok" ELSE "error"
           ELSE s.reply[c]
<1> DEFINE u == [s EXCEPT !.result = r]
           Q == QueuedCalls(u)
           ans(d) == FinalReply(u, CHOOSE a \in Q : a.caller = d)
           v == [d \in Caller |-> IF \E a \in Q : a.caller = d THEN ans(d) ELSE u.reply[d]]
           q == <<>>
           w == [u EXCEPT !.approvals = q, !.reply = v]
<1>1. ReplyToQueue(u) = w
  BY DEF ReplyToQueue
<1>2. /\ IsCdo(u) /\ u.approvals = s.approvals /\ u.reply = s.reply
      /\ u.successful_handler = s.successful_handler
  BY TypedIsCdo DEF IsCdo, Fields
<1>3. Q = {a \in Entries(s) : a.caller # None}
  <2> HIDE DEF u
  <2> QED BY <1>2 DEF QueuedCalls, Entries
<1> HIDE DEF u, Q
<1>4. v[c] = IF \E a \in Q : a.caller = c THEN ans(c) ELSE s.reply[c]
  BY <1>2
<1> HIDE DEF v, q
<1>5. w.reply = v
  BY <1>2 DEF IsCdo, Fields
<1> HIDE DEF w
<1>6. c # None
  BY CallerNotNone
<1>7. s.claims \in [ClaimCaller -> SUBSET {}]
  BY TypedFields
<1>8. ~Pending(s, c)
  BY <1>7 DEF Pending
<1>9. (\E a \in Q : a.caller = c) <=> s.reply[c] = "waiting"
  BY <1>3, <1>6, <1>8 DEF Entries, QueueInv, Queued
<1>10. CASE s.reply[c] # "waiting"
  BY <1>1, <1>4, <1>5, <1>9, <1>10 DEF u
<1>11. CASE s.reply[c] = "waiting"
  <2> DEFINE a == CHOOSE b \in Q : b.caller = c
  <2>1. a \in Q /\ a.caller = c
    BY <1>9, <1>11
  <2>2. ans(c) = FinalReply(u, a)
    OBVIOUS
  <2> HIDE DEF a, ans
  <2>3. a \in Entries(s)
    BY <1>3, <2>1
  <2>4. /\ a.type \in {"CLAIM", "HANDLE_WITH"}
        /\ a.type = "CLAIM" => c \in ClaimCaller /\ a.client_bus_name = None
        /\ a.type = "HANDLE_WITH" => c \in HandleWithCaller /\ a.client_bus_name = s.asked[c]
    BY <1>6, <2>1, <2>3 DEF Always, Entries, Proper
  <2>5. ans(c) = IF a.type = "HANDLE_WITH" /\ s.successful_handler # None
                    /\ a.client_bus_name \in {None, s.successful_handler}
                 THEN "ok" ELSE "error"
    BY <1>2, <2>2 DEF FinalReply
  <2>6. s.successful_handler \in Handler \cup {None}
    BY TypedFields
  <2>7. ans(c) = IF Wins(s, c, s.successful_handler) THEN "ok" ELSE "error"
    <3>1. CASE a.type = "CLAIM"
      <4>1. c # s.successful_handler
        BY <1>6, <2>6, NamesAssumption
      <4> QED BY <2>4, <2>5, <3>1, <4>1 DEF Wins
    <3>2. CASE a.type = "HANDLE_WITH"
      <4>1. c \notin ClaimCaller /\ a.client_bus_name = s.asked[c]
        BY <2>4, <3>2, NamesAssumption
      <4>2. s.successful_handler # None <=> s.successful_handler \in Handler
        BY <2>6, NamesAssumption
      <4> QED BY <2>5, <3>2, <4>1, <4>2 DEF Wins
    <3> QED BY <2>4, <3>1, <3>2
  <2> QED BY <1>1, <1>4, <1>5, <1>9, <1>11, <2>7 DEF u
<1> QED BY <1>10, <1>11

(* finish, of an operation whose channel has an owner, is closed or is   *)
(* gone, whatever the caller writes afterwards about the channel.        *)
LEMMA FinishSettles ==
  ASSUME Plugin = {}, NEW s, Typed(s), QueueInv(s), Always(s),
         Proper(s.approvals, s.asked), s.result = "none",
         NEW r \in {"NotYours", "Lost", "Failed"}, NEW t,
         t.result = Finish(s, r).result, t.handled_by = Finish(s, r).handled_by,
         t.asked = Finish(s, r).asked, t.reply = Finish(s, r).reply,
         t.handled_by = None => Closed(t),
         NEW b, b.result = "none", b.asked = s.asked, b.reply = s.reply,
         b.handled_by # None => s.handled_by = b.handled_by,
         b.handled_by = None => s.handled_by \in {None, s.successful_handler}
  PROVE  Settles(b, t, s.successful_handler)
<1> DEFINE k == s.successful_handler
<1>1. t.result # "none" /\ t.handled_by = s.handled_by
  BY FinishFields
<1>2. t.asked = s.asked /\ t.reply = ReplyToQueue([s EXCEPT !.result = r]).reply
  BY FinishReplies
<1>3. \A c \in Caller :
        ReplyToQueue([s EXCEPT !.result = r]).reply[c] =
          IF s.reply[c] = "waiting"
          THEN IF Wins(s, c, s.successful_handler) THEN "ok" ELSE "error" ELSE s.reply[c]
  BY QueueIsTold
<1>4. \A c \in Caller :
        t.reply[c] = IF s.reply[c] = "waiting"
                     THEN IF Wins(s, c, k) THEN "ok" ELSE "error" ELSE s.reply[c]
  <2> DEFINE v == ReplyToQueue([s EXCEPT !.result = r]).reply
  <2>1. t.reply = v
    BY <1>2
  <2>2. \A c \in Caller :
          v[c] = IF s.reply[c] = "waiting"
                 THEN IF Wins(s, c, k) THEN "ok" ELSE "error" ELSE s.reply[c]
    BY <1>3
  <2> HIDE DEF v
  <2> QED BY <2>1, <2>2
<1>5. k \in Handler \cup {None}
  BY TypedFields
<1>6. k \notin ClaimCaller
  BY <1>5, NamesAssumption DEF Caller
<1>7. b.handled_by = None => s.handled_by \in {None, k}
  OBVIOUS
<1> HIDE DEF k
<1>8. \A c : Wins(b, c, k) <=> Wins(s, c, k)
  BY DEF Wins
<1>9. Settles(b, t, k)
  BY <1>1, <1>2, <1>4, <1>6, <1>7, <1>8 DEF Settles
<1> QED BY <1>9 DEF k

(* _mcd_dispatch_operation_close_as_undispatchable                       *)
LEMMA CloseAsUndispatchableSettles ==
  ASSUME Plugin = {}, NEW s, Typed(s), QueueInv(s), Always(s), Faithful(s),
         s.result = "none"
  PROVE  LET t == CloseAsUndispatchable(s)
         IN Settles(s, t, None) /\ Faithful(t)
<1> DEFINE f == Finish(s, "Failed")
           t == CloseAsUndispatchable(s)
           u == [f EXCEPT !.error = "OTHER", !.status = "FAILED"]
           w == [u EXCEPT !.closing = TRUE]
<1>1. IsCdo(f) /\ Fixed(s, t) /\ IsCdo(t)
  BY TypedIsCdo, FixedFinish, FixedCloseAsUndispatchable, FixedIsCdo
<1>2. t \in {f, w}
  BY DEF CloseAsUndispatchable, TakeError
<1>3. Closed(t)
  BY CloseAsUndispatchableEnds DEF Closed
<1>4. f.result # "none" /\ f.approvals = <<>> /\ f.handled_by = s.handled_by
  BY FinishFields
<1> HIDE DEF f, t
<1>5. IsCdo(u) /\ Others(f, u, {"error", "status"})
  BY <1>1 DEF IsCdo, Others, Fields
<1> HIDE DEF u
<1>6. Others(u, w, {"closing"})
  BY <1>5 DEF IsCdo, Others, Fields
<1> HIDE DEF w
<1>7. /\ w.result = f.result /\ w.handled_by = f.handled_by /\ w.asked = f.asked
      /\ w.reply = f.reply /\ w.approvals = f.approvals
  BY <1>5, <1>6, FieldNames DEF Others
<1>8. /\ t.result = f.result /\ t.handled_by = f.handled_by /\ t.asked = f.asked
      /\ t.reply = f.reply /\ t.approvals = f.approvals
  BY <1>2, <1>7
<1>9. s.successful_handler = None /\ Proper(s.approvals, s.asked)
  BY DEF Faithful
<1>10. Settles(s, t, s.successful_handler)
  <2>1. /\ t.result = Finish(s, "Failed").result /\ t.handled_by = Finish(s, "Failed").handled_by
        /\ t.asked = Finish(s, "Failed").asked /\ t.reply = Finish(s, "Failed").reply
    BY <1>8 DEF f
  <2> QED BY <1>3, <1>9, <2>1, FinishSettles, Z3
<1>11. Faithful(t)
  BY <1>1, <1>4, <1>8, FixedFaithful
<1> QED BY <1>9, <1>10, <1>11 DEF t

(* A Claim at the head of the queue is accepted.                         *)
LEMMA AcceptClaimSettles ==
  ASSUME Plugin = {}, NEW s, Typed(s), QueueInv(s), Fate(s), Faithful(s), HeadIs(s, "CLAIM"),
         s.result = "none", ~IsInternal(s), NEW fresh \in BOOLEAN
  PROVE  LET t == AcceptClaim(s, fresh)
         IN Settles(s, t, Head0(s).caller) /\ Head0(s).caller \in ClaimCaller /\ Faithful(t)
<1> DEFINE caller == Head0(s).caller
           q == Tail(s.approvals)
           v == [s.reply EXCEPT ![caller] = "ok"]
           p == [s EXCEPT !.approvals = q, !.reply = v]
           h == SetChannelHandledBy(p, caller)
           f == Finish(h, "NotYours")
           w == f.idle /\ ~fresh
           u == [f EXCEPT !.idle = w]
           t == AcceptClaim(s, fresh)
<1>1. /\ s.approvals # <<>> /\ Head0(s).type = "CLAIM" /\ s.approvals \in Seq(Approval)
      /\ s.reply \in [Caller -> {"uncalled", "waiting", "ok", "error"}]
  BY TypedFields DEF HeadIs
<1>2. caller \in ClaimCaller /\ caller \in Caller
  <2>1. 1 \in DOMAIN s.approvals
    BY <1>1
  <2>2. caller \in ClaimCaller
    BY <1>1, <2>1 DEF Faithful, Proper, Head0
  <2> QED BY <2>2 DEF Caller
<1>3. Typed(p)
  BY <1>1, TypedAnswerHead
<1>4. KeepsQueue(s, p)
  BY <1>1, AnswerHeadKeeps
<1>5. Others(s, p, {"approvals", "reply"}) /\ p.approvals = q /\ p.reply = v
  <2> HIDE DEF q, v
  <2> QED BY TypedIsCdo DEF IsCdo, Others, Fields
<1>6. \A c \in Caller : v[c] = IF c = caller THEN "ok" ELSE s.reply[c]
  BY <1>1
<1>7. Proper(q, s.asked)
  BY <1>1, ProperTail DEF Faithful
<1>8. s.reply[caller] = "waiting"
  <2>1. 1 \in DOMAIN s.approvals /\ caller # None
    BY <1>1, <1>2, CallerNotNone
  <2> QED BY <2>1 DEF QueueInv, Head0
<1>9. s.channel /\ s.handled_by = None /\ s.successful_handler = None
  BY DEF Fate, Open, Faithful
<1>10. t = [IF p.channel THEN f ELSE Finish(p, "NotYours") EXCEPT !.idle = @ /\ ~fresh]
  <2>1. p = [s EXCEPT !.approvals = Tail(@), !.reply[caller] = "ok"]
    BY TypedIsCdo DEF IsCdo, Fields
  <2> HIDE DEF p
  <2> QED BY <2>1 DEF AcceptClaim
<1>11. Entries(p) \subseteq Entries(s)
  BY <1>1, <1>5, TailEntries
<1> HIDE DEF p, t, v
<1>12. p.channel /\ p.asked = s.asked /\ p.successful_handler = None /\ p.result = "none"
  BY <1>5, <1>9, FieldNames DEF Others
<1>13. Typed(h) /\ h.handled_by = caller
  <2>1. Typed(h)
    BY <1>2, <1>3, TypedSetChannelHandledBy
  <2> DEFINE st == IF p.status = "FAILED" THEN p.status ELSE "DISPATCHED"
             g == [p EXCEPT !.handled_by = caller, !.status = st]
  <2>2. h = g
    BY <1>3, TypedIsCdo DEF SetChannelHandledBy, IsCdo, Fields
  <2> HIDE DEF st, h
  <2>3. g.handled_by = caller
    BY <1>3, TypedIsCdo DEF IsCdo, Fields
  <2> QED BY <2>1, <2>2, <2>3
<1>14. Others(p, h, {"handled_by", "status"})
  BY <1>3, TypedIsCdo, HandledByShape
<1>15. KeepsQueue(p, h)
  BY <1>3, <1>4, SetChannelHandledByKeeps DEF KeepsQueue
<1> HIDE DEF h
<1>16. /\ h.approvals = q /\ h.reply = v /\ h.asked = s.asked /\ h.successful_handler = None
       /\ h.result = "none"
  BY <1>5, <1>12, <1>14, FieldNames DEF Others
<1>17. Always(h)
  <2>1. Entries(h) \subseteq Entries(s)
    BY <1>5, <1>11, <1>16 DEF Entries
  <2>2. Others(s, h, {"approvals", "reply", "handled_by", "status"})
    BY <1>5, <1>14 DEF Others
  <2>3. /\ h.trying_handler = s.trying_handler /\ h.handling = s.handling
        /\ h.deciding = s.deciding /\ h.idle = s.idle /\ h.adding = s.adding
        /\ h.tried_handlers_before_approval = s.tried_handlers_before_approval
        /\ h.criticals = s.criticals /\ h.ado_pending = s.ado_pending
        /\ h.possible_handlers = s.possible_handlers
    BY <2>2, FieldNames DEF Others
  <2> QED BY <2>1, <2>3 DEF Fate, Always, IsInternal
<1>18. /\ f.result # "none" /\ f.handled_by = caller /\ f.approvals = <<>>
       /\ f.asked = s.asked
       /\ \A c \in Caller :
            f.reply[c] = IF h.reply[c] = "waiting"
                         THEN IF Wins(h, c, None) THEN "ok" ELSE "error"
                         ELSE h.reply[c]
  <2>1. Proper(h.approvals, h.asked) /\ QueueInv(h)
    BY <1>7, <1>15, <1>16 DEF KeepsQueue
  <2>2. \A c \in Caller :
          ReplyToQueue([h EXCEPT !.result = "NotYours"]).reply[c] =
            IF h.reply[c] = "waiting"
            THEN IF Wins(h, c, h.successful_handler) THEN "ok" ELSE "error"
            ELSE h.reply[c]
    BY <1>13, <1>17, <2>1, QueueIsTold
  <2>3. /\ f.reply = ReplyToQueue([h EXCEPT !.result = "NotYours"]).reply
        /\ f.asked = h.asked
    BY <1>13, <1>16, FinishReplies
  <2>4. f.result # "none" /\ f.handled_by = h.handled_by /\ f.approvals = <<>>
    BY <1>13, <1>16, FinishFields
  <2> HIDE DEF f
  <2> QED BY <1>13, <1>16, <2>2, <2>3, <2>4
<1>19. IsCdo(f)
  BY <1>13, TypedFinish, TypedIsCdo
<1> HIDE DEF f
<1>20. t = u
  BY <1>10, <1>12, <1>19 DEF IsCdo, Fields
<1> HIDE DEF w
<1>21. Others(f, u, {"idle"})
  BY <1>19 DEF IsCdo, Others, Fields
<1> HIDE DEF u
<1>22. /\ u.result # "none" /\ u.handled_by = caller /\ u.approvals = <<>>
       /\ u.asked = s.asked /\ u.reply = f.reply
  BY <1>18, <1>21, FieldNames DEF Others
<1>23. \A c \in Caller :
         u.reply[c] = IF s.reply[c] = "waiting"
                      THEN IF Wins(s, c, caller) THEN "ok" ELSE "error"
                      ELSE s.reply[c]
  <2> SUFFICES ASSUME NEW c \in Caller
               PROVE  f.reply[c] = IF s.reply[c] = "waiting"
                                   THEN IF Wins(s, c, caller) THEN "ok" ELSE "error"
                                   ELSE s.reply[c]
    BY <1>22
  <2>1. ~Wins(h, c, None) /\ (Wins(s, c, caller) <=> c = caller)
    <3>1. caller \notin Handler /\ None \notin Handler /\ c # None
      BY <1>2, NamesAssumption
    <3>2. caller \in ClaimCaller
      BY <1>2
    <3> HIDE DEF caller
    <3> QED BY <3>1, <3>2 DEF Wins
  <2>2. h.reply[c] = IF c = caller THEN "ok" ELSE s.reply[c]
    BY <1>6, <1>16
  <2> HIDE DEF caller
  <2> QED BY <1>8, <1>18, <2>1, <2>2 DEF caller
<1> HIDE DEF caller
<1>24. Settles(s, u, caller)
  <2>1. caller # None
    BY <1>2, CallerNotNone
  <2> QED BY <1>2, <1>9, <1>22, <1>23, <2>1 DEF Settles
<1>25. Faithful(u)
  <2>1. Fixed(s, u)
    BY <1>20, TypedIsCdo, FixedAcceptClaim DEF t
  <2> QED BY <1>22, <2>1, FixedFaithful
<1> QED BY <1>2, <1>20, <1>24, <1>25 DEF t, caller

(* Nothing locks the operation, and it can be decided.                   *)
Free(s) ==
  Typed(s) /\ QueueInv(s) /\ Fate(s) /\ Faithful(s) /\ ~Locked(s)

(* What becomes of a free operation is a step of the promise, and a      *)
(* HandleWith that is left at the head of the queue has to wait.         *)
Fares(s, t) ==
  /\ Goes(s, t) /\ Faithful(t)
  /\ HeadIs(t, "HANDLE_WITH") => Locked(t)

(* What a free operation is.                                             *)
LEMMA FreeFields ==
  ASSUME NEW s, Free(s)
  PROVE  s.result = "none" /\ s.trying_handler = None /\ s.channel /\ s.successful_handler = None
  BY DEF Free, Locked, Fate, Open, Faithful

(* try_handler calls the handler; without plugins nothing is decided     *)
(* before.                                                               *)
LEMMA TryHandlerFares ==
  ASSUME Plugin = {}, NEW s, Free(s), NEW h \in Handler
  PROVE  Fares(s, TryHandler(s, h))
<1> DEFINE t == TryHandler(s, h)
           F == {"trying_handler", "handling", "status", "criticals", "leaked", "deciding"}
<1>1. Others(s, t, F) /\ t.trying_handler = h
  BY TypedIsCdo, TryHandlerFields DEF Free
<1> HIDE DEF t
<1>2. Stays(s, t)
  BY <1>1, OthersStay DEF Seen
<1>3. Faithful(t)
  BY <1>1, OthersFaithful DEF FaithfulOn, Free
<1>4. Locked(t)
  BY <1>1, NamesAssumption DEF Locked
<1> QED BY <1>2, <1>3, <1>4 DEF Fares, Goes, t

(* A HandleWith for a handler that is not there is answered with an      *)
(* error.                                                                *)
LEMMA RejectHeadFares ==
  ASSUME Plugin = {}, NEW s, Free(s), HeadIs(s, "HANDLE_WITH")
  PROVE  Fares(s, RejectHead(s))
<1> DEFINE c == Head0(s).caller
           q == Tail(s.approvals)
           v == [s.reply EXCEPT ![c] = "error"]
           t == [s EXCEPT !.approvals = q, !.reply = v]
<1>1. RejectHead(s) = t
  BY TypedIsCdo DEF Free, RejectHead, IsCdo, Fields
<1>2. /\ s.approvals # <<>> /\ Head0(s).type = "HANDLE_WITH" /\ s.approvals \in Seq(Approval)
      /\ s.reply \in [Caller -> {"uncalled", "waiting", "ok", "error"}]
  BY TypedFields DEF HeadIs, Free
<1>3. 1 \in DOMAIN s.approvals
  BY <1>2
<1>4. c \in HandleWithCaller /\ c \in Caller
  <2>1. c \in HandleWithCaller
    BY <1>2, <1>3 DEF Faithful, Proper, Head0, Free
  <2> QED BY <2>1 DEF Caller
<1>5. s.reply[c] = "waiting"
  <2>1. c # None
    BY <1>4, CallerNotNone
  <2> QED BY <1>3, <2>1 DEF Free, QueueInv, Head0
<1>6. \A d \in Caller : v[d] = IF d \in {c} THEN "error" ELSE s.reply[d]
  BY <1>2
<1>7. Proper(q, s.asked) /\ \A i \in DOMAIN q : q[i].type # "HANDLE_WITH"
  BY <1>2, ProperTail DEF Head0, Free, Faithful
<1>8. q # <<>> => 1 \in DOMAIN q
  <2>1. q \in Seq(Approval)
    BY <1>2
  <2> HIDE DEF q
  <2> QED BY <2>1
<1> HIDE DEF q, v
<1>9. Others(s, t, {"approvals", "reply"}) /\ t.approvals = q /\ t.reply = v
  BY TypedIsCdo DEF Free, IsCdo, Fields, Others
<1>10. Fixed(s, t)
  BY <1>1, TypedIsCdo, FixedRejectHead DEF Free
<1> HIDE DEF t
<1>11. /\ t.handled_by = s.handled_by /\ t.asked = s.asked /\ t.result = s.result
       /\ t.closing = s.closing /\ t.channel = s.channel
  BY <1>9, FieldNames DEF Others
<1>12. Denies(s, t, {c})
  <2> HIDE DEF c
  <2> QED BY <1>4, <1>5, <1>6, <1>9, <1>11 DEF Denies, Closed
<1>13. Faithful(t)
  BY <1>2, <1>9, <1>10, <1>11, FixedFaithful DEF q, Free
<1>14. ~HeadIs(t, "HANDLE_WITH")
  BY <1>7, <1>8, <1>9 DEF HeadIs, Head0
<1>15. ~Locked(s)
  BY DEF Free
<1> QED BY <1>1, <1>12, <1>13, <1>14, <1>15 DEF Fares, Goes, c

(* try_next_handler: the handler the head of the queue asks for, the     *)
(* next possible one, or none is left.                                   *)
LEMMA TryNextHandlerFares ==
  ASSUME Plugin = {}, registry \subseteq Handler, NEW s, Free(s), NEW ranOut, Fares(s, ranOut)
  PROVE  Fares(s, TryNextHandler(s, ranOut))
<1>1. CASE PreferredIsUsable(s)
  <2>1. PreferredHandler(s) \in Handler
    BY <1>1 DEF PreferredIsUsable
  <2>2. ~HandleWithIsGone(s)
    BY <1>1 DEF PreferredIsUsable, HandleWithIsGone
  <2>3. TryNextHandler(s, ranOut) = TryHandler(s, PreferredHandler(s))
    BY <1>1, <2>2 DEF TryNextHandler
  <2> QED BY <2>1, <2>3, TryHandlerFares
<1>2. CASE ~PreferredIsUsable(s) /\ HandleWithIsGone(s)
  <2>1. TryNextHandler(s, ranOut) = RejectHead(s)
    BY <1>2 DEF TryNextHandler
  <2>2. HeadIs(s, "HANDLE_WITH")
    BY <1>2 DEF HandleWithIsGone
  <2> QED BY <2>1, <2>2, RejectHeadFares
<1>3. CASE ~PreferredIsUsable(s) /\ ~HandleWithIsGone(s) /\ Candidates(s) # {}
  <2> DEFINE h == Best(s, Candidates(s))
  <2>1. h \in Handler
    BY <1>3, BestCandidate DEF Free
  <2>2. TryNextHandler(s, ranOut) = TryHandler(s, h)
    BY <1>3 DEF TryNextHandler
  <2> HIDE DEF h
  <2> QED BY <2>1, <2>2, TryHandlerFares
<1>4. CASE ~PreferredIsUsable(s) /\ ~HandleWithIsGone(s) /\ ~(Candidates(s) # {})
  <2>1. TryNextHandler(s, ranOut) = ranOut
    BY <1>4 DEF TryNextHandler
  <2> QED BY <2>1
<1> QED BY <1>1, <1>2, <1>3, <1>4

(* A decision in which nobody or a claimer takes the channel.            *)
LEMMA SettlesFares ==
  ASSUME NEW s, NEW t, Faithful(t), NEW taker \in ClaimCaller \cup {None}, Settles(s, t, taker)
  PROVE  Fares(s, t)
<1>1. Locked(t)
  BY DEF Settles, Locked
<1>2. Goes(s, t)
  BY DEF Goes
<1> QED BY <1>1, <1>2 DEF Fares

(* No handler is left: the channel is closed, and everybody told.        *)
LEMMA UndispatchableFares ==
  ASSUME Plugin = {}, NEW s, Free(s)
  PROVE  Fares(s, CloseAsUndispatchable(s))
<1> DEFINE t == CloseAsUndispatchable(s)
<1>1. Settles(s, t, None) /\ Faithful(t)
  BY FreeFields, CloseAsUndispatchableSettles DEF Free, Fate
<1> HIDE DEF t
<1> QED BY <1>1, SettlesFares DEF t

(* An idle source attached or detached, or the approvers skipped.        *)
LEMMA FlagsFree ==
  ASSUME NEW s, Free(s), NEW t, Typed(t), Fate(t), NEW F, Others(s, t, F),
         F \subseteq {"invoked_approvers_if_needed", "idle", "tried_handlers_before_approval"}
  PROVE  /\ Free(t) /\ Stays(s, t) /\ t.approvals = s.approvals
         /\ t.possible_handlers = s.possible_handlers
<1>1. /\ t.approvals = s.approvals /\ t.reply = s.reply /\ t.claims = s.claims
      /\ t.observers_pending = s.observers_pending /\ t.ado_pending = s.ado_pending
      /\ t.trying_handler = s.trying_handler /\ t.result = s.result
      /\ t.observe_only = s.observe_only /\ t.possible_handlers = s.possible_handlers
  BY FieldNames DEF Others
<1>2. QueueInv(t)
  BY <1>1, SameKeeps DEF Free, SameQueue, KeepsQueue
<1>3. Faithful(t)
  <2>1. F \cap FaithfulOn = {}
    BY DEF FaithfulOn
  <2> QED BY <2>1, OthersFaithful DEF Free
<1>4. Stays(s, t)
  <2>1. F \cap Seen = {}
    BY DEF Seen
  <2> QED BY <2>1, OthersStay
<1>5. ~Locked(t)
  BY <1>1 DEF Free, Locked
<1> QED BY <1>1, <1>2, <1>3, <1>4, <1>5 DEF Free

(* What comes after an unseen step with the same queue.                  *)
LEMMA FaresAfter ==
  ASSUME NEW s, NEW t, Free(s), Free(t), Stays(s, t), t.approvals = s.approvals,
         NEW u, Fares(t, u)
  PROVE  Fares(s, u)
<1>1. Locked(t) <=> Locked(s)
  BY DEF Free
<1> QED BY <1>1, StaysGoes DEF Fares

(* Mission Control keeps the channel of its own request.                 *)
LEMMA InternalFares ==
  ASSUME Plugin = {}, NEW s, Free(s), IsInternal(s), NEW fresh
  PROVE  Fares(s, Proceed(s, fresh))
<1> DEFINE t == Proceed(s, fresh)
           w == [s EXCEPT !.handled_by = Internal]
<1>1. t = w
  BY FreeFields DEF Proceed
<1>2. Others(s, w, {"handled_by"}) /\ w.handled_by = Internal
  BY OneTypedWrite, FieldNames DEF Free
<1> HIDE DEF t, w
<1>3. /\ w.asked = s.asked /\ w.result = s.result /\ w.reply = s.reply
      /\ w.closing = s.closing /\ w.channel = s.channel /\ w.approvals = s.approvals
  BY <1>2, FieldNames DEF Others
<1>4. Faithful(w)
  BY <1>2, OthersFaithful DEF Free, FaithfulOn
<1>5. ~HeadIs(s, "HANDLE_WITH")
  <2>1. ~s.needs_approval
    BY DEF Free, Faithful
  <2>2. \A a \in Entries(s) : a.type = "REQUESTED"
    BY <2>1, FreeFields DEF Free, Fate, Open, Requested
  <2> QED BY <2>2, HeadEntry DEF Free, HeadIs
<1>6. ~HeadIs(w, "HANDLE_WITH")
  BY <1>3, <1>5 DEF HeadIs, Head0
<1>7. s.handled_by = None \/ s.handled_by = Internal
  BY FreeFields DEF Free, Fate, Open
<1>8. CASE s.handled_by = None
  <2>1. Retains(s, w)
    BY <1>2, <1>3, <1>8, FreeFields DEF Retains, Closed
  <2> QED BY <1>1, <1>4, <1>6, <2>1 DEF Fares, Goes, t
<1>9. CASE s.handled_by = Internal
  <2>1. Stays(s, w)
    BY <1>2, <1>3, <1>9 DEF Stays, Closed
  <2> QED BY <1>1, <1>4, <1>6, <2>1 DEF Fares, Goes, t
<1> QED BY <1>7, <1>8, <1>9

(* What check_client_locks does once nothing locks the operation.        *)
LEMMA ProceedFares ==
  ASSUME Plugin = {}, registry \subseteq Handler, NEW s, Free(s), NEW fresh \in BOOLEAN
  PROVE  Fares(s, Proceed(s, fresh))
<1> DEFINE v == s.idle /\ ~fresh
           h == [s EXCEPT !.invoked_approvers_if_needed = TRUE, !.idle = v]
           t == IF HeadIs(s, "HANDLE_WITH") THEN h ELSE s
           g == [t EXCEPT !.tried_handlers_before_approval = TRUE, !.idle = TRUE]
           c == CloseAsUndispatchable(t)
           r == Proceed(s, fresh)
<1>1. CASE IsInternal(s)
  BY <1>1, InternalFares
<1>2. CASE ~IsInternal(s) /\ s.possible_handlers = <<>>
  <2>1. r = CloseAsUndispatchable(s)
    BY <1>2 DEF Proceed
  <2> HIDE DEF r
  <2> QED BY <2>1, UndispatchableFares DEF r
<1>3. CASE ~IsInternal(s) /\ s.possible_handlers # <<>> /\ HeadIs(s, "CLAIM")
  <2>1. r = AcceptClaim(s, fresh)
    BY <1>3 DEF Proceed
  <2> DEFINE u == AcceptClaim(s, fresh)
  <2>2. /\ Settles(s, u, Head0(s).caller)
        /\ Head0(s).caller \in ClaimCaller \cup {None} /\ Faithful(u)
    BY <1>3, FreeFields, AcceptClaimSettles DEF Free
  <2> HIDE DEF r, u
  <2>3. Fares(s, u)
    BY <2>2, SettlesFares
  <2> QED BY <2>1, <2>3 DEF r, u
<1>4. CASE ~IsInternal(s) /\ s.possible_handlers # <<>> /\ ~HeadIs(s, "CLAIM")
  <2>1. r = IF t.invoked_approvers_if_needed /\ IsApproved(t)
            THEN TryNextHandler(t, c)
            ELSE IF ~t.invoked_approvers_if_needed /\ ~t.tried_handlers_before_approval
            THEN TryNextHandler(t, g)
            ELSE t
    <3>1. h = [s EXCEPT !.invoked_approvers_if_needed = TRUE, !.idle = @ /\ ~fresh]
      BY TypedIsCdo DEF Free, IsCdo, Fields
    <3> HIDE DEF h, v
    <3> QED BY <1>4, <3>1 DEF Proceed
  <2>2. s.idle \in BOOLEAN
    BY TypedFields DEF Free
  <2>3. v \in BOOLEAN /\ (v => s.idle)
    BY <2>2
  <2> HIDE DEF r, v
  <2>4. HeadIs(s, "HANDLE_WITH") =>
          /\ Fate(h) /\ Typed(h) /\ Others(s, h, {"invoked_approvers_if_needed", "idle"})
          /\ h.invoked_approvers_if_needed
    BY <2>3, InsistFate, FreeFields DEF Free
  <2> HIDE DEF h
  <2>5. Free(t) /\ Stays(s, t) /\ t.approvals = s.approvals
    <3>1. CASE HeadIs(s, "HANDLE_WITH")
      <4>1. {"invoked_approvers_if_needed", "idle"} \subseteq
              {"invoked_approvers_if_needed", "idle", "tried_handlers_before_approval"}
        OBVIOUS
      <4>2. t = h
        BY <3>1
      <4> HIDE DEF t
      <4> QED BY <2>4, <3>1, <4>1, <4>2, FlagsFree
    <3>2. CASE ~HeadIs(s, "HANDLE_WITH")
      BY <3>2, StaysSelf
    <3> QED BY <3>1, <3>2
  <2>6. HeadIs(t, "HANDLE_WITH") => t.invoked_approvers_if_needed /\ IsApproved(t)
    <3>1. HeadIs(t, "HANDLE_WITH") <=> HeadIs(s, "HANDLE_WITH")
      <4> HIDE DEF t
      <4> QED BY <2>5 DEF HeadIs, Head0
    <3>2. HeadIs(t, "HANDLE_WITH") => t.invoked_approvers_if_needed
      BY <2>4, <3>1
    <3> HIDE DEF t
    <3> QED BY <3>2 DEF HeadIs, IsApproved
  <2> HIDE DEF t
  <2>7. Fares(t, c)
    BY <2>5, UndispatchableFares
  <2>8. ~t.tried_handlers_before_approval /\ ~HeadIs(t, "HANDLE_WITH") => Fares(t, g)
    <3> SUFFICES ASSUME ~t.tried_handlers_before_approval, ~HeadIs(t, "HANDLE_WITH")
                 PROVE  Fares(t, g)
      OBVIOUS
    <3>1. Fate(g) /\ Typed(g) /\ Others(t, g, {"tried_handlers_before_approval", "idle"})
      BY <2>5, WaitForIdleFate, FreeFields DEF Free
    <3>2. {"tried_handlers_before_approval", "idle"} \subseteq
            {"invoked_approvers_if_needed", "idle", "tried_handlers_before_approval"}
      OBVIOUS
    <3> HIDE DEF g
    <3>3. Free(g) /\ Stays(t, g) /\ g.approvals = t.approvals
      BY <2>5, <3>1, <3>2, FlagsFree
    <3>4. ~HeadIs(g, "HANDLE_WITH")
      BY <3>3 DEF HeadIs, Head0
    <3> QED BY <3>3, <3>4 DEF Fares, Goes, Free
  <2> HIDE DEF c, g
  <2>9. Fares(t, r)
    <3>1. CASE t.invoked_approvers_if_needed /\ IsApproved(t)
      BY <2>1, <2>5, <2>7, <3>1, TryNextHandlerFares
    <3>2. CASE ~t.invoked_approvers_if_needed /\ ~t.tried_handlers_before_approval
      BY <2>1, <2>5, <2>6, <2>8, <3>2, TryNextHandlerFares
    <3>3. CASE /\ ~(t.invoked_approvers_if_needed /\ IsApproved(t))
               /\ ~(~t.invoked_approvers_if_needed /\ ~t.tried_handlers_before_approval)
      <4>1. r = t
        BY <2>1, <3>3
      <4>2. ~HeadIs(t, "HANDLE_WITH")
        BY <2>6, <3>3
      <4> QED BY <2>5, <4>1, <4>2, StaysSelf DEF Fares, Goes, Free
    <3> QED BY <3>1, <3>2, <3>3
  <2>10. Fares(s, r)
    BY <2>5, <2>9, FaresAfter
  <2> QED BY <2>10 DEF r
<1> QED BY <1>1, <1>2, <1>3, <1>4

(* _mcd_dispatch_operation_check_client_locks, as the callers see it.    *)
LEMMA CheckClientLocksGoes ==
  ASSUME Plugin = {}, registry \subseteq Handler, NEW s, Ready(s), Faithful(s)
  PROVE  LET t == CheckClientLocks(s)
         IN Goes(s, t) /\ Faithful(t) /\ (s.invoked_observers_if_needed => Patient(t))
<1> DEFINE a == PostObserverActions(s)
           b == ScheduleApprovers(a)
           fresh == b.idle /\ ~a.idle
           t == CheckClientLocks(s)
<1>1. t = IF ~s.invoked_observers_if_needed \/ s.plugins_pending > 0 THEN s
          ELSE IF Locked(b) THEN b ELSE Proceed(b, fresh)
  BY DEF CheckClientLocks
<1>2. Typed(a) /\ Others(s, a, {"did_post_observer_actions"})
  BY TypedPostObserverActions, PostObserverActionsShape DEF Ready, Faithful
<1>3. Fate(a) /\ KeepsQueue(s, a)
  BY PostObserverActionsFate, PostObserverActionsKeeps DEF Ready
<1>4. fresh \in BOOLEAN
  OBVIOUS
<1> HIDE DEF a, t, fresh
<1>5. Fate(b) /\ Typed(b)
  BY <1>2, <1>3, ScheduleApproversFate, TypedScheduleApprovers
<1>6. Others(a, b, {"tried_handlers_before_approval", "idle"})
  <2> DEFINE w == [a EXCEPT !.tried_handlers_before_approval = TRUE, !.idle = TRUE]
  <2>1. b \in {a, w}
    BY DEF ScheduleApprovers
  <2>2. Others(a, w, {"tried_handlers_before_approval", "idle"})
    BY <1>2, TypedIsCdo DEF IsCdo, Others, Fields
  <2> HIDE DEF b, w
  <2> QED BY <2>1, <2>2, SelfOthers
<1> HIDE DEF b
<1>7. Others(s, b, {"did_post_observer_actions", "tried_handlers_before_approval", "idle"})
  BY <1>2, <1>6 DEF Others
<1>8. Stays(s, b) /\ Faithful(b)
  BY <1>7, OthersStay, OthersFaithful DEF Seen, FaithfulOn
<1>9. /\ b.approvals = s.approvals /\ b.reply = s.reply /\ b.claims = s.claims
      /\ b.observers_pending = s.observers_pending /\ b.ado_pending = s.ado_pending
      /\ b.trying_handler = s.trying_handler /\ b.result = s.result
      /\ b.observe_only = s.observe_only
  BY <1>7, FieldNames DEF Others
<1>10. QueueInv(b)
  BY <1>9, SameKeeps DEF Ready, SameQueue, KeepsQueue
<1>11. Locked(b) <=> Locked(s)
  BY <1>9 DEF Locked
<1>12. CASE ~s.invoked_observers_if_needed
  BY <1>1, <1>12, StaysSelf DEF Goes, t
<1>13. CASE s.invoked_observers_if_needed /\ Locked(b)
  <2>1. t = b
    BY <1>1, <1>13 DEF Faithful
  <2> QED BY <1>8, <1>13, <2>1 DEF Goes, Patient, t
<1>14. CASE s.invoked_observers_if_needed /\ ~Locked(b)
  <2>1. t = Proceed(b, fresh)
    BY <1>1, <1>14 DEF Faithful
  <2>2. Free(b)
    BY <1>5, <1>8, <1>10, <1>14 DEF Free
  <2>3. Fares(b, t)
    BY <1>4, <2>1, <2>2, ProceedFares
  <2>4. Goes(s, t)
    BY <1>8, <1>9, <1>11, <2>3, StaysGoes DEF Fares
  <2> QED BY <2>3, <2>4 DEF Fares, Patient, t
<1> QED BY <1>12, <1>13, <1>14

(* Who may take a channel.                                               *)
Takers == Handler \cup ClaimCaller \cup {None}

(* A call of the bus arrives: a Claim, or a HandleWith with its handler. *)
Arrives(s, t, c) ==
  /\ s.reply[c] = "uncalled"
  /\ IF c \in ClaimCaller THEN t.asked = s.asked
     ELSE \E name \in Handler \cup {None, BadName} : t.asked = [s.asked EXCEPT ![c] = name]

(* Call: it is queued, or refused at once.                               *)
CallsIn(s, t, c, r) ==
  /\ Arrives(s, t, c)
  /\ t.handled_by = s.handled_by
  /\ t.result = "none" <=> s.result = "none"
  /\ Closed(t) <=> Closed(s)
  /\ \A d \in Caller : t.reply[d] = IF d = c THEN r ELSE s.reply[d]

(* Decide, when it is the arriving call that decides.                    *)
SettlesIn(s, t, c, taker) ==
  /\ Arrives(s, t, c)
  /\ s.result = "none" /\ t.result # "none"
  /\ t.handled_by \in IF s.handled_by # None THEN {s.handled_by}
                      ELSE IF taker \in ClaimCaller THEN {taker} ELSE {None, taker}
  /\ t.handled_by = None => Closed(t)
  /\ \A d \in Caller :
       t.reply[d] = IF s.reply[d] = "waiting" \/ d = c
                    THEN IF Wins(t, d, taker) THEN "ok" ELSE "error"
                    ELSE s.reply[d]

(* A step of the promise, or one that it does not see.                   *)
Serves(s, t) ==
  \/ Stays(s, t)
  \/ Retains(s, t)
  \/ \E cs \in SUBSET HandleWithCaller : Denies(s, t, cs)
  \/ \E taker \in Takers : Settles(s, t, taker)
  \/ Shuts(s, t)
  \/ \E c \in Caller : s.result = "none" /\ CallsIn(s, t, c, "waiting")
  \/ \E c \in Caller : CallsIn(s, t, c, "error")
  \/ \E c \in Caller : \E taker \in Takers : SettlesIn(s, t, c, taker)

(* Such a step, after which the next one can be one as well.             *)
Honours(s, t) == Serves(s, t) /\ Faithful(t) /\ Patient(t)

(* A refusal is a step of the promise.                                   *)
LEMMA DeniesSome ==
  ASSUME NEW s, NEW t, NEW cs, Denies(s, t, cs) PROVE Serves(s, t)
<1>1. cs \in SUBSET HandleWithCaller
  BY DEF Denies
<1> QED BY <1>1 DEF Serves

(* So is what the check of the client locks comes to, after an unseen    *)
(* step.                                                                 *)
LEMMA GoesServes ==
  ASSUME NEW s, NEW u, NEW t, Stays(s, u), Goes(u, t)
  PROVE  Serves(s, t)
<1>1. CASE Stays(u, t)
  BY <1>1, StaysTrans DEF Serves
<1>2. CASE Retains(u, t)
  <2>1. Retains(s, t)
    BY <1>2 DEF Stays, Retains
  <2> QED BY <2>1 DEF Serves
<1>3. CASE Denies(u, t, {Head0(u).caller})
  <2> DEFINE cs == {Head0(u).caller}
  <2>1. Denies(u, t, cs)
    BY <1>3
  <2> HIDE DEF cs
  <2>2. \A c \in cs : c \in Caller
    BY <2>1 DEF Denies, Caller
  <2>3. Denies(s, t, cs)
    BY <2>1, <2>2 DEF Stays, Denies
  <2> QED BY <2>3, DeniesSome
<1>4. CASE \E taker \in ClaimCaller \cup {None} : Settles(u, t, taker)
  <2>1. PICK taker \in ClaimCaller \cup {None} : Settles(u, t, taker)
    BY <1>4
  <2>2. Settles(s, t, taker)
    BY <2>1, StaysSettles
  <2>3. taker \in Takers
    BY DEF Takers
  <2> QED BY <2>2, <2>3 DEF Serves
<1> QED BY <1>1, <1>2, <1>3, <1>4 DEF Goes

(* A call that is queued, and decides in the same callback.              *)
LEMMA CallSettles ==
  ASSUME NEW s, NEW u, NEW t, NEW c \in Caller, NEW taker, s.result = "none",
         CallsIn(s, u, c, "waiting"), Settles(u, t, taker)
  PROVE  SettlesIn(s, t, c, taker)
<1>1. Arrives(s, t, c)
  BY DEF CallsIn, Settles, Arrives
<1>2. /\ t.handled_by = None => Closed(t)
      /\ t.handled_by \in IF s.handled_by # None THEN {s.handled_by}
                          ELSE IF taker \in ClaimCaller THEN {taker} ELSE {None, taker}
  BY DEF CallsIn, Settles
<1>3. ASSUME NEW d \in Caller
      PROVE  t.reply[d] = IF s.reply[d] = "waiting" \/ d = c
                          THEN IF Wins(t, d, taker) THEN "ok" ELSE "error"
                          ELSE s.reply[d]
  <2>1. Wins(t, d, taker) <=> Wins(u, d, taker)
    BY DEF Settles, Wins
  <2>2. u.reply[d] = IF d = c THEN "waiting" ELSE s.reply[d]
    BY DEF CallsIn
  <2>3. t.reply[d] = IF u.reply[d] = "waiting"
                     THEN IF Wins(u, d, taker) THEN "ok" ELSE "error" ELSE u.reply[d]
    BY DEF Settles
  <2> QED BY <2>1, <2>2, <2>3
<1>4. t.result # "none"
  BY DEF Settles
<1> QED BY <1>1, <1>2, <1>3, <1>4 DEF SettlesIn

(* A call that is queued, and the check of the client locks after it:    *)
(* the refused one, if any, is the call itself.                          *)
LEMMA CallGoes ==
  ASSUME NEW s, NEW u, NEW t, NEW c \in Caller, s.result = "none",
         CallsIn(s, u, c, "waiting"), Goes(u, t), ~Retains(u, t),
         HeadIs(u, "HANDLE_WITH") /\ ~Locked(u) => Head0(u).caller = c
  PROVE  Serves(s, t)
<1>1. CASE Stays(u, t)
  <2>1. CallsIn(s, t, c, "waiting")
    BY <1>1 DEF CallsIn, Stays, Arrives
  <2> QED BY <2>1 DEF Serves
<1>2. CASE HeadIs(u, "HANDLE_WITH") /\ ~Locked(u) /\ Denies(u, t, {Head0(u).caller})
  <2>1. Denies(u, t, {c})
    BY <1>2
  <2>2. CallsIn(s, t, c, "error")
    BY <2>1 DEF CallsIn, Denies, Arrives
  <2> QED BY <2>2 DEF Serves
<1>3. CASE \E taker \in ClaimCaller \cup {None} : Settles(u, t, taker)
  <2>1. PICK taker \in ClaimCaller \cup {None} : Settles(u, t, taker)
    BY <1>3
  <2>2. SettlesIn(s, t, c, taker)
    BY <2>1, CallSettles
  <2>3. taker \in Takers
    BY DEF Takers
  <2> QED BY <2>2, <2>3 DEF Serves
<1> QED BY <1>1, <1>2, <1>3 DEF Goes

(* Once there is a result the check of the client locks is not seen.     *)
LEMMA OverGoes ==
  ASSUME NEW s, NEW t, Goes(s, t), s.result # "none"
  PROVE  Stays(s, t)
  BY DEF Goes, Retains, Settles, Locked

(* An unseen step after a decision.                                      *)
LEMMA SettlesStays ==
  ASSUME NEW s, NEW t, NEW u, NEW taker, Settles(s, t, taker), Stays(t, u)
  PROVE  Settles(s, u, taker)
<1>1. /\ s.result = "none" /\ u.result # "none" /\ u.asked = s.asked
      /\ u.handled_by = t.handled_by
      /\ u.handled_by = None => Closed(u)
  BY DEF Settles, Stays
<1>2. \A c \in Caller : u.reply[c] = t.reply[c]
  BY DEF Stays
<1> QED BY <1>1, <1>2 DEF Settles, Stays

(* The check of the client locks after a decision.                       *)
LEMMA SettlesGoes ==
  ASSUME NEW s, NEW t, NEW u, NEW taker \in Takers, Settles(s, t, taker), Goes(t, u)
  PROVE  Settles(s, u, taker)
<1>1. t.result # "none"
  BY DEF Settles
<1> QED BY <1>1, OverGoes, SettlesStays

(* A refusal and a decision in which no handler takes the channel: the   *)
(* refused are told error either way, so that it is one decision.        *)
LEMMA DeniesSettles ==
  ASSUME NEW s, NEW t, NEW u, NEW cs, NEW taker \in ClaimCaller \cup {None},
         Denies(s, t, cs), Settles(t, u, taker)
  PROVE  Settles(s, u, taker)
<1>1. /\ s.result = "none" /\ u.result # "none" /\ u.asked = s.asked
      /\ t.handled_by = s.handled_by /\ t.asked = s.asked
      /\ u.handled_by = None => Closed(u)
  BY DEF Settles, Denies
<1>2. ASSUME NEW c \in Caller
      PROVE  u.reply[c] = IF s.reply[c] = "waiting"
                          THEN IF Wins(s, c, taker) THEN "ok" ELSE "error" ELSE s.reply[c]
  <2>1. u.reply[c] = IF t.reply[c] = "waiting"
                     THEN IF Wins(t, c, taker) THEN "ok" ELSE "error" ELSE t.reply[c]
    BY DEF Settles
  <2>2. t.reply[c] = IF c \in cs THEN "error" ELSE s.reply[c]
    BY DEF Denies
  <2>3. Wins(t, c, taker) <=> Wins(s, c, taker)
    BY <1>1 DEF Wins
  <2>4. CASE c \in cs
    <3>1. c \in HandleWithCaller /\ s.reply[c] = "waiting"
      BY <2>4 DEF Denies
    <3>2. c \notin ClaimCaller /\ taker \notin Handler
      BY <3>1, NamesAssumption DEF Caller
    <3>3. ~Wins(s, c, taker)
      BY <3>2 DEF Wins
    <3> QED BY <2>1, <2>2, <2>4, <3>1, <3>3
  <2>5. CASE c \notin cs
    BY <2>1, <2>2, <2>3, <2>5
  <2> QED BY <2>4, <2>5
<1>3. u.handled_by \in IF s.handled_by # None THEN {s.handled_by}
                       ELSE IF taker \in ClaimCaller THEN {taker} ELSE {None, taker}
  BY <1>1 DEF Settles
<1>4. u.result # "none"
  BY DEF Settles
<1> QED BY <1>1, <1>2, <1>3, <1>4 DEF Settles

(* A refusal, and the check of the client locks after it.                *)
LEMMA DeniesGoes ==
  ASSUME NEW s, NEW t, NEW u, NEW cs, Denies(s, t, cs), Goes(t, u), ~Retains(t, u)
  PROVE  Serves(s, u)
<1>1. CASE Stays(t, u)
  <2>1. Denies(s, u, cs)
    BY <1>1 DEF Stays, Denies
  <2> QED BY <2>1, DeniesSome
<1>2. CASE Denies(t, u, {Head0(t).caller})
  <2> DEFINE es == {Head0(t).caller}
             both == cs \cup es
  <2>1. Denies(t, u, es)
    BY <1>2
  <2> HIDE DEF es
  <2>2. \A c \in both : c \in HandleWithCaller /\ s.reply[c] = "waiting"
    <3>1. ASSUME NEW c \in es PROVE c \in HandleWithCaller /\ s.reply[c] = "waiting"
      <4>1. c \in HandleWithCaller /\ t.reply[c] = "waiting"
        BY <2>1 DEF Denies
      <4>2. t.reply[c] = IF c \in cs THEN "error" ELSE s.reply[c]
        BY <4>1 DEF Denies, Caller
      <4> QED BY <4>1, <4>2
    <3> QED BY <3>1 DEF Denies
  <2>3. \A c \in Caller : u.reply[c] = IF c \in both THEN "error" ELSE s.reply[c]
    BY <2>1 DEF Denies
  <2> HIDE DEF both
  <2>4. Denies(s, u, both)
    BY <2>1, <2>2, <2>3 DEF Denies
  <2> QED BY <2>4, DeniesSome
<1>3. CASE \E taker \in ClaimCaller \cup {None} : Settles(t, u, taker)
  <2>1. PICK taker \in ClaimCaller \cup {None} : Settles(t, u, taker)
    BY <1>3
  <2>2. Settles(s, u, taker)
    BY <2>1, DeniesSettles
  <2>3. taker \in Takers
    BY DEF Takers
  <2> QED BY <2>2, <2>3 DEF Serves
<1> QED BY <1>1, <1>2, <1>3 DEF Goes

(* A channel that needs approval is not Mission Control's own.           *)
LEMMA NotRetained ==
  ASSUME NEW s, NEW t, Fate(t), Faithful(t), t.needs_approval
  PROVE  ~Retains(s, t)
  BY NamesAssumption DEF Retains, Fate, Open, Faithful

(* The fields that the last steps of an operation write, without plugins. *)
Quiet == {"lost_channel", "signals", "did_post_observer_actions", "idle",
          "tried_handlers_before_approval"}

(* _mcd_dispatch_operation_finish's last part writes only those, and so  *)
(* do the actions after the observers, of which there are none.          *)
LEMMA ActuallyFinishQuiet ==
  ASSUME NEW s, IsCdo(s), s.after_observers = "NONE"
  PROVE  Others(s, ActuallyFinish(s), Quiet)
<1> DEFINE q == Append(s.signals, "Finished")
           e == [s EXCEPT !.signals = q]
           f == [e EXCEPT !.did_post_observer_actions = TRUE]
           p == PostObserverActionsFinished(e)
           g == [p EXCEPT !.tried_handlers_before_approval = TRUE, !.idle = TRUE]
           t == ActuallyFinish(s)
<1>1. Emit(s, "Finished") = e
  BY DEF Emit, IsCdo, Fields
<1>2. IsCdo(e) /\ Others(s, e, {"signals"})
  <2> HIDE DEF q
  <2> QED BY OneWrite, FieldNames
<1>3. t = CheckClientLocksFinished(e)
  BY <1>1 DEF ActuallyFinish
<1> HIDE DEF e, t
<1>4. e.after_observers = "NONE"
  BY <1>2, FieldNames DEF Others
<1>5. p \in {e, f}
  BY <1>4 DEF PostObserverActionsFinished, WillTerminate
<1>6. IsCdo(f) /\ Others(e, f, {"did_post_observer_actions"})
  BY <1>2, OneWrite, FieldNames
<1> HIDE DEF f
<1>7. t \in {e, p, g}
  BY <1>3 DEF CheckClientLocksFinished, ScheduleApprovers
<1> HIDE DEF p
<1>8. IsCdo(p) /\ Others(e, p, {"did_post_observer_actions"})
  BY <1>2, <1>5, <1>6, SelfOthers
<1>9. Others(p, g, {"tried_handlers_before_approval", "idle"})
  BY <1>8 DEF IsCdo, Others
<1> HIDE DEF g
<1>10. Others(e, t, Quiet)
  BY <1>7, <1>8, <1>9 DEF Others, Quiet
<1>11. Others(s, t, Quiet)
  BY <1>2, <1>10 DEF Others, Quiet
<1> QED BY <1>11 DEF t

(* _mcd_dispatch_operation_check_finished writes only those.             *)
LEMMA CheckFinishedQuiet ==
  ASSUME NEW s, IsCdo(s), s.after_observers = "NONE"
  PROVE  Others(s, CheckFinished(s), Quiet)
<1> DEFINE e == [s EXCEPT !.lost_channel = FALSE]
           q == Append(e.signals, "ChannelLost")
           n == [e EXCEPT !.signals = q]
           l == IF s.lost_channel THEN Emit(e, "ChannelLost") ELSE s
           t == CheckFinished(s)
<1>1. IsCdo(e) /\ Others(s, e, {"lost_channel"})
  BY OneWrite, FieldNames
<1>2. t \in {s, l, ActuallyFinish(l)}
  BY DEF CheckFinished
<1> HIDE DEF e
<1>3. Emit(e, "ChannelLost") = n
  BY <1>1 DEF Emit, IsCdo, Fields
<1>4. IsCdo(n) /\ Others(e, n, {"signals"})
  <2> HIDE DEF q
  <2> QED BY <1>1, OneWrite, FieldNames
<1>5. l \in {s, n}
  BY <1>3
<1> HIDE DEF n, l, t
<1>6. IsCdo(l) /\ Others(s, l, {"lost_channel", "signals"})
  BY <1>1, <1>4, <1>5 DEF Others
<1>7. l.after_observers = "NONE"
  BY <1>6, FieldNames DEF Others
<1>8. Others(l, ActuallyFinish(l), Quiet)
  BY <1>6, <1>7, ActuallyFinishQuiet
<1>9. Others(s, t, Quiet)
  BY <1>2, <1>6, <1>8 DEF Others, Quiet
<1> QED BY <1>9 DEF t

(* It is not seen.                                                       *)
LEMMA CheckFinishedStays ==
  ASSUME NEW s, Typed(s), Faithful(s)
  PROVE  LET t == CheckFinished(s) IN Stays(s, t) /\ Faithful(t) /\ Others(s, t, Quiet)
<1> DEFINE t == CheckFinished(s)
<1>1. Others(s, t, Quiet)
  BY TypedIsCdo, CheckFinishedQuiet DEF Faithful
<1> HIDE DEF t
<1>2. Stays(s, t) /\ Faithful(t)
  BY <1>1, OthersStay, OthersFaithful DEF Quiet, Seen, FaithfulOn
<1> QED BY <1>1, <1>2 DEF t

(* A callback that is not seen until it checks the client locks.         *)
LEMMA Rechecked ==
  ASSUME Plugin = {}, registry \subseteq Handler, NEW s, NEW u, Ready(u), Faithful(u),
         u.invoked_observers_if_needed, Stays(s, u)
  PROVE  Honours(s, CheckClientLocks(u))
<1> DEFINE t == CheckClientLocks(u)
<1>1. Goes(u, t) /\ Faithful(t) /\ Patient(t)
  BY CheckClientLocksGoes
<1> HIDE DEF t
<1>2. Serves(s, t)
  BY <1>1, GoesServes
<1> QED BY <1>1, <1>2 DEF Honours, t

(* The same with check_finished before it.                               *)
LEMMA FinishedRechecked ==
  ASSUME Plugin = {}, registry \subseteq Handler, NEW s, NEW u, Ready(u), Faithful(u),
         u.invoked_observers_if_needed, Stays(s, u)
  PROVE  Honours(s, CheckClientLocks(CheckFinished(u)))
<1> DEFINE f == CheckFinished(u)
<1>1. Ready(f)
  BY CheckFinishedMoves DEF Moves
<1>2. Stays(u, f) /\ Faithful(f) /\ Others(u, f, Quiet)
  BY CheckFinishedStays DEF Ready
<1> HIDE DEF f
<1>3. f.invoked_observers_if_needed /\ Stays(s, f)
  BY <1>2, StaysTrans, FieldNames DEF Others, Quiet
<1>4. Honours(s, CheckClientLocks(f))
  BY <1>1, <1>2, <1>3, Rechecked
<1> QED BY <1>4 DEF f

(* _mcd_dispatch_operation_run_clients.                                  *)
LEMMA RunClientsHonours ==
  ASSUME Plugin = {}, Ready(cdo), Faithful(cdo), registry \subseteq Handler,
         NEW observers \in SUBSET Observer, NEW delaying \in SUBSET Plugin,
         NEW now \in BOOLEAN, NEW later \in PluginAction,
         RunClients(observers, delaying, now, later)
  PROVE  Honours(cdo, cdo')
<1>1. PICK u :
         /\ cdo' = CheckClientLocks(CheckFinished(u)) /\ ~cdo.invoked_observers_if_needed
         /\ Typed(u) /\ ObserverLocks(u) /\ Others(cdo, u, Calling)
         /\ u.invoked_observers_if_needed
         /\ u.plugins_pending = 0 /\ u.after_observers = "NONE"
  BY ObserversCalled
<1>2. Others(cdo, u, Aside)
  BY <1>1 DEF Others, Calling, Aside
<1>3. Ready(u)
  BY <1>1, <1>2, AsideMoves DEF Moves
<1>4. Stays(cdo, u)
  BY <1>1, OthersStay DEF Calling, Seen
<1>5. /\ u.result = cdo.result /\ u.successful_handler = cdo.successful_handler
      /\ u.needs_approval = cdo.needs_approval /\ u.possible_handlers = cdo.possible_handlers
      /\ u.approvals = cdo.approvals /\ u.asked = cdo.asked
  BY <1>1, FieldNames DEF Others, Calling
<1>6. Faithful(u)
  BY <1>1, <1>5 DEF Faithful, IsInternal
<1> QED BY <1>1, <1>3, <1>4, <1>6, FinishedRechecked

(* observe_channels_cb.                                                  *)
LEMMA ObserverReturnsHonours ==
  ASSUME Plugin = {}, Ready(cdo), Faithful(cdo), registry \subseteq Handler,
         NEW o, ObserverReturns(o)
  PROVE  Honours(cdo, cdo')
<1> DEFINE d == ObserverLeft(cdo, o)
           F == {"observing", "observers_pending", "delay_approver_observers_pending"}
<1>1. o \in cdo.observing /\ cdo.invoked_observers_if_needed
  BY DEF ObserverReturns, Running
<1>2. cdo' = CheckClientLocks(CheckFinished(d))
  BY DEF ObserverReturns, DecObserversPending, ObserverLeft
<1>3. Typed(d) /\ ObserverLocks(d) /\ Others(cdo, d, F)
  BY <1>1, ObserverLeftFields DEF Ready
<1> HIDE DEF d
<1>4. Others(cdo, d, Aside) /\ d.invoked_observers_if_needed
  BY <1>1, <1>3, FieldNames DEF Others, Aside
<1>5. Ready(d)
  BY <1>3, <1>4, AsideMoves DEF Moves
<1>6. Stays(cdo, d) /\ Faithful(d)
  BY <1>3, OthersStay, OthersFaithful DEF Seen, FaithfulOn
<1> QED BY <1>2, <1>4, <1>5, <1>6, FinishedRechecked

(* A callback that does not concern the operation.                       *)
LEMMA SelfHonours ==
  ASSUME NEW s, NEW t, t = s, Faithful(s), Patient(s) PROVE Honours(s, t)
  BY StaysSelf DEF Honours, Serves

(* The fields that asking the approvers writes, and their return.        *)
AskingOn == {"adding", "accepted_by_an_approver", "ado_pending", "criticals"}

(* A request, or the lack of any approver, joins the queue.              *)
LEMMA JoinsFaithful ==
  ASSUME NEW s, Typed(s), Faithful(s), NEW a \in Approval, NEW t,
         Others(s, t, {"approvals"}),
         t.approvals \in {s.approvals, Append(s.approvals, a)},
         a.type \in {"REQUESTED", "NO_APPROVERS"}
  PROVE  Faithful(t) /\ Stays(s, t)
<1>1. Stays(s, t)
  BY OthersStay DEF Seen
<1>2. /\ t.plugins_pending = s.plugins_pending /\ t.after_observers = s.after_observers
      /\ t.result = s.result /\ t.successful_handler = s.successful_handler
      /\ t.needs_approval = s.needs_approval /\ t.possible_handlers = s.possible_handlers
      /\ t.asked = s.asked
  BY FieldNames DEF Others
<1>3. Proper(t.approvals, t.asked)
  <2>1. s.approvals \in Seq(Approval) /\ Proper(s.approvals, s.asked)
    BY TypedFields DEF Faithful
  <2>2. Proper(Append(s.approvals, a), s.asked)
    BY <2>1, ProperAppend
  <2> QED BY <1>2, <2>1, <2>2
<1> QED BY <1>1, <1>2, <1>3 DEF Faithful, IsInternal

(* _mcd_dispatch_operation_dec_ado_pending: no approver is left, which   *)
(* counts as an approval if none accepted, or the lock was released too  *)
(* often. Either way it ends in the check of the client locks.           *)
LEMMA DecAdoPendingGoes ==
  ASSUME Plugin = {}, registry \subseteq Handler, NEW s, Faithful(s),
         s.invoked_observers_if_needed,
         NEW k, Typed(k), Others(s, k, AskingOn),
         k.ado_pending = 0 =>
           Moves(s, Report(k, "dec_ado_pending")) /\ k.result # "none",
         k.ado_pending # 0 =>
           /\ Moves(s, Released(k))
           /\ k.result = "none" => k.tried_handlers_before_approval /\ k.needs_approval
  PROVE  LET t == DecAdoPending(k)
         IN /\ Faithful(t) /\ Patient(t) /\ Ready(t)
            /\ t.needs_approval = s.needs_approval /\ t.invoked_observers_if_needed
            /\ \E u : /\ Stays(s, u) /\ Goes(u, t)
                      /\ u.approvals \in {s.approvals, Append(s.approvals, NoApprovers)}
<1> DEFINE r == Report(k, "dec_ado_pending")
           d == Released(k)
           f == CheckFinished(d)
           t == DecAdoPending(k)
<1>1. Stays(s, k) /\ Faithful(k)
  BY OthersStay, OthersFaithful DEF AskingOn, Seen, FaithfulOn
<1>2. /\ k.approvals = s.approvals /\ k.needs_approval = s.needs_approval
      /\ k.invoked_observers_if_needed = s.invoked_observers_if_needed
  BY FieldNames DEF Others, AskingOn
<1>3. CASE k.ado_pending = 0
  <2>1. t = r
    BY <1>3 DEF DecAdoPending
  <2>2. Others(k, r, {"criticals"})
    BY TypedIsCdo DEF Report, IsCdo, Others, Fields
  <2>3. r.result # "none" /\ Ready(r)
    BY <1>3, <2>2, FieldNames DEF Others, Moves
  <2> HIDE DEF r, t
  <2>4. Stays(k, r) /\ Faithful(r)
    BY <1>1, <2>2, OthersStay, OthersFaithful DEF Seen, FaithfulOn
  <2>5. r.approvals = k.approvals /\ r.needs_approval = k.needs_approval
        /\ r.invoked_observers_if_needed = k.invoked_observers_if_needed
    BY <2>2, FieldNames DEF Others
  <2>6. Stays(s, r) /\ Goes(r, r) /\ Patient(r)
    BY <1>1, <2>3, <2>4, StaysTrans, StaysSelf DEF Goes, Patient, Locked
  <2> QED BY <1>2, <2>1, <2>3, <2>4, <2>5, <2>6 DEF t
<1>4. CASE k.ado_pending # 0
  <2>1. PICK g :
          /\ t = CheckClientLocks(g) /\ Moves(s, g)
          /\ Others(f, g, {"approvals"})
          /\ g.approvals \in {k.approvals, Append(k.approvals, NoApprovers)}
    BY <1>4, ApproverReleased
  <2> HIDE DEF t
  <2>2. Others(k, d, {"ado_pending"}) /\ Typed(d)
    BY <1>4, TypedIsCdo DEF Released, IsCdo, Others, Fields, Moves, Ready
  <2> HIDE DEF d
  <2>3. Stays(k, d) /\ Faithful(d)
    BY <1>1, <2>2, OthersStay, OthersFaithful DEF Seen, FaithfulOn
  <2>4. Stays(d, f) /\ Faithful(f) /\ Others(d, f, Quiet) /\ Typed(f)
    BY <2>2, <2>3, CheckFinishedStays, TypedCheckFinished
  <2> HIDE DEF f
  <2>5. /\ f.approvals = k.approvals /\ f.needs_approval = k.needs_approval
        /\ f.invoked_observers_if_needed = k.invoked_observers_if_needed
    BY <2>2, <2>4, FieldNames DEF Others, Quiet
  <2>6. Faithful(g) /\ Stays(f, g)
    BY <2>1, <2>4, <2>5, JoinsFaithful, NoApproversType DEF NoApprovers
  <2>7. /\ g.needs_approval = s.needs_approval /\ g.invoked_observers_if_needed
        /\ Ready(g) /\ IsCdo(g)
    BY <1>2, <2>1, <2>5, TypedIsCdo, FieldNames DEF Others, Moves, Ready
  <2>8. Stays(s, g)
    BY <1>1, <2>3, <2>4, <2>6, StaysTrans
  <2>9. Goes(g, t) /\ Faithful(t) /\ Patient(t)
    BY <2>1, <2>6, <2>7, CheckClientLocksGoes
  <2>10. Ready(t)
    BY <2>1, <2>7, CheckClientLocksMoves DEF Moves
  <2>11. t.needs_approval = g.needs_approval
         /\ t.invoked_observers_if_needed = g.invoked_observers_if_needed
    BY <2>1, <2>7, FixedCheckClientLocks DEF Fixed
  <2> QED BY <1>2, <2>1, <2>7, <2>8, <2>9, <2>10, <2>11 DEF t
<1> QED BY <1>3, <1>4

(* add_dispatch_operation_cb.                                            *)
LEMMA ApproverReturnsHonours ==
  ASSUME Plugin = {}, Inv(cdo), Faithful(cdo), registry \subseteq Handler,
         NEW a \in Approver, NEW accepted \in BOOLEAN, ApproverReturns(a, accepted)
  PROVE  Honours(cdo, cdo')
<1>1. PICK k :
        /\ cdo' = DecAdoPending(k)
        /\ Typed(k) /\ Others(cdo, k, {"adding", "accepted_by_an_approver"})
        /\ k.ado_pending = 0 =>
             Moves(cdo, Report(k, "dec_ado_pending")) /\ k.result # "none"
        /\ k.ado_pending # 0 =>
             /\ Moves(cdo, Released(k))
             /\ k.result = "none" => k.tried_handlers_before_approval /\ k.needs_approval
  BY ApproverHasReturned
<1>2. Others(cdo, k, AskingOn)
  BY <1>1 DEF Others, AskingOn
<1>3. cdo.invoked_observers_if_needed
  BY DEF ApproverReturns, Running
<1>4. Faithful(cdo') /\ Patient(cdo') /\ \E u : Stays(cdo, u) /\ Goes(u, cdo')
  BY <1>1, <1>2, <1>3, DecAdoPendingGoes
<1> QED BY <1>4, GoesServes DEF Honours

(* The approvers are asked, and the client locks checked.                *)
LEMMA ApproversHonour ==
  ASSUME Plugin = {}, registry \subseteq Handler, NEW approvers \in SUBSET Approver,
         NEW s, Ready(s), Faithful(s), s.tried_handlers_before_approval, ~s.idle,
         s.adding = {}, s.needs_approval, s.approvals = <<>>, s.invoked_observers_if_needed,
         NEW x, Ready(x), Others(RunApprovers(s, approvers), x, {"invoked_approvers_if_needed"})
  PROVE  Honours(s, CheckClientLocks(x))
<1> DEFINE r == RunApprovers(s, approvers)
           t == CheckClientLocks(x)
<1>1. PICK k :
        /\ r = DecAdoPending(k)
        /\ Typed(k) /\ Others(s, k, {"ado_pending", "adding", "criticals"})
        /\ k.ado_pending = 0 =>
             Moves(s, Report(k, "dec_ado_pending")) /\ k.result # "none"
        /\ k.ado_pending # 0 =>
             /\ Moves(s, Released(k))
             /\ k.result = "none" => k.tried_handlers_before_approval /\ k.needs_approval
  BY ApproversCalled
<1> HIDE DEF r
<1>2. Others(s, k, AskingOn)
  BY <1>1 DEF Others, AskingOn
<1>3. /\ Faithful(r) /\ Patient(r) /\ Ready(r)
      /\ r.needs_approval = s.needs_approval /\ r.invoked_observers_if_needed
      /\ \E u : /\ Stays(s, u) /\ Goes(u, r)
                /\ u.approvals \in {s.approvals, Append(s.approvals, NoApprovers)}
  BY <1>1, <1>2, DecAdoPendingGoes
<1>4. PICK u : /\ Stays(s, u) /\ Goes(u, r)
               /\ u.approvals \in {s.approvals, Append(s.approvals, NoApprovers)}
  BY <1>3
<1>5. Others(r, x, {"invoked_approvers_if_needed"})
  BY DEF r
<1>6. Stays(r, x) /\ Faithful(x) /\ x.invoked_observers_if_needed
  <2> DEFINE F == {"invoked_approvers_if_needed"}
  <2>1. F \cap Seen = {} /\ F \cap FaithfulOn = {}
    BY DEF Seen, FaithfulOn
  <2>2. Others(r, x, F)
    BY <1>5
  <2>3. x.invoked_observers_if_needed = r.invoked_observers_if_needed
    BY <2>2, FieldNames DEF Others
  <2> HIDE DEF F
  <2> QED BY <1>3, <2>1, <2>2, <2>3, OthersStay, OthersFaithful
<1>7. ~HeadIs(u, "HANDLE_WITH")
  <2>1. CASE u.approvals = <<>>
    BY <2>1 DEF HeadIs
  <2>2. CASE u.approvals = Append(<<>>, NoApprovers)
    <3>1. u.approvals[1] = NoApprovers
      BY <2>2
    <3>2. NoApprovers.type = "NO_APPROVERS"
      BY DEF NoApprovers
    <3> QED BY <3>1, <3>2 DEF HeadIs, Head0
  <2> QED BY <1>4, <2>1, <2>2
<1>8. ~Retains(u, r)
  BY <1>3, NotRetained DEF Ready
<1>9. Goes(x, t) /\ Faithful(t) /\ Patient(t)
  BY <1>6, CheckClientLocksGoes
<1> HIDE DEF t
<1>10. CASE Stays(u, r)
  <2>1. Stays(s, x)
    BY <1>4, <1>6, <1>10, StaysTrans
  <2>2. Serves(s, t)
    BY <1>9, <2>1, GoesServes
  <2> QED BY <1>9, <2>2 DEF Honours, t
<1>11. CASE \E taker \in ClaimCaller \cup {None} : Settles(u, r, taker)
  <2>1. PICK taker \in ClaimCaller \cup {None} : Settles(u, r, taker)
    BY <1>11
  <2>2. taker \in Takers
    BY DEF Takers
  <2>3. Settles(s, x, taker)
    BY <1>4, <1>6, <2>1, StaysSettles, SettlesStays
  <2>4. Settles(s, t, taker)
    BY <1>9, <2>2, <2>3, SettlesGoes
  <2>5. Serves(s, t)
    BY <2>2, <2>4 DEF Serves
  <2> QED BY <1>9, <2>5 DEF Honours, t
<1> QED BY <1>4, <1>7, <1>8, <1>10, <1>11 DEF Goes

(* What is honoured after an unseen step.                                *)
LEMMA HonoursAfter ==
  ASSUME NEW s, NEW t, NEW u, Stays(s, t), Honours(t, u), Faithful(u)
  PROVE  Honours(s, u)
<1>1. Serves(t, u)
  BY DEF Honours
<1>2. CASE Stays(t, u) \/ Retains(t, u) \/ Shuts(t, u)
  <2>1. Stays(s, u) \/ Retains(s, u) \/ Shuts(s, u)
    BY <1>2, StaysTrans DEF Stays, Retains, Shuts
  <2> QED BY <2>1 DEF Serves, Honours
<1>3. CASE \E cs \in SUBSET HandleWithCaller : Denies(t, u, cs)
  <2>1. PICK cs \in SUBSET HandleWithCaller : Denies(t, u, cs)
    BY <1>3
  <2>2. \A c \in cs : c \in Caller
    BY DEF Caller
  <2>3. Denies(s, u, cs)
    BY <2>1, <2>2 DEF Stays, Denies
  <2> QED BY <2>3, DeniesSome DEF Honours
<1>4. CASE \E taker \in Takers : Settles(t, u, taker)
  BY <1>4, StaysSettles DEF Serves, Honours
<1>5. CASE \E c \in Caller : t.result = "none" /\ CallsIn(t, u, c, "waiting")
  <2>1. PICK c \in Caller : t.result = "none" /\ CallsIn(t, u, c, "waiting")
    BY <1>5
  <2>2. s.result = "none" /\ CallsIn(s, u, c, "waiting")
    BY <2>1 DEF Stays, CallsIn, Arrives
  <2> QED BY <2>2 DEF Serves, Honours
<1>6. CASE \E c \in Caller : CallsIn(t, u, c, "error")
  <2>1. PICK c \in Caller : CallsIn(t, u, c, "error")
    BY <1>6
  <2>2. CallsIn(s, u, c, "error")
    BY <2>1 DEF Stays, CallsIn, Arrives
  <2> QED BY <2>2 DEF Serves, Honours
<1>7. CASE \E c \in Caller : \E taker \in Takers : SettlesIn(t, u, c, taker)
  <2>1. PICK c \in Caller, taker \in Takers : SettlesIn(t, u, c, taker)
    BY <1>7
  <2>2. Arrives(s, u, c)
    BY <2>1 DEF SettlesIn, Stays, Arrives
  <2>3. SettlesIn(s, u, c, taker)
    BY <2>1, <2>2 DEF SettlesIn, Stays
  <2> QED BY <2>3 DEF Serves, Honours
<1> QED BY <1>1, <1>2, <1>3, <1>4, <1>5, <1>6, <1>7 DEF Serves

(* mcd_dispatch_operation_idle_run_approvers.                            *)
LEMMA IdleRunApproversHonours ==
  ASSUME Plugin = {}, Inv(cdo), Faithful(cdo), registry \subseteq Handler,
         NEW approvers \in SUBSET Approver, IdleRunApprovers(approvers)
  PROVE  Honours(cdo, cdo')
<1> DEFINE s == [cdo EXCEPT !.idle = FALSE]
           due == s.needs_approval /\ ~IsApproved(s)
           r == IF due THEN RunApprovers(s, approvers) ELSE s
           t == [r EXCEPT !.invoked_approvers_if_needed = TRUE]
           v == [s EXCEPT !.invoked_approvers_if_needed = TRUE]
<1>1. cdo' = CheckClientLocks(t) /\ cdo.idle /\ cdo.invoked_observers_if_needed
  BY DEF IdleRunApprovers, Running
<1>2. Ready(cdo) /\ Typed(cdo) /\ IsCdo(cdo)
  BY TypedIsCdo DEF Inv, Ready
<1>3. Typed(s) /\ ~s.idle /\ Others(cdo, s, {"idle"})
  BY <1>2, TypedFlag DEF IsCdo, Fields, Others
<1> HIDE DEF s
<1>4. s.invoked_observers_if_needed
  BY <1>1, <1>3, FieldNames DEF Others
<1>5. CASE ~due
  <2>1. t = v
    BY <1>5
  <2>2. IsCdo(s)
    BY <1>3, TypedIsCdo
  <2>3. Typed(v) /\ v.invoked_approvers_if_needed /\ ~v.idle
        /\ Others(s, v, {"invoked_approvers_if_needed"})
    BY <1>3, <2>2, TypedFlag DEF IsCdo, Fields, Others
  <2> HIDE DEF t, v
  <2>4. Others(cdo, v, {"idle", "invoked_approvers_if_needed"})
    BY <1>3, <2>3 DEF Others
  <2>5. Moves(cdo, v)
    BY <1>1, <1>2, <2>3, <2>4, ScheduleMoves
  <2>6. v.invoked_observers_if_needed
    BY <1>4, <2>3, FieldNames DEF Others
  <2>7. Stays(cdo, v) /\ Faithful(v)
    BY <2>4, OthersStay, OthersFaithful DEF Seen, FaithfulOn
  <2>8. Ready(v)
    BY <2>5 DEF Moves
  <2>9. Honours(cdo, CheckClientLocks(v))
    BY <2>6, <2>7, <2>8, Rechecked
  <2> QED BY <1>1, <2>1, <2>9
<1>6. CASE due
  <2>1. /\ s.needs_approval = cdo.needs_approval /\ s.approvals = cdo.approvals
        /\ s.tried_handlers_before_approval = cdo.tried_handlers_before_approval
        /\ s.adding = cdo.adding
        /\ s.invoked_approvers_if_needed = cdo.invoked_approvers_if_needed
    BY <1>3, FieldNames DEF Others
  <2>2. Moves(cdo, s)
    <3>1. Others(cdo, s, {"idle", "invoked_approvers_if_needed"})
      BY <1>3 DEF Others
    <3> QED BY <1>2, <1>3, <1>6, <2>1, <3>1, ScheduleMoves
  <2>3. s.tried_handlers_before_approval /\ s.adding = {} /\ s.approvals = <<>>
    BY <1>1, <1>2, <1>6, <2>1 DEF Ready, Fate, Always, IsApproved
  <2>4. r = RunApprovers(s, approvers)
    BY <1>6
  <2>5. Ready(s) /\ Stays(cdo, s) /\ Faithful(s)
    <3>1. Stays(cdo, s) /\ Faithful(s)
      BY <1>3, OthersStay, OthersFaithful DEF Seen, FaithfulOn
    <3> QED BY <2>2, <3>1 DEF Moves
  <2>6. Ready(r)
    <3>1. Moves(s, RunApprovers(s, approvers))
      BY <1>3, <1>6, <2>2, <2>3, RunApproversMoves DEF Moves
    <3> HIDE DEF r
    <3> QED BY <2>4, <3>1 DEF Moves
  <2> HIDE DEF r
  <2>7. Typed(r) /\ IsCdo(r)
    BY <2>6, TypedIsCdo DEF Ready
  <2>8. Typed(t) /\ t.invoked_approvers_if_needed /\ t.idle = r.idle
        /\ Others(r, t, {"invoked_approvers_if_needed"})
    BY <2>7, TypedFlag DEF IsCdo, Fields, Others
  <2> HIDE DEF t
  <2>9. Others(r, t, {"idle", "invoked_approvers_if_needed"})
    BY <2>8 DEF Others
  <2>10. Ready(t)
    BY <2>6, <2>8, <2>9, ScheduleMoves DEF Moves
  <2>11. s.needs_approval
    BY <1>6
  <2>12. Others(RunApprovers(s, approvers), t, {"invoked_approvers_if_needed"})
    BY <2>4, <2>8
  <2>13. Honours(s, CheckClientLocks(t))
    BY <1>3, <1>4, <2>3, <2>5, <2>10, <2>11, <2>12, ApproversHonour
  <2>14. Faithful(CheckClientLocks(t))
    BY <2>13 DEF Honours
  <2> QED BY <1>1, <2>5, <2>13, <2>14, HonoursAfter
<1> QED BY <1>5, <1>6

(* dispatch_operation_handle_with: refused at once, or queued and        *)
(* perhaps acted upon. That the call refused by the check is this one    *)
(* needs Patient and the queue that it found empty.                      *)
LEMMA HandleWithHonours ==
  ASSUME Plugin = {}, Inv(cdo), Faithful(cdo), Patient(cdo), registry \subseteq Handler,
         NEW c \in HandleWithCaller, NEW name \in Handler \cup {None, BadName},
         HandleWith(c, name)
  PROVE  Honours(cdo, cdo')
<1>1. PICK t :
        /\ Moves(cdo, t)
        /\ cdo.reply[c] = "uncalled" /\ cdo.needs_approval
        /\ t.asked = [cdo.asked EXCEPT ![c] = name]
        /\ \/ /\ cdo' = t /\ Inv(t) /\ Others(cdo, t, {"reply", "asked"})
              /\ \A d \in Caller : t.reply[d] = IF d = c THEN "error" ELSE cdo.reply[d]
           \/ /\ cdo' = CheckClientLocks(t) /\ Others(cdo, t, {"reply", "asked", "approvals"})
              /\ cdo.result = "none" /\ cdo.approvals = <<>>
              /\ t.approvals = Append(cdo.approvals, Invitation(c, name))
              /\ Invitation(c, name) \in Approval
              /\ \A d \in Caller : t.reply[d] = IF d = c THEN "waiting" ELSE cdo.reply[d]
  BY HandleWithTold
<1>2. c \in Caller /\ c \notin ClaimCaller
  BY NamesAssumption DEF Caller
<1>3. Arrives(cdo, t, c)
  BY <1>1, <1>2 DEF Arrives
<1>4. Others(cdo, t, {"reply", "asked", "approvals"})
  BY <1>1 DEF Others
<1>5. /\ t.handled_by = cdo.handled_by /\ t.result = cdo.result
      /\ t.closing = cdo.closing /\ t.channel = cdo.channel
      /\ t.plugins_pending = cdo.plugins_pending /\ t.after_observers = cdo.after_observers
      /\ t.successful_handler = cdo.successful_handler
      /\ t.needs_approval = cdo.needs_approval /\ t.possible_handlers = cdo.possible_handlers
      /\ t.invoked_observers_if_needed = cdo.invoked_observers_if_needed
      /\ t.observers_pending = cdo.observers_pending /\ t.ado_pending = cdo.ado_pending
      /\ t.trying_handler = cdo.trying_handler /\ t.observe_only = cdo.observe_only
  BY <1>4, FieldNames DEF Others
<1>6. Ready(t) /\ Typed(t)
  BY <1>1 DEF Moves, Ready
<1>7. Ready(cdo) /\ Typed(cdo) /\ cdo.approvals \in Seq(Approval)
  BY TypedFields DEF Inv, Ready
<1>8. Proper(t.approvals, t.asked) => Faithful(t)
  BY <1>5 DEF Faithful, IsInternal
<1>9. CASE /\ cdo' = t /\ Inv(t) /\ Others(cdo, t, {"reply", "asked"})
           /\ \A d \in Caller : t.reply[d] = IF d = c THEN "error" ELSE cdo.reply[d]
  <2>1. t.approvals = cdo.approvals
    BY <1>9, FieldNames DEF Others
  <2>2. CallsIn(cdo, t, c, "error")
    BY <1>3, <1>5, <1>9 DEF CallsIn, Closed
  <2>3. ~Queued(cdo, c)
    BY <1>1, <1>2, <1>7, UncalledIsNew DEF Ready
  <2>4. Proper(t.approvals, t.asked)
    <3>1. \A d \in HandleWithCaller : d # c => t.asked[d] = cdo.asked[d]
      BY <1>1, <1>7, TypedFields, FieldTypes
    <3>2. \A i \in DOMAIN cdo.approvals : cdo.approvals[i].caller # c
      BY <2>3 DEF Queued
    <3> QED BY <2>1, <3>1, <3>2 DEF Proper, Faithful
  <2>5. Patient(t)
    BY <1>5, <2>1 DEF Patient, HeadIs, Head0, Locked
  <2> QED BY <1>2, <1>8, <1>9, <2>2, <2>4, <2>5 DEF Honours, Serves
<1>10. CASE /\ cdo' = CheckClientLocks(t) /\ Others(cdo, t, {"reply", "asked", "approvals"})
            /\ cdo.result = "none" /\ cdo.approvals = <<>>
            /\ t.approvals = Append(cdo.approvals, Invitation(c, name))
            /\ Invitation(c, name) \in Approval
            /\ \A d \in Caller : t.reply[d] = IF d = c THEN "waiting" ELSE cdo.reply[d]
  <2> DEFINE u == CheckClientLocks(t)
             a == Invitation(c, name)
  <2>1. CallsIn(cdo, t, c, "waiting")
    BY <1>3, <1>5, <1>10 DEF CallsIn, Closed
  <2>2. a.type = "HANDLE_WITH" /\ a.caller = c /\ a.client_bus_name = name
    BY DEF Invitation
  <2>3. t.asked[c] = name
    BY <1>1, <1>7, TypedFields, FieldTypes
  <2> HIDE DEF a
  <2>4. Proper(Append(<<>>, a), t.asked)
    BY <1>7, <1>10, <2>2, <2>3, ProperEmpty, ProperAppend DEF a
  <2>5. t.approvals = Append(<<>>, a)
    BY <1>10 DEF a
  <2>6. Faithful(t)
    BY <1>8, <2>4, <2>5
  <2>7. Head0(t).caller = c
    <3>1. t.approvals[1] = a
      BY <2>5
    <3> QED BY <2>2, <3>1 DEF Head0
  <2>8. Goes(t, u) /\ Faithful(u) /\ (t.invoked_observers_if_needed => Patient(u))
    BY <1>6, <2>6, CheckClientLocksGoes
  <2>9. Ready(u) /\ u.needs_approval
    <3>1. Moves(t, u)
      BY <1>6, CheckClientLocksMoves
    <3>2. u.needs_approval = t.needs_approval
      BY <1>6, FixedCheckClientLocks, TypedIsCdo DEF Fixed
    <3> QED BY <1>1, <1>5, <3>1, <3>2 DEF Moves
  <2>10. t.invoked_observers_if_needed
    BY <1>5 DEF HandleWith, Callable, Running
  <2> HIDE DEF u
  <2>11. ~Retains(t, u)
    BY <2>8, <2>9, NotRetained DEF Ready
  <2>12. Serves(cdo, u)
    BY <1>2, <1>10, <2>1, <2>7, <2>8, <2>11, CallGoes
  <2> QED BY <1>10, <2>8, <2>10, <2>12 DEF Honours, u
<1> QED BY <1>1, <1>9, <1>10

(* dispatch_operation_claim: the claimer joins the queue behind those    *)
(* who wait, whom Patient says are locked out, if one is a HandleWith at *)
(* its head.                                                             *)
LEMMA ClaimHonours ==
  ASSUME Plugin = {}, Inv(cdo), Faithful(cdo), Patient(cdo), registry \subseteq Handler,
         NEW c \in ClaimCaller, Claim(c)
  PROVE  Honours(cdo, cdo')
<1> DEFINE e == [cdo EXCEPT !.reply = [cdo.reply EXCEPT ![c] = "error"]]
           w == [cdo EXCEPT !.reply = [cdo.reply EXCEPT ![c] = "waiting"]]
<1>1. Ready(cdo) /\ Typed(cdo) /\ IsCdo(cdo) /\ QueueInv(cdo)
      /\ cdo.approvals \in Seq(Approval)
  BY TypedIsCdo, TypedFields DEF Inv, Ready
<1>2. /\ c \in Caller /\ cdo.reply[c] = "uncalled" /\ cdo.needs_approval
      /\ cdo.invoked_observers_if_needed
  BY DEF Claim, Callable, Caller, Running
<1>3. ~Queued(cdo, c) /\ ~Pending(cdo, c)
  BY <1>1, <1>2, UncalledIsNew
<1>4. cdo' = IF cdo.result # "none" THEN e ELSE ResolveClaim(w, c)
  <2>1. e = [cdo EXCEPT !.reply[c] = "error"]
    BY <1>1 DEF IsCdo, Fields
  <2>2. w = [cdo EXCEPT !.reply[c] = "waiting"]
    BY <1>1 DEF IsCdo, Fields
  <2> HIDE DEF e, w
  <2> QED BY <2>1, <2>2 DEF Claim
<1>5. CASE cdo.result # "none"
  <2>1. /\ Typed(e) /\ Others(cdo, e, {"reply"})
        /\ \A d \in Caller : e.reply[d] = IF d = c THEN "error" ELSE cdo.reply[d]
    BY <1>1, <1>2, ReplyFields
  <2> HIDE DEF e
  <2>2. Faithful(e)
    BY <2>1, OthersFaithful DEF FaithfulOn
  <2>3. /\ e.handled_by = cdo.handled_by /\ e.result = cdo.result /\ e.asked = cdo.asked
        /\ e.closing = cdo.closing /\ e.channel = cdo.channel
    BY <2>1, FieldNames DEF Others
  <2>4. CallsIn(cdo, e, c, "error")
    BY <1>2, <2>1, <2>3 DEF CallsIn, Closed, Arrives
  <2>5. Patient(e)
    BY <1>5, <2>3 DEF Patient, Locked
  <2>6. cdo' = e
    BY <1>4, <1>5
  <2> QED BY <1>2, <2>2, <2>4, <2>5, <2>6 DEF Honours, Serves
<1>6. CASE cdo.result = "none"
  <2>1. /\ Typed(w) /\ Others(cdo, w, {"reply"})
        /\ \A d \in Caller : w.reply[d] = IF d = c THEN "waiting" ELSE cdo.reply[d]
    BY <1>1, <1>2, ReplyFields
  <2> HIDE DEF w
  <2>2. Others(cdo, w, {"reply", "asked", "claims"})
    BY <2>1 DEF Others
  <2>3. \A d : Pending(w, d) <=> Pending(cdo, d)
    BY <2>1, FieldNames DEF Pending, Others
  <2>4. PICK t :
          /\ ResolveClaim(w, c) = CheckClientLocks(t)
          /\ Moves(cdo, t) /\ Others(w, t, {"approvals"})
          /\ t.approvals = Append(cdo.approvals, ClaimEntry(c))
          /\ ClaimEntry(c) \in Approval
    BY <1>1, <1>2, <1>3, <2>1, <2>2, <2>3, ClaimJoins
  <2> DEFINE u == CheckClientLocks(t)
             a == ClaimEntry(c)
  <2>5. Others(cdo, t, {"reply", "approvals"}) /\ t.reply = w.reply
    BY <2>1, <2>4, FieldNames DEF Others
  <2>6. /\ t.handled_by = cdo.handled_by /\ t.result = cdo.result /\ t.asked = cdo.asked
        /\ t.closing = cdo.closing /\ t.channel = cdo.channel
        /\ t.plugins_pending = cdo.plugins_pending /\ t.after_observers = cdo.after_observers
        /\ t.successful_handler = cdo.successful_handler
        /\ t.needs_approval = cdo.needs_approval /\ t.possible_handlers = cdo.possible_handlers
        /\ t.invoked_observers_if_needed = cdo.invoked_observers_if_needed
        /\ t.observers_pending = cdo.observers_pending /\ t.ado_pending = cdo.ado_pending
        /\ t.trying_handler = cdo.trying_handler /\ t.observe_only = cdo.observe_only
    BY <2>5, FieldNames DEF Others
  <2>7. a.type = "CLAIM" /\ a.caller = c
    BY DEF ClaimEntry
  <2> HIDE DEF a
  <2>8. Proper(t.approvals, t.asked)
    <3>1. Proper(cdo.approvals, cdo.asked)
      BY DEF Faithful
    <3>2. Proper(Append(cdo.approvals, a), cdo.asked)
      BY <1>1, <2>4, <2>7, <3>1, ProperAppend DEF a
    <3> QED BY <2>4, <2>6, <3>2 DEF a
  <2>9. Faithful(t)
    BY <2>6, <2>8 DEF Faithful, IsInternal
  <2>10. ~(HeadIs(t, "HANDLE_WITH") /\ ~Locked(t))
    <3> SUFFICES ASSUME HeadIs(t, "HANDLE_WITH"), ~Locked(t) PROVE FALSE
      OBVIOUS
    <3>1. ~Locked(cdo)
      BY <2>6 DEF Locked
    <3>2. CASE cdo.approvals = <<>>
      <4>1. Append(<<>>, a)[1] = a
        OBVIOUS
      <4>2. t.approvals[1] = a
        BY <2>4, <3>2, <4>1 DEF a
      <4> QED BY <2>7, <4>2 DEF HeadIs, Head0
    <3>3. CASE cdo.approvals # <<>>
      <4>1. t.approvals[1] = cdo.approvals[1]
        BY <1>1, <2>4, <3>3
      <4> QED BY <1>2, <3>1, <3>3, <4>1 DEF Patient, HeadIs, Head0
    <3> QED BY <3>2, <3>3
  <2>11. CallsIn(cdo, t, c, "waiting")
    BY <1>2, <2>1, <2>5, <2>6 DEF CallsIn, Closed, Arrives
  <2>12. Ready(t) /\ Typed(t)
    BY <2>4 DEF Moves, Ready
  <2>13. Goes(t, u) /\ Faithful(u) /\ (t.invoked_observers_if_needed => Patient(u))
    BY <2>9, <2>12, CheckClientLocksGoes
  <2>14. Ready(u) /\ u.needs_approval
    <3>1. Moves(t, u)
      BY <2>12, CheckClientLocksMoves
    <3>2. u.needs_approval = t.needs_approval
      BY <2>12, FixedCheckClientLocks, TypedIsCdo DEF Fixed
    <3> QED BY <1>2, <2>6, <3>1, <3>2 DEF Moves
  <2>15. t.invoked_observers_if_needed
    BY <1>2, <2>6
  <2> HIDE DEF u
  <2>16. ~Retains(t, u)
    BY <2>13, <2>14, NotRetained DEF Ready
  <2>17. Serves(cdo, u)
    BY <1>2, <1>6, <2>10, <2>11, <2>13, <2>16, CallGoes
  <2>18. cdo' = u
    BY <1>4, <1>6, <2>4 DEF u
  <2> QED BY <2>13, <2>15, <2>17, <2>18 DEF Honours
<1> QED BY <1>5, <1>6

(* _mcd_dispatch_operation_approve: a request is satisfied by the same   *)
(* channel.                                                              *)
LEMMA ApproveHonours ==
  ASSUME Plugin = {}, Inv(cdo), Faithful(cdo), registry \subseteq Handler,
         NEW preferred \in Handler \cup {None}, Approve(preferred)
  PROVE  Honours(cdo, cdo')
<1> DEFINE a == RequestEntry(preferred)
<1>1. PICK t :
        /\ cdo' = CheckClientLocks(t)
        /\ Moves(cdo, t) /\ Others(cdo, t, {"approvals"})
        /\ t.approvals = Append(cdo.approvals, a)
  BY ApprovalJoins
<1>2. a \in Approval /\ a.type = "REQUESTED"
  BY DEF RequestEntry, Approval, ApprovalType
<1> HIDE DEF a
<1>3. Typed(cdo)
  BY DEF Inv, Ready
<1>4. t.approvals \in {cdo.approvals, Append(cdo.approvals, a)}
  BY <1>1
<1>5. Faithful(t) /\ Stays(cdo, t)
  BY <1>1, <1>2, <1>3, <1>4, JoinsFaithful
<1>6. t.invoked_observers_if_needed
  BY <1>1, FieldNames DEF Others, Approve, Running
<1> QED BY <1>1, <1>5, <1>6, Rechecked DEF Moves

(* An unseen step after a refusal.                                       *)
LEMMA DeniesStays ==
  ASSUME NEW s, NEW t, NEW u, NEW cs, Denies(s, t, cs), Stays(t, u) PROVE Denies(s, u, cs)
  BY DEF Denies, Stays

(* The channel of a handler that is tried is not kept by Mission         *)
(* Control.                                                              *)
LEMMA NotInternal ==
  ASSUME NEW s, NEW u, Fate(u), Faithful(u), ~IsInternal(u)
  PROVE  ~Retains(s, u)
<1> SUFFICES ASSUME Retains(s, u) PROVE FALSE
  OBVIOUS
<1>1. u.handled_by = Internal /\ u.result = "none"
  BY DEF Retains
<1>2. u.handled_by # None
  BY <1>1, NamesAssumption
<1> QED BY <1>1, <1>2 DEF Fate, Open

(* A handler has failed: the HandleWiths that insist on it, of which     *)
(* there is one at most, are answered with an error.                     *)
LEMMA TurnedDownDenies ==
  ASSUME NEW t, Typed(t), QueueInv(t), Faithful(t), NEW h \in Handler
  PROVE  LET f == HandlerTurnedDown(t, h)
         IN Faithful(f) /\ \E cs \in SUBSET HandleWithCaller : Denies(t, f, cs)
<1> DEFINE f == HandlerTurnedDown(t, h)
           q == t.approvals
           gone == Insistent(t, h)
           cs == {q[i].caller : i \in gone}
<1>1. /\ Others(t, f, {"failed_handlers", "approvals", "reply"})
      /\ f.approvals = Without(t.approvals, gone)
      /\ f.reply = TurnedAway(t, h)
  BY HandlerTurnedDownFields
<1> HIDE DEF f
<1>2. q \in Seq(Approval) /\ Proper(q, t.asked)
  BY TypedFields DEF Faithful
<1>3. \A i \in gone : i \in DOMAIN q /\ q[i].type = "HANDLE_WITH" /\ InsistsOn(q[i], h)
  BY DEF Insistent, InsistsOn
<1>4. \A i \in gone : q[i].caller \in HandleWithCaller
  BY <1>2, <1>3 DEF Proper
<1>5. cs \in SUBSET HandleWithCaller /\ \A c \in cs : c \in Caller /\ c # None
  BY <1>4, CallerNotNone DEF Caller
<1>6. \A c \in cs : t.reply[c] = "waiting"
  <2> SUFFICES ASSUME NEW i \in gone PROVE t.reply[q[i].caller] = "waiting"
    OBVIOUS
  <2>1. i \in DOMAIN q /\ q[i].caller # None
    BY <1>3, <1>5
  <2> QED BY <2>1 DEF QueueInv
<1>7. \A c \in Caller : f.reply[c] = IF c \in cs THEN "error" ELSE t.reply[c]
  <2> SUFFICES ASSUME NEW c \in Caller
               PROVE  TurnedAway(t, h)[c] = IF c \in cs THEN "error" ELSE t.reply[c]
    BY <1>1
  <2>1. (\E a \in QueuedCalls(t) : InsistsOn(a, h) /\ a.caller = c) <=> c \in cs
    <3>1. c # None
      BY CallerNotNone
    <3>2. \A i \in DOMAIN q : i \in gone <=> InsistsOn(q[i], h)
      BY DEF Insistent
    <3> QED BY <1>3, <3>1, <3>2 DEF QueuedCalls
  <2> HIDE DEF cs
  <2> QED BY <2>1 DEF TurnedAway
<1>8. /\ f.handled_by = t.handled_by /\ f.asked = t.asked /\ f.result = t.result
      /\ f.closing = t.closing /\ f.channel = t.channel
      /\ f.plugins_pending = t.plugins_pending /\ f.after_observers = t.after_observers
      /\ f.successful_handler = t.successful_handler
      /\ f.needs_approval = t.needs_approval /\ f.possible_handlers = t.possible_handlers
  BY <1>1, FieldNames DEF Others
<1>9. Faithful(f)
  <2>1. Proper(f.approvals, f.asked)
    <3>1. Proper(Without(q, gone), t.asked)
      <4> HIDE DEF q, gone
      <4> QED BY <1>2, ProperWithout
    <3> QED BY <1>1, <1>8, <3>1
  <2> QED BY <1>8, <2>1 DEF Faithful, IsInternal
<1> HIDE DEF cs, gone
<1>10. Denies(t, f, cs)
  BY <1>5, <1>6, <1>7, <1>8 DEF Denies, Closed
<1> QED BY <1>5, <1>9, <1>10 DEF f

(* _mcd_dispatch_operation_set_handler_failed and the check of the       *)
(* client locks: refusals and then perhaps the end of the operation are  *)
(* one step of the promise.                                              *)
LEMMA HandlerFailedHonours ==
  ASSUME Plugin = {}, registry \subseteq Handler, NEW s, Ready(s), Faithful(s),
         s.trying_handler # None, s.invoked_observers_if_needed,
         NEW t, Decided(s, t)
  PROVE  Honours(s, HandlerFailed(t))
<1> DEFINE h == t.trying_handler
           f == HandlerTurnedDown(t, h)
           e == CloseAsUndispatchable(f)
           g == SetHandlerFailed(t, h)
           x == [g EXCEPT !.trying_handler = None]
           u == CheckClientLocks(x)
<1>1. HandlerFailed(t) = u
  BY DEF HandlerFailed
<1>2. /\ Typed(t) /\ Always(t) /\ QueueInv(t) /\ t.trying_handler = s.trying_handler
      /\ Dropped(t)
  BY DecidedFate DEF Decided
<1>3. Others(s, t, {"handling", "deciding", "handler_unsuitable"})
  BY DEF Decided
<1>4. Stays(s, t) /\ Faithful(t)
  BY <1>3, OthersStay, OthersFaithful DEF Seen, FaithfulOn
<1>5. t.invoked_observers_if_needed /\ t.possible_handlers = s.possible_handlers
  BY <1>3, FieldNames DEF Others
<1>6. ~IsInternal(t)
  BY <1>2 DEF Always
<1>7. h \in Handler
  BY <1>2, TypedFields
<1>8. Moves(s, x)
  BY HandlerHasFailed
<1>9. g \in {f, e}
  BY DEF SetHandlerFailed, HandlerTurnedDown
<1> HIDE DEF h, g
<1>10. Typed(f) /\ IsCdo(f)
  BY <1>2, <1>7, TypedSetHandlerFailed, TypedIsCdo
<1>11. Faithful(f) /\ \E cs \in SUBSET HandleWithCaller : Denies(t, f, cs)
  BY <1>2, <1>4, <1>7, TurnedDownDenies
<1>12. /\ Others(t, f, {"failed_handlers", "approvals", "reply"})
       /\ f.approvals = Without(t.approvals, Insistent(t, h))
       /\ f.reply = TurnedAway(t, h)
  BY <1>2, <1>7, HandlerTurnedDownFields
<1> HIDE DEF f
<1>13. PICK cs \in SUBSET HandleWithCaller : Denies(t, f, cs)
  BY <1>11
<1>14. Denies(s, f, cs)
  <2>1. \A c \in cs : c \in Caller
    BY DEF Caller
  <2> QED BY <1>4, <1>13, <2>1 DEF Stays, Denies
<1>15. /\ f.invoked_observers_if_needed /\ f.possible_handlers = t.possible_handlers
       /\ f.result = t.result /\ f.channel = t.channel /\ f.claims = t.claims
       /\ f.trying_handler = t.trying_handler
  BY <1>5, <1>12, FieldNames DEF Others
<1>16. QueueInv(f) /\ Always(f)
  <2>1. KeepsQueue(t, f) /\ Entries(f) \subseteq Entries(t)
    BY <1>2, <1>7, <1>12, <1>15, TurnedAwayKeeps
  <2>2. /\ f.handling = t.handling /\ f.deciding = t.deciding /\ f.adding = t.adding
        /\ f.tried_handlers_before_approval = t.tried_handlers_before_approval
        /\ f.criticals = t.criticals /\ f.ado_pending = t.ado_pending /\ f.idle = t.idle
    BY <1>12, FieldNames DEF Others
  <2> QED BY <1>2, <1>15, <2>1, <2>2 DEF Always, IsInternal, KeepsQueue
<1>17. \/ g = f
       \/ f.result = "none" /\ g = e
  BY <1>2, <1>9, <1>15, CloseAgain DEF Dropped, Decided
<1>18. \/ Denies(s, g, cs)
       \/ Settles(s, g, None)
  <2>1. CASE g = f
    BY <1>14, <2>1
  <2>2. CASE f.result = "none" /\ g = e
    <3>1. Settles(f, e, None)
      BY <1>10, <1>11, <1>16, <2>2, CloseAsUndispatchableSettles
    <3>2. Settles(s, e, None)
      BY <1>14, <3>1, DeniesSettles
    <3> HIDE DEF e
    <3> QED BY <2>2, <3>2
  <2> QED BY <1>17, <2>1, <2>2
<1>19. /\ Faithful(g) /\ Typed(g) /\ g.invoked_observers_if_needed
       /\ g.possible_handlers = t.possible_handlers
  <2>1. CASE g = f
    BY <1>10, <1>11, <1>15, <2>1
  <2>2. CASE f.result = "none" /\ g = e
    <3>1. Faithful(e)
      BY <1>10, <1>11, <1>16, <2>2, CloseAsUndispatchableSettles
    <3>2. Typed(e) /\ Fixed(f, e)
      BY <1>10, TypedCloseAsUndispatchable, FixedCloseAsUndispatchable
    <3> HIDE DEF e
    <3> QED BY <1>15, <2>2, <3>1, <3>2 DEF Fixed
  <2> QED BY <1>17, <2>1, <2>2
<1> HIDE DEF e
<1>20. Others(g, x, {"trying_handler"})
  BY <1>19, TypedIsCdo DEF IsCdo, Others
<1> HIDE DEF x
<1>21. Stays(g, x) /\ Faithful(x)
  BY <1>19, <1>20, OthersStay, OthersFaithful DEF Seen, FaithfulOn
<1>22. /\ x.invoked_observers_if_needed /\ x.possible_handlers = t.possible_handlers
       /\ Ready(x)
  BY <1>8, <1>19, <1>20, FieldNames DEF Others, Moves
<1>23. Goes(x, u) /\ Faithful(u) /\ Patient(u)
  BY <1>21, <1>22, CheckClientLocksGoes
<1>24. ~Retains(x, u)
  <2>1. Moves(x, u)
    BY <1>22, CheckClientLocksMoves
  <2>2. Fixed(x, u)
    BY <1>22, FixedCheckClientLocks, TypedIsCdo DEF Ready
  <2> HIDE DEF u
  <2>3. ~IsInternal(u) /\ Fate(u)
    BY <1>6, <1>22, <2>1, <2>2 DEF IsInternal, Fixed, Moves, Ready
  <2> QED BY <1>23, <2>3, NotInternal
<1> HIDE DEF u
<1>25. CASE Denies(s, g, cs)
  <2>1. Denies(s, x, cs)
    BY <1>21, <1>25, DeniesStays
  <2>2. Serves(s, u)
    BY <1>23, <1>24, <2>1, DeniesGoes
  <2> QED BY <1>1, <1>23, <2>2 DEF Honours
<1>26. CASE Settles(s, g, None)
  <2>1. Settles(s, x, None) /\ None \in Takers
    BY <1>21, <1>26, SettlesStays DEF Takers
  <2>2. Settles(s, u, None)
    BY <1>23, <2>1, SettlesGoes
  <2>3. Serves(s, u)
    BY <2>1, <2>2 DEF Serves
  <2> QED BY <1>1, <1>23, <2>3 DEF Honours
<1> QED BY <1>18, <1>25, <1>26

(* The handler has the channel, or had it and is gone: everybody who     *)
(* waits is told, in one decision.                                       *)
LEMMA HandlerSucceededHonours ==
  ASSUME Plugin = {}, registry \subseteq Handler, NEW s, Ready(s), Faithful(s),
         s.trying_handler # None, s.invoked_observers_if_needed,
         NEW t, Decided(s, t)
  PROVE  Honours(s, HandlerSucceeded(t))
<1> DEFINE h == t.trying_handler
           d == HandedOver(t)
           f == Finish(d, "NotYours")
           x == [f EXCEPT !.trying_handler = None]
           u == CheckClientLocks(x)
<1>1. HandlerSucceeded(t) = u
  BY DEF HandlerSucceeded, HandedOver
<1>2. /\ Typed(t) /\ Always(t) /\ t.trying_handler = s.trying_handler
      /\ t.result = s.result /\ Dropped(t)
      /\ t.result = "none" =>
           (t.handled_by # None => t.handled_by = Internal /\ IsInternal(t))
  BY DecidedFate DEF Decided
<1>3. Others(s, t, {"handling", "deciding", "handler_unsuitable"})
  BY DEF Decided
<1>4. /\ t.asked = s.asked /\ t.reply = s.reply /\ t.handled_by = s.handled_by
      /\ t.closing = s.closing /\ t.channel = s.channel
      /\ t.invoked_observers_if_needed = s.invoked_observers_if_needed
      /\ t.plugins_pending = s.plugins_pending /\ t.after_observers = s.after_observers
      /\ t.needs_approval = s.needs_approval /\ t.possible_handlers = s.possible_handlers
      /\ t.approvals = s.approvals
  BY <1>3, FieldNames DEF Others
<1>5. h \in Handler /\ ~IsInternal(t)
  BY <1>2, TypedFields DEF Always
<1>6. Moves(s, x)
  BY HandlerHasSucceeded
<1>7. /\ Typed(d)
      /\ Others(t, d, {"handled_by", "status", "closing", "successful_handler"})
      /\ d.successful_handler = h
      /\ d.handled_by # None \/ d.closing \/ ~d.channel
      /\ d.handled_by \in {t.handled_by, h}
      /\ ~t.channel => d.handled_by = t.handled_by /\ d.closing = t.closing
  BY <1>2, HandedOverShape
<1>8. Always(d) /\ QueueInv(d) /\ d.result = s.result
  BY HandedOverFate
<1> HIDE DEF h, d
<1>9. /\ d.asked = t.asked /\ d.reply = t.reply /\ d.channel = t.channel
      /\ d.invoked_observers_if_needed = t.invoked_observers_if_needed
      /\ d.plugins_pending = t.plugins_pending /\ d.after_observers = t.after_observers
      /\ d.needs_approval = t.needs_approval /\ d.possible_handlers = t.possible_handlers
      /\ d.approvals = t.approvals
  BY <1>7, FieldNames DEF Others
<1>10. Proper(d.approvals, d.asked)
  BY <1>4, <1>9 DEF Faithful
<1>11. /\ f.result = IF d.result = "none" THEN "NotYours" ELSE d.result
       /\ f.handled_by = d.handled_by
       /\ d.closing => f.closing
       /\ f.channel => d.channel
       /\ d.result = "none" => f.approvals = <<>>
       /\ d.result # "none" => f.approvals = d.approvals
  BY <1>7, FinishFields
<1>12. Fixed(d, f) /\ Typed(f)
  BY <1>7, <1>8, FixedFinish, TypedFinish, TypedIsCdo
<1>13. IF s.result = "none" THEN Settles(s, f, h) ELSE Stays(s, f)
  <2>1. CASE s.result = "none"
    <3>1. s.handled_by = None
      BY <1>2, <1>4, <1>5, <2>1
    <3>2. f.handled_by = None => Closed(f)
      BY <1>7, <1>11 DEF Closed
    <3>3. d.handled_by \in {None, d.successful_handler}
      BY <1>4, <1>7, <3>1
    <3>4. d.result = "none" /\ s.asked = d.asked /\ s.reply = d.reply
      BY <1>4, <1>8, <1>9, <2>1
    <3>5. /\ f.result = Finish(d, "NotYours").result
          /\ f.handled_by = Finish(d, "NotYours").handled_by
          /\ f.asked = Finish(d, "NotYours").asked
          /\ f.reply = Finish(d, "NotYours").reply
      OBVIOUS
    <3> HIDE DEF f
    <3>6. Settles(s, f, d.successful_handler)
      BY <1>7, <1>8, <1>10, <2>1, <3>1, <3>2, <3>3, <3>4, <3>5, FinishSettles
    <3> QED BY <1>7, <2>1, <3>6
  <2>2. CASE s.result # "none"
    <3>1. f = d
      BY <1>8, <2>2 DEF Finish
    <3>2. ~t.channel
      BY <1>2, <2>2 DEF Dropped, Decided
    <3> HIDE DEF f
    <3> QED BY <1>4, <1>7, <1>8, <1>9, <2>2, <3>1, <3>2 DEF Stays, Closed
  <2> QED BY <2>1, <2>2
<1>14. Faithful(f) /\ f.invoked_observers_if_needed
  <2>1. f.result # "none"
    BY <1>11
  <2>2. Proper(f.approvals, f.asked)
    BY <1>10, <1>11, <1>12, ProperEmpty DEF Fixed
  <2> HIDE DEF f
  <2>3. /\ f.plugins_pending = s.plugins_pending /\ f.after_observers = s.after_observers
        /\ f.needs_approval = s.needs_approval /\ f.possible_handlers = s.possible_handlers
        /\ f.invoked_observers_if_needed
    BY <1>4, <1>9, <1>12 DEF Fixed
  <2> QED BY <2>1, <2>2, <2>3 DEF Faithful, IsInternal
<1> HIDE DEF f
<1>15. Others(f, x, {"trying_handler"})
  BY <1>12, TypedIsCdo DEF IsCdo, Others
<1> HIDE DEF x
<1>16. Stays(f, x) /\ Faithful(x) /\ x.invoked_observers_if_needed /\ Ready(x)
  <2>1. Stays(f, x) /\ Faithful(x)
    BY <1>14, <1>15, OthersStay, OthersFaithful DEF Seen, FaithfulOn
  <2>2. x.invoked_observers_if_needed /\ Ready(x)
    BY <1>6, <1>14, <1>15, FieldNames DEF Others, Moves
  <2> QED BY <2>1, <2>2
<1>17. CASE s.result = "none"
  <2>1. Settles(s, x, h) /\ h \in Takers
    BY <1>5, <1>13, <1>16, <1>17, SettlesStays DEF Takers
  <2>2. Goes(x, u) /\ Faithful(u) /\ Patient(u)
    BY <1>16, CheckClientLocksGoes
  <2> HIDE DEF u
  <2>3. Settles(s, u, h)
    BY <2>1, <2>2, SettlesGoes
  <2>4. Serves(s, u)
    BY <2>1, <2>3 DEF Serves
  <2> QED BY <1>1, <2>2, <2>4 DEF Honours
<1>18. CASE s.result # "none"
  <2>1. Stays(s, x)
    BY <1>13, <1>16, <1>18, StaysTrans
  <2>2. Honours(s, CheckClientLocks(x))
    BY <1>16, <2>1, Rechecked
  <2> QED BY <1>1, <2>2
<1> QED BY <1>17, <1>18

(* _mcd_dispatch_operation_handle_channels_cb.                           *)
LEMMA HandleChannelsReturnsHonours ==
  ASSUME Plugin = {}, Inv(cdo), Faithful(cdo), registry \subseteq Handler,
         NEW success \in BOOLEAN, HandleChannelsReturns(success)
  PROVE  Honours(cdo, cdo')
<1> DEFINE t == [cdo EXCEPT !.handling = None]
<1>1. Ready(cdo) /\ Typed(cdo) /\ IsCdo(cdo)
  BY TypedIsCdo DEF Inv, Ready
<1>2. /\ cdo' \in {HandlerSucceeded(t), HandlerFailed(t)}
      /\ cdo.handling # None /\ cdo.invoked_observers_if_needed
  BY DEF HandleChannelsReturns, Running
<1>3. cdo.trying_handler # None /\ cdo.deciding = {}
  BY <1>1, <1>2 DEF Ready, Fate, Always
<1>4. Decided(cdo, t)
  <2>1. None \in FieldType.handling
    BY FieldTypes
  <2>2. Typed(t)
    BY <1>1, <2>1, TypedExcept, FieldNames
  <2>3. t.handling = None /\ t.deciding = {}
    BY <1>1, <1>3 DEF IsCdo, Fields
  <2>4. Others(cdo, t, {"handling", "deciding", "handler_unsuitable"})
    BY <1>1 DEF IsCdo, Others
  <2> HIDE DEF t
  <2> QED BY <2>2, <2>3, <2>4 DEF Decided
<1> HIDE DEF t
<1>5. Honours(cdo, HandlerSucceeded(t))
  BY <1>1, <1>2, <1>3, <1>4, HandlerSucceededHonours
<1>6. Honours(cdo, HandlerFailed(t))
  BY <1>1, <1>2, <1>3, <1>4, HandlerFailedHonours
<1> QED BY <1>2, <1>5, <1>6

(* _mcd_dispatch_operation_lose_channel: a decision that nobody takes    *)
(* the channel, or the end of a channel that somebody has.               *)
LEMMA LoseChannelHonours ==
  ASSUME Plugin = {}, Ready(cdo), Faithful(cdo), cdo.channel,
         NEW s, Typed(s), Others(cdo, s, {"invalidated", "error", "status", "closing"})
  PROVE  Honours(cdo, LoseChannel(s))
<1> DEFINE d == DropChannel(s)
           t == Finish(d, "Lost")
<1>1. LoseChannel(s) = t
  BY DEF LoseChannel
<1>2. /\ s.handled_by = cdo.handled_by /\ s.asked = cdo.asked /\ s.result = cdo.result
      /\ s.reply = cdo.reply /\ s.channel = cdo.channel /\ s.approvals = cdo.approvals
      /\ s.claims = cdo.claims /\ s.successful_handler = cdo.successful_handler
  BY FieldNames DEF Others
<1>3. Faithful(s)
  BY OthersFaithful DEF FaithfulOn
<1>4. QueueInv(s) /\ Always(s)
  <2>1. /\ s.handling = cdo.handling /\ s.deciding = cdo.deciding /\ s.adding = cdo.adding
        /\ s.trying_handler = cdo.trying_handler
        /\ s.tried_handlers_before_approval = cdo.tried_handlers_before_approval
        /\ s.criticals = cdo.criticals /\ s.ado_pending = cdo.ado_pending
        /\ s.possible_handlers = cdo.possible_handlers /\ s.idle = cdo.idle
    BY FieldNames DEF Others
  <2>2. QueueInv(s)
    BY <1>2 DEF Ready, QueueInv, Queued, Pending
  <2>3. Always(s)
    BY <1>2, <2>1 DEF Ready, Fate, Always, IsInternal, Entries
  <2> QED BY <2>2, <2>3
<1>5. Typed(d) /\ Wound(s, d) /\ ~d.channel
  BY TypedDropChannel, TypedIsCdo, WoundDropChannel
<1> HIDE DEF d
<1>6. /\ Always(d) /\ QueueInv(d)
  BY <1>4, <1>5, WoundAlways, WoundKeeps DEF KeepsQueue
<1>7. /\ d.handled_by = s.handled_by /\ d.asked = s.asked /\ d.result = s.result
      /\ d.reply = s.reply /\ d.approvals = s.approvals
      /\ d.successful_handler = s.successful_handler
  BY <1>5 DEF Wound, Fixed
<1>8. Proper(d.approvals, d.asked)
  BY <1>3, <1>7 DEF Faithful
<1>9. /\ t.result = IF d.result = "none" THEN "Lost" ELSE d.result
      /\ t.handled_by = d.handled_by
      /\ t.channel => d.channel
      /\ d.result = "none" => t.approvals = <<>>
      /\ d.result # "none" => t.approvals = d.approvals
  BY <1>5, FinishFields
<1>10. Fixed(d, t)
  BY <1>5, FixedFinish, TypedIsCdo
<1>11. Closed(t)
  BY <1>5, <1>9 DEF Closed
<1>12. Faithful(t)
  <2>1. Faithful(d)
    BY <1>3, <1>5, <1>7, FixedFaithful DEF Wound
  <2> HIDE DEF t
  <2>2. t.approvals = d.approvals \/ t.approvals = <<>>
    BY <1>9
  <2>3. t.result = "none" => d.result = "none"
    BY <1>9
  <2> QED BY <1>5, <1>10, <2>1, <2>2, <2>3, FixedFaithful
<1>13. Patient(t)
  <2>1. t.result # "none"
    BY <1>9
  <2> QED BY <2>1 DEF Patient, Locked
<1>14. Serves(cdo, t)
  <2>1. CASE cdo.result = "none"
    <3>1. d.successful_handler = None /\ d.result = "none"
      BY <1>2, <1>7, <2>1 DEF Faithful
    <3>2. /\ t.result = Finish(d, "Lost").result
          /\ t.handled_by = Finish(d, "Lost").handled_by
          /\ t.asked = Finish(d, "Lost").asked
          /\ t.reply = Finish(d, "Lost").reply
      OBVIOUS
    <3> HIDE DEF t
    <3>3. /\ cdo.asked = d.asked /\ cdo.reply = d.reply /\ d.handled_by = cdo.handled_by
      BY <1>2, <1>7
    <3>4. Settles(cdo, t, d.successful_handler)
      BY <1>5, <1>6, <1>8, <1>11, <2>1, <3>1, <3>2, <3>3, FinishSettles
    <3>5. None \in Takers
      BY DEF Takers
    <3> QED BY <3>1, <3>4, <3>5 DEF Serves
  <2>2. CASE cdo.result # "none"
    <3>1. t = d
      BY <1>2, <1>7, <2>2 DEF Finish
    <3> HIDE DEF t
    <3>2. Stays(cdo, t) \/ Shuts(cdo, t)
      BY <1>2, <1>7, <1>11, <2>2, <3>1 DEF Stays, Shuts
    <3> QED BY <3>2 DEF Serves
  <2> QED BY <2>1, <2>2
<1> HIDE DEF t
<1> QED BY <1>1, <1>12, <1>13, <1>14 DEF Honours

(* The channel is invalidated, aborted, or its request cancelled.        *)
LEMMA LosingHonours ==
  ASSUME Plugin = {}, Inv(cdo), Faithful(cdo),
         ChannelInvalidated \/ ConnectionAborted \/ RequestCancelled
  PROVE  Honours(cdo, cdo')
<1> DEFINE i == [cdo EXCEPT !.invalidated = TRUE]
           e == [cdo EXCEPT !.error = "CANCELLED", !.status = "FAILED"]
           l == [e EXCEPT !.closing = TRUE]
           F == {"invalidated", "error", "status", "closing"}
<1>1. Ready(cdo) /\ Typed(cdo) /\ IsCdo(cdo)
  BY TypedIsCdo DEF Inv, Ready
<1>2. cdo.channel
  BY DEF ChannelInvalidated, ConnectionAborted, RequestCancelled
<1>3. cdo' \in {LoseChannel(i), LoseChannel(cdo), LoseChannel(l)}
  BY DEF ChannelInvalidated, ConnectionAborted, RequestCancelled, TakeError
<1>4. Typed(i) /\ Others(cdo, i, F)
  <2>1. Typed(i)
    BY <1>1, TypedFlag
  <2> QED BY <1>1, <2>1 DEF IsCdo, Others, Fields
<1>5. Typed(e) /\ IsCdo(e) /\ Others(cdo, e, {"error", "status"})
  <2>1. "CANCELLED" \in FieldType.error /\ "FAILED" \in FieldType.status
    BY FieldTypes DEF ChannelError, ChannelStatus
  <2>2. Typed(e)
    BY <1>1, <2>1, TypedExcept2, FieldNames
  <2>3. Others(cdo, e, {"error", "status"})
    BY <1>1 DEF IsCdo, Others, Fields
  <2> HIDE DEF e
  <2> QED BY <2>2, <2>3, TypedIsCdo
<1> HIDE DEF e
<1>6. Typed(l) /\ Others(e, l, {"closing"})
  <2>1. Typed(l)
    BY <1>5, TypedFlag
  <2> QED BY <1>5, <2>1 DEF IsCdo, Others, Fields
<1> HIDE DEF i, l
<1>7. Others(cdo, l, F)
  BY <1>5, <1>6 DEF Others
<1>8. Others(cdo, cdo, F)
  BY SelfOthers
<1>9. Honours(cdo, LoseChannel(i))
  BY <1>1, <1>2, <1>4, LoseChannelHonours
<1>10. Honours(cdo, LoseChannel(cdo))
  BY <1>1, <1>2, <1>8, LoseChannelHonours
<1>11. Honours(cdo, LoseChannel(l))
  BY <1>1, <1>2, <1>6, <1>7, LoseChannelHonours
<1> QED BY <1>3, <1>9, <1>10, <1>11

(* The replies are a function of the callers.                            *)
LEMMA RepliesTyped ==
  ASSUME NEW s, Typed(s)
  PROVE  /\ s.reply = [c \in Caller |-> s.reply[c]]
         /\ s.asked \in [HandleWithCaller -> Handler \cup {None, BadName}]
  BY TypedFields

(* What CallsIn says is an action Call of ChannelDispatch.               *)
LEMMA CallPromised ==
  ASSUME Typed(cdo), Typed(cdo'), NEW c \in Caller, NEW r \in {"waiting", "error"},
         CallsIn(cdo, cdo', c, r), r = "waiting" => cdo.result = "none"
  PROVE  Promised!Next
<1>1. cdo'.reply = [cdo.reply EXCEPT ![c] = r]
  <2>1. cdo'.reply = [d \in Caller |-> cdo'.reply[d]] /\ cdo.reply = [d \in Caller |-> cdo.reply[d]]
    BY RepliesTyped
  <2>2. \A d \in Caller : cdo'.reply[d] = IF d = c THEN r ELSE cdo.reply[d]
    BY DEF CallsIn
  <2> QED BY <2>1, <2>2
<1>2. Promised!Asks(c)
  BY DEF CallsIn, Arrives, Promised!Asks
<1>3. Promised!Call(c)
  BY <1>1, <1>2 DEF CallsIn, Closed, Promised!Call
<1> QED BY <1>3 DEF Promised!Next, Promised!Callers, Caller

(* What Denies says is Refuse.                                           *)
LEMMA DenyPromised ==
  ASSUME Typed(cdo), Typed(cdo'), NEW cs \in SUBSET HandleWithCaller, Denies(cdo, cdo', cs)
  PROVE  Promised!Next
<1>1. cdo'.reply = [c \in Caller |-> IF c \in cs THEN "error" ELSE cdo.reply[c]]
  <2>1. cdo'.reply = [d \in Caller |-> cdo'.reply[d]]
    BY RepliesTyped
  <2>2. \A d \in Caller : cdo'.reply[d] = IF d \in cs THEN "error" ELSE cdo.reply[d]
    BY DEF Denies
  <2> QED BY <2>1, <2>2
<1>2. Promised!Refuse(cs)
  BY <1>1 DEF Denies, Closed, Promised!Refuse, Promised!Callers, Caller
<1> QED BY <1>2 DEF Promised!Next

(* What Settles and SettlesIn say is Decide.                             *)
LEMMA DecidePromised ==
  ASSUME Typed(cdo), Typed(cdo'), NEW taker \in Takers,
         NEW calling \in {{}} \cup {{c} : c \in Caller},
         IF calling = {} THEN cdo'.asked = cdo.asked
         ELSE \A c \in calling : Arrives(cdo, cdo', c),
         cdo.result = "none", cdo'.result # "none",
         cdo'.handled_by \in IF cdo.handled_by # None THEN {cdo.handled_by}
                             ELSE IF taker \in ClaimCaller THEN {taker} ELSE {None, taker},
         cdo'.handled_by = None => Closed(cdo'),
         \A d \in Caller :
           cdo'.reply[d] = IF cdo.reply[d] = "waiting" \/ d \in calling
                           THEN IF Wins(cdo', d, taker) THEN "ok" ELSE "error"
                           ELSE cdo.reply[d]
  PROVE  Promised!Next
<1>1. cdo'.reply = [c \in Caller |-> IF cdo.reply[c] = "waiting" \/ c \in calling
                                     THEN IF Promised!Won(c, taker) THEN "ok" ELSE "error"
                                     ELSE cdo.reply[c]]
  <2>1. cdo'.reply = [d \in Caller |-> cdo'.reply[d]]
    BY RepliesTyped
  <2>2. \A c \in Caller : Promised!Won(c, taker) <=> Wins(cdo', c, taker)
    BY DEF Promised!Won, Wins
  <2> QED BY <2>1, <2>2
<1>2. \A c \in calling : Arrives(cdo, cdo', c) => Promised!Asks(c)
  BY DEF Arrives, Promised!Asks
<1>3. Promised!Decide(taker, calling)
  BY <1>1, <1>2 DEF Closed, Promised!Decide, Promised!Callers, Caller
<1> QED BY <1>3 DEF Promised!Next, Promised!Callers, Caller, Takers

(* Each step that Serves is one of ChannelDispatch, or a stutter there.  *)
LEMMA ServesPromised ==
  ASSUME Typed(cdo), Typed(cdo'), Serves(cdo, cdo')
  PROVE  [Promised!Next]_(Promised!vars)
<1>1. CASE Stays(cdo, cdo')
  <2>1. cdo'.reply = cdo.reply
    <3>1. /\ cdo'.reply = [d \in Caller |-> cdo'.reply[d]]
          /\ cdo.reply = [d \in Caller |-> cdo.reply[d]]
      BY RepliesTyped
    <3>2. \A d \in Caller : cdo'.reply[d] = cdo.reply[d]
      BY <1>1 DEF Stays
    <3> QED BY <3>1, <3>2
  <2> QED BY <1>1, <2>1 DEF Stays, Closed, Promised!vars
<1>2. CASE Retains(cdo, cdo')
  <2>1. cdo'.reply = cdo.reply
    <3>1. /\ cdo'.reply = [d \in Caller |-> cdo'.reply[d]]
          /\ cdo.reply = [d \in Caller |-> cdo.reply[d]]
      BY RepliesTyped
    <3>2. \A d \in Caller : cdo'.reply[d] = cdo.reply[d]
      BY <1>2 DEF Retains
    <3> QED BY <3>1, <3>2
  <2>2. Promised!KeepInternal
    BY <1>2, <2>1 DEF Retains, Closed, Promised!KeepInternal
  <2> QED BY <2>2 DEF Promised!Next
<1>3. CASE \E cs \in SUBSET HandleWithCaller : Denies(cdo, cdo', cs)
  BY <1>3, DenyPromised
<1>4. CASE \E taker \in Takers : Settles(cdo, cdo', taker)
  <2>1. PICK taker \in Takers : Settles(cdo, cdo', taker)
    BY <1>4
  <2>2. cdo'.asked = cdo.asked
    BY <2>1 DEF Settles
  <2>3. \A d \in Caller : Wins(cdo', d, taker) <=> Wins(cdo, d, taker)
    BY <2>2 DEF Wins
  <2>4. Promised!Next
    <3> DEFINE none == {}
    <3>1. none \in {{}} \cup {{c} : c \in Caller}
      OBVIOUS
    <3>2. \A d \in Caller :
            cdo'.reply[d] = IF cdo.reply[d] = "waiting" \/ d \in none
                            THEN IF Wins(cdo', d, taker) THEN "ok" ELSE "error"
                            ELSE cdo.reply[d]
      BY <2>1, <2>3 DEF Settles
    <3>3. IF none = {} THEN cdo'.asked = cdo.asked
          ELSE \A c \in none : Arrives(cdo, cdo', c)
      BY <2>2
    <3> HIDE DEF none
    <3> QED BY <2>1, <3>1, <3>2, <3>3, DecidePromised DEF Settles
  <2> QED BY <2>4
<1>5. CASE Shuts(cdo, cdo')
  <2>1. cdo'.reply = cdo.reply
    <3>1. /\ cdo'.reply = [d \in Caller |-> cdo'.reply[d]]
          /\ cdo.reply = [d \in Caller |-> cdo.reply[d]]
      BY RepliesTyped
    <3>2. \A d \in Caller : cdo'.reply[d] = cdo.reply[d]
      BY <1>5 DEF Shuts
    <3> QED BY <3>1, <3>2
  <2>2. Promised!Close
    BY <1>5, <2>1 DEF Shuts, Closed, Promised!Close
  <2> QED BY <2>2 DEF Promised!Next
<1>6. CASE \E c \in Caller : cdo.result = "none" /\ CallsIn(cdo, cdo', c, "waiting")
  BY <1>6, CallPromised
<1>7. CASE \E c \in Caller : CallsIn(cdo, cdo', c, "error")
  BY <1>7, CallPromised
<1>8. CASE \E c \in Caller : \E taker \in Takers : SettlesIn(cdo, cdo', c, taker)
  <2>1. PICK c \in Caller, taker \in Takers : SettlesIn(cdo, cdo', c, taker)
    BY <1>8
  <2> DEFINE one == {c}
  <2>2. one \in {{}} \cup {{d} : d \in Caller}
    OBVIOUS
  <2>3. \A d \in Caller :
          cdo'.reply[d] = IF cdo.reply[d] = "waiting" \/ d \in one
                          THEN IF Wins(cdo', d, taker) THEN "ok" ELSE "error"
                          ELSE cdo.reply[d]
    BY <2>1 DEF SettlesIn
  <2>4. IF one = {} THEN cdo'.asked = cdo.asked
        ELSE \A d \in one : Arrives(cdo, cdo', d)
    BY <2>1 DEF SettlesIn
  <2> HIDE DEF one
  <2>5. Promised!Next
    BY <2>1, <2>2, <2>3, <2>4, DecidePromised DEF SettlesIn
  <2> QED BY <2>5
<1> QED BY <1>1, <1>2, <1>3, <1>4, <1>5, <1>6, <1>7, <1>8 DEF Serves

(* Every action is: without plugins, one lemma for each.                 *)
LEMMA StepHonours ==
  ASSUME Plugin = {}, IInv, Faithful(cdo), Patient(cdo), [Next]_vars
  PROVE  Honours(cdo, cdo')
<1>1. Inv(cdo) /\ Ready(cdo) /\ registry \subseteq Handler /\ Typed(cdo)
  BY DEF IInv, Inv, Ready
<1>2. CASE UNCHANGED vars
  BY <1>2, SelfHonours DEF vars
<1>3. ASSUME NEW observers \in SUBSET Observer, NEW delaying \in SUBSET Plugin,
             NEW now \in BOOLEAN, NEW later \in PluginAction,
             RunClients(observers, delaying, now, later)
      PROVE  Honours(cdo, cdo')
  BY <1>1, <1>3, RunClientsHonours
<1>4. ASSUME NEW o \in Observer, ObserverReturns(o)
      PROVE  Honours(cdo, cdo')
  BY <1>1, <1>4, ObserverReturnsHonours
<1>5. ASSUME NEW approvers \in SUBSET Approver, IdleRunApprovers(approvers)
      PROVE  Honours(cdo, cdo')
  BY <1>1, <1>5, IdleRunApproversHonours
<1>6. ASSUME NEW a \in Approver, NEW accepted \in BOOLEAN, ApproverReturns(a, accepted)
      PROVE  Honours(cdo, cdo')
  BY <1>1, <1>6, ApproverReturnsHonours
<1>7. ASSUME NEW c \in HandleWithCaller, NEW name \in Handler \cup {None, BadName},
             HandleWith(c, name)
      PROVE  Honours(cdo, cdo')
  BY <1>1, <1>7, HandleWithHonours
<1>8. ASSUME NEW c \in ClaimCaller, Claim(c)
      PROVE  Honours(cdo, cdo')
  BY <1>1, <1>8, ClaimHonours
<1>9. ASSUME NEW preferred \in Handler \cup {None}, Approve(preferred)
      PROVE  Honours(cdo, cdo')
  BY <1>1, <1>9, ApproveHonours
<1>10. ASSUME NEW success \in BOOLEAN, HandleChannelsReturns(success)
       PROVE  Honours(cdo, cdo')
  BY <1>1, <1>10, HandleChannelsReturnsHonours
<1>11. ASSUME ChannelInvalidated \/ ConnectionAborted \/ RequestCancelled
       PROVE  Honours(cdo, cdo')
  BY <1>1, <1>11, LosingHonours
<1>12. ASSUME NEW h \in Handler, HandlerVanishes(h) \/ HandlerAppears(h)
       PROVE  Honours(cdo, cdo')
  <2>1. cdo' = cdo
    BY <1>12 DEF HandlerVanishes, HandlerAppears
  <2> QED BY <2>1, SelfHonours
<1>13. ~PluginIsWorking /\ ~(cdo.plugins_pending > 0)
  <2>1. ~(cdo.plugins_pending > 0)
    BY DEF Faithful
  <2>2. cdo.deciding = {} /\ \A c \in ClaimCaller : cdo.claims[c] = {}
    BY <1>1, TypedFields
  <2> QED BY <2>1, <2>2 DEF PluginIsWorking
<1>14. /\ ~EndPluginDelay /\ ~PluginStartsDelay /\ ~PluginTerminatesNow
       /\ \A action : ~PluginTerminatesLater(action)
  BY <1>13 DEF EndPluginDelay, PluginStartsDelay, PluginTerminatesNow, PluginTerminatesLater
<1> QED BY <1>2, <1>3, <1>4, <1>5, <1>6, <1>7, <1>8, <1>9, <1>10, <1>11, <1>12, <1>14
        DEF Next

(* A new operation has promised nothing yet; only what was requested can *)
(* be Mission Control's own.                                             *)
LEMMA CreatedFaithful ==
  ASSUME NEW needs \in BOOLEAN, NEW observe \in BOOLEAN, NEW l,
         needs => l # <<Internal>>, NEW p \in Handler \cup {None}
  PROVE  /\ Faithful(Created(needs, observe, l, p)) /\ Patient(Created(needs, observe, l, p))
         /\ cdo = Created(needs, observe, l, p) => Promised!Init
<1> DEFINE s == Created(needs, observe, l, p)
<1>1. /\ s.plugins_pending = 0 /\ s.after_observers = "NONE" /\ s.successful_handler = None
      /\ s.needs_approval = needs /\ s.possible_handlers = l
      /\ ~s.invoked_observers_if_needed
      /\ s.handled_by = None /\ ~s.closing /\ s.channel /\ s.result = "none"
      /\ s.asked = [c \in HandleWithCaller |-> None] /\ s.reply = [c \in Caller |-> "uncalled"]
  BY DEF Created
<1>2. s.approvals \in {<<>>, <<[type |-> "REQUESTED", client_bus_name |-> p, caller |-> None]>>}
  BY DEF Created
<1> HIDE DEF s
<1>3. Proper(s.approvals, s.asked)
  <2>1. CASE s.approvals = <<>>
    BY <2>1, ProperEmpty
  <2>2. CASE s.approvals = <<[type |-> "REQUESTED", client_bus_name |-> p, caller |-> None]>>
    BY <2>2 DEF Proper
  <2> QED BY <1>2, <2>1, <2>2
<1>4. Faithful(s) /\ Patient(s)
  BY <1>1, <1>3 DEF Faithful, Patient, IsInternal
<1>5. cdo = s => Promised!Init
  BY <1>1 DEF Promised!Init, Promised!Callers, Caller
<1> QED BY <1>4, <1>5 DEF s

(* The initial states are initial in ChannelDispatch.                    *)
LEMMA InitFaithful == Init => Faithful(cdo) /\ Patient(cdo) /\ Promised!Init
<1> SUFFICES ASSUME Init PROVE Faithful(cdo) /\ Patient(cdo) /\ Promised!Init
  OBVIOUS
<1>1. \A l \in HandlerLists \cup {<<>>} : l # <<Internal>>
  <2>1. SUFFICES ASSUME <<Internal>> \in HandlerLists PROVE FALSE
    OBVIOUS
  <2>2. <<Internal>> \in Seq(Handler)
    BY <2>1, HandlerListsAssumption
  <2>3. <<Internal>>[1] \in Handler
    BY <2>2
  <2> QED BY <2>3, NamesAssumption
<1>2. CASE \E l \in HandlerLists \cup {<<>>} :
             \/ cdo = Created(TRUE, FALSE, l, None)
             \/ \E p \in Handler \cup {None} : cdo = Created(FALSE, FALSE, l, p)
  BY <1>1, <1>2, CreatedFaithful
<1>3. CASE \E l : cdo \in {Created(FALSE, TRUE, l, None), Created(FALSE, FALSE, l, None)}
  BY <1>3, CreatedFaithful
<1> QED BY <1>2, <1>3 DEF Init

(* Without plugins a dispatch operation implements ChannelDispatch       *)
(* (ImplementsChannelDispatch), for any clients and callers: whatever    *)
(* observers, approvers, handlers and callers do, and in whichever       *)
(* order, what they are told is what an operation would tell that        *)
(* decided once and atomically.                                          *)
THEOREM KeepsThePromise ==
  ASSUME Plugin = {}
  PROVE  Spec => ImplementsChannelDispatch
<1>1. Init => Faithful(cdo) /\ Patient(cdo) /\ Promised!Init
  BY InitFaithful
<1>2. IInv /\ Faithful(cdo) /\ Patient(cdo) /\ [Next]_vars =>
        (Faithful(cdo) /\ Patient(cdo))'
  BY StepHonours DEF Honours
<1>3. IInv /\ IInv' /\ Faithful(cdo) /\ Patient(cdo) /\ [Next]_vars =>
        [Promised!Next]_(Promised!vars)
  <2> SUFFICES ASSUME IInv, IInv', Faithful(cdo), Patient(cdo), [Next]_vars
               PROVE  [Promised!Next]_(Promised!vars)
    OBVIOUS
  <2>1. Typed(cdo) /\ Typed(cdo')
    BY DEF IInv, Inv, Ready
  <2>2. Serves(cdo, cdo')
    BY StepHonours DEF Honours
  <2> QED BY <2>1, <2>2, ServesPromised
<1> QED BY <1>1, <1>2, <1>3, InductiveInvariant, PTL
        DEF Spec, ImplementsChannelDispatch, Promised!Spec

-----------------------------------------------------------------------------
(* What follows from the promise, for any handlers and callers.          *)

(* As long as nothing is decided only MC itself can have the channel,    *)
(* so that a Claim that is accepted finds it free or internal.           *)
UndecidedIsFree == cdo.result = "none" => cdo.handled_by \in {None, Internal}

(* The properties, with the types and the fact that they rest on.        *)
PromiseInv ==
  /\ cdo.asked \in [HandleWithCaller -> Handler \cup {None, BadName}]
  /\ cdo.reply \in [Promised!Callers -> {"uncalled", "waiting", "ok", "error"}]
  /\ UndecidedIsFree
  /\ Promised!NobodyLeftBehind
  /\ Promised!TruthfulReplies

(* It holds at first.                                                    *)
LEMMA InitPromised == Promised!Init => PromiseInv
BY DEF Promised!Init, PromiseInv, Promised!Callers, UndecidedIsFree,
       Promised!NobodyLeftBehind, Promised!TruthfulReplies

(* To name a handler leaves the names of others alone.                   *)
LEMMA AsksLocal ==
  ASSUME cdo.asked \in [HandleWithCaller -> Handler \cup {None, BadName}],
         NEW c \in Promised!Callers, Promised!Asks(c)
  PROVE  /\ cdo.reply[c] = "uncalled"
         /\ cdo'.asked \in [HandleWithCaller -> Handler \cup {None, BadName}]
         /\ \A d \in HandleWithCaller \ {c} : cdo'.asked[d] = cdo.asked[d]
<1>1. CASE c \in ClaimCaller
  BY <1>1 DEF Promised!Asks
<1>2. CASE c \notin ClaimCaller
  <2>1. PICK name \in Handler \cup {None, BadName} :
          cdo'.asked = [cdo.asked EXCEPT ![c] = name]
    BY <1>2 DEF Promised!Asks
  <2> QED BY <2>1 DEF Promised!Asks
<1> QED BY <1>1, <1>2

(* A call that is queued or refused finds the channel undecided, or is   *)
(* told so.                                                              *)
LEMMA CallKeepsPromise ==
  ASSUME PromiseInv, NEW c \in Promised!Callers, Promised!Call(c)
  PROVE  PromiseInv'
<1>1. PICK a \in {"waiting", "error"} :
        (cdo.result # "none" => a = "error") /\ cdo'.reply = [cdo.reply EXCEPT ![c] = a]
  BY DEF Promised!Call
<1>2. UNCHANGED <<cdo.handled_by, cdo.closing \/ ~cdo.channel, cdo.result # "none">>
  BY DEF Promised!Call
<1>3. cdo'.reply \in [Promised!Callers -> {"uncalled", "waiting", "ok", "error"}]
  BY <1>1 DEF PromiseInv
<1>4. \A d \in Promised!Callers : cdo'.reply[d] = IF d = c THEN a ELSE cdo.reply[d]
  BY <1>1 DEF PromiseInv
<1>5. UndecidedIsFree'
  BY <1>2 DEF PromiseInv, UndecidedIsFree
<1>6. Promised!NobodyLeftBehind'
  BY <1>1, <1>2, <1>4 DEF PromiseInv, Promised!NobodyLeftBehind
<1>7. /\ cdo'.asked \in [HandleWithCaller -> Handler \cup {None, BadName}]
      /\ \A d \in HandleWithCaller \ {c} : cdo'.asked[d] = cdo.asked[d]
  BY AsksLocal DEF Promised!Call, PromiseInv
<1>8. Promised!TruthfulReplies'
  <2> SUFFICES ASSUME NEW d \in Promised!Callers, cdo'.reply[d] = "ok"
               PROVE  /\ (cdo'.result # "none")
                      /\ d \in ClaimCaller => cdo'.handled_by \in {d, Internal}
                      /\ d \notin ClaimCaller =>
                           cdo'.asked[d] = None \/ cdo'.handled_by \in {None, Internal, cdo'.asked[d]}
    BY DEF Promised!TruthfulReplies
  <2>1. d # c /\ cdo.reply[d] = "ok"
    BY <1>1, <1>4
  <2>2. d \notin ClaimCaller => cdo'.asked[d] = cdo.asked[d]
    BY <1>7, <2>1 DEF Promised!Callers
  <2> QED BY <1>2, <2>1, <2>2 DEF PromiseInv, Promised!TruthfulReplies
<1> QED BY <1>3, <1>5, <1>6, <1>7, <1>8 DEF PromiseInv

(* Refusing only turns "waiting" into "error".                           *)
LEMMA RefuseKeepsPromise ==
  ASSUME PromiseInv, NEW cs \in SUBSET HandleWithCaller, Promised!Refuse(cs)
  PROVE  PromiseInv'
<1>1. UNCHANGED <<cdo.handled_by, cdo.closing \/ ~cdo.channel, cdo.result # "none", cdo.asked>>
  BY DEF Promised!Refuse
<1>2. cdo'.reply = [c \in Promised!Callers |-> IF c \in cs THEN "error" ELSE cdo.reply[c]]
  BY DEF Promised!Refuse
<1>3. cdo'.reply \in [Promised!Callers -> {"uncalled", "waiting", "ok", "error"}]
  BY <1>2 DEF PromiseInv
<1>4. UndecidedIsFree'
  BY <1>1 DEF PromiseInv, UndecidedIsFree
<1>5. Promised!NobodyLeftBehind'
  BY <1>1, <1>2 DEF PromiseInv, Promised!NobodyLeftBehind
<1>6. Promised!TruthfulReplies'
  BY <1>1, <1>2 DEF PromiseInv, Promised!TruthfulReplies
<1> QED BY <1>1, <1>3, <1>4, <1>5, <1>6 DEF PromiseInv

(* The decision: nobody was told ok before it, so that whoever is told   *)
(* ok has won it.                                                        *)
LEMMA DecideKeepsPromise ==
  ASSUME PromiseInv, NEW taker, NEW calling \in SUBSET Promised!Callers, Promised!Decide(taker, calling)
  PROVE  PromiseInv'
<1>1. cdo'.result # "none" /\ cdo.result = "none"
  BY DEF Promised!Decide
<1>2. cdo'.reply = [c \in Promised!Callers |->
                   IF cdo.reply[c] = "waiting" \/ c \in calling
                   THEN IF Promised!Won(c, taker) THEN "ok" ELSE "error"
                   ELSE cdo.reply[c]]
  BY DEF Promised!Decide
<1>3. cdo'.reply \in [Promised!Callers -> {"uncalled", "waiting", "ok", "error"}]
  BY <1>2 DEF PromiseInv
<1>4. Promised!NobodyLeftBehind'
  <2>1. \A c \in Promised!Callers : cdo'.reply[c] # "waiting"
    BY <1>2
  <2>2. cdo'.handled_by # None \/ (cdo'.closing \/ ~cdo'.channel)
    BY DEF Promised!Decide
  <2> QED BY <2>1, <2>2 DEF Promised!NobodyLeftBehind
<1>5. Promised!TruthfulReplies'
  <2> SUFFICES ASSUME NEW c \in Promised!Callers, cdo'.reply[c] = "ok"
               PROVE  /\ c \in ClaimCaller => cdo'.handled_by \in {c, Internal}
                      /\ c \notin ClaimCaller =>
                           cdo'.asked[c] = None \/ cdo'.handled_by \in {None, Internal, cdo'.asked[c]}
    BY <1>1 DEF Promised!TruthfulReplies
  <2>1. cdo.reply[c] # "ok"
    BY <1>1 DEF PromiseInv, Promised!TruthfulReplies
  <2>2. Promised!Won(c, taker)
    BY <1>2, <2>1
  <2>3. CASE cdo.handled_by = None
    <3>1. cdo'.handled_by \in IF taker \in ClaimCaller THEN {taker} ELSE {None, taker}
      BY <2>3 DEF Promised!Decide
    <3> QED BY <2>2, <3>1 DEF Promised!Won
  <2>4. CASE cdo.handled_by # None
    <3>1. cdo.handled_by = Internal
      BY <1>1, <2>4 DEF PromiseInv, UndecidedIsFree
    <3>2. cdo'.handled_by = cdo.handled_by
      BY <2>4 DEF Promised!Decide
    <3> QED BY <3>1, <3>2
  <2> QED BY <2>3, <2>4
<1>6. UndecidedIsFree'
  BY <1>1 DEF UndecidedIsFree
<1>7. cdo'.asked \in [HandleWithCaller -> Handler \cup {None, BadName}]
  <2>1. CASE calling = {}
    BY <2>1 DEF Promised!Decide, PromiseInv
  <2>2. ASSUME NEW c \in calling
        PROVE  cdo'.asked \in [HandleWithCaller -> Handler \cup {None, BadName}]
    <3>1. c \in Promised!Callers /\ Promised!Asks(c)
      BY <2>2 DEF Promised!Decide
    <3> QED BY <3>1, AsksLocal DEF PromiseInv
  <2> QED BY <2>1, <2>2
<1> QED BY <1>3, <1>4, <1>5, <1>6, <1>7 DEF PromiseInv

(* The steps of ChannelDispatch keep what its properties rest on.        *)
LEMMA NextKeepsPromise == PromiseInv /\ [Promised!Next]_(Promised!vars) => PromiseInv'
<1> SUFFICES ASSUME PromiseInv, [Promised!Next]_(Promised!vars)
             PROVE  PromiseInv'
  OBVIOUS
<1>1. ASSUME NEW c \in Promised!Callers, Promised!Call(c)
      PROVE  PromiseInv'
  BY <1>1, CallKeepsPromise
<1>2. ASSUME NEW cs \in SUBSET HandleWithCaller, Promised!Refuse(cs)
      PROVE  PromiseInv'
  BY <1>2, RefuseKeepsPromise
<1>3. ASSUME NEW taker \in Handler \cup ClaimCaller \cup {None},
             NEW calling \in {{}} \cup {{c} : c \in Promised!Callers},
             Promised!Decide(taker, calling)
      PROVE  PromiseInv'
  <2>1. calling \in SUBSET Promised!Callers
    OBVIOUS
  <2> QED BY <1>3, <2>1, DecideKeepsPromise
<1>4. CASE Promised!KeepInternal
  BY <1>4
     DEF Promised!KeepInternal, PromiseInv, UndecidedIsFree,
         Promised!NobodyLeftBehind, Promised!TruthfulReplies
<1>5. CASE Promised!Close
  BY <1>5
     DEF Promised!Close, PromiseInv, UndecidedIsFree, Promised!NobodyLeftBehind,
         Promised!TruthfulReplies
<1>6. CASE UNCHANGED Promised!vars
  BY <1>6
     DEF Promised!vars, PromiseInv, UndecidedIsFree, Promised!NobodyLeftBehind,
         Promised!TruthfulReplies
<1> QED BY <1>1, <1>2, <1>3, <1>4, <1>5, <1>6 DEF Promised!Next

(* Once the outcome is known nobody waits for a reply, and the channel   *)
(* has an owner or is closed (_mcd_dispatch_operation_finish): of every  *)
(* operation that implements ChannelDispatch, with plugins or without.   *)
THEOREM DecisionSettlesAll == ImplementsChannelDispatch => []Promised!NobodyLeftBehind
<1>1. PromiseInv => Promised!NobodyLeftBehind
  BY DEF PromiseInv
<1> QED BY InitPromised, NextKeepsPromise, <1>1, PTL
        DEF ImplementsChannelDispatch, Promised!Spec

(* A reply means what the caller takes it to mean: a Claim is told ok    *)
(* only if the claimer got the channel, a HandleWith only if no other    *)
(* handler than the one it named did (_mcd_dispatch_operation_finish).   *)
THEOREM RepliesAreTruthful == ImplementsChannelDispatch => []Promised!TruthfulReplies
<1>1. PromiseInv => Promised!TruthfulReplies
  BY DEF PromiseInv
<1> QED BY InitPromised, NextKeepsPromise, <1>1, PTL
        DEF ImplementsChannelDispatch, Promised!Spec

(* Once there is a result nobody waits for a reply, and the channel has  *)
(* an owner or is closed (NobodyLeftBehind of ChannelDispatch).          *)
THEOREM NobodyIsLeftWaiting ==
  ASSUME Plugin = {}
  PROVE  Spec => []Promised!NobodyLeftBehind
BY KeepsThePromise, DecisionSettlesAll, PTL

(* The replies that callers of Claim and HandleWith were given stay true *)
(* of the operation (TruthfulReplies of ChannelDispatch): who was told   *)
(* that its Claim succeeded has the channel, and a HandleWith that names *)
(* a handler succeeded only if no other handler has it.                  *)
THEOREM CallersAreToldTheTruth ==
  ASSUME Plugin = {}
  PROVE  Spec => []Promised!TruthfulReplies
BY KeepsThePromise, RepliesAreTruthful, PTL
=============================================================================
