---------------------- MODULE DispatchOperationLemmas ---------------------
(*************************************************************************)
(* Lemmas about DispatchOperation, for any constants, in two parts.      *)
(*                                                                       *)
(* Types: what its internal functions leave alone and that they keep the *)
(* types of its fields.  Each C function is an operator from record to   *)
(* record, composed of others, and has a lemma of each kind.  The queue  *)
(* is a sequence from which entries are taken out, which Without does by *)
(* rank: WithoutSome is what the proofs use of it.                       *)
(*                                                                       *)
(* The fate of the channel: the invariant that an outcome leaves no      *)
(* channel behind, that handlers are called with the user's word and     *)
(* that a request goes on (Fate, Awake), through each internal function  *)
(* and the actions that run the clients.  The last event of each action  *)
(* is the check of the client locks (CheckClientLocksFate), so that most *)
(* actions are a step that keeps Ready, followed by it (CheckedMoves).   *)
(*************************************************************************)
EXTENDS DispatchOperation, TLAPS, WellFoundedInduction, SequenceTheorems, FiniteSetTheorems,
        FunctionTheorems

(* The fields of the operation's record, McdDispatchOperationPrivate     *)
(* with what is in flight.                                               *)
Fields ==
  {"needs_approval", "observe_only", "possible_handlers", "failed_handlers", "result",
   "approvals", "successful_handler", "channel", "lost_channel",
   "accepted_by_an_approver", "invoked_observers_if_needed",
   "invoked_approvers_if_needed", "observers_pending",
   "delay_approver_observers_pending", "ado_pending", "handler_unsuitable", "cancelled",
   "trying_handler", "tried_handlers_before_approval", "plugins_pending",
   "did_post_observer_actions", "after_observers", "status", "error", "invalidated",
   "closing", "handled_by", "observing", "adding", "handling", "deciding", "claims",
   "idle", "leaked", "asked", "reply", "signals", "criticals"}

(* A record with those fields and no others.  What follows is about such *)
(* records before it is about typed ones, so that a field can be         *)
(* compared without its type.                                            *)
IsCdo(s) == s = [f \in Fields |-> s[f]]

(* The criticals that say that the approvers' lock (ado_pending) was     *)
(* taken or released out of turn.                                        *)
Misuse == {"inc_ado_pending", "dec_ado_pending"}

(* What the internal functions of the file never write, whatever they    *)
(* call: the observers and approvers in flight and their locks, the      *)
(* candidates, the claims that plugins look at, and the two criticals    *)
(* above.                                                                *)
Fixed(s, t) ==
  /\ IsCdo(t)
  /\ t.needs_approval = s.needs_approval
  /\ t.observe_only = s.observe_only
  /\ t.possible_handlers = s.possible_handlers
  /\ t.failed_handlers = s.failed_handlers
  /\ t.successful_handler = s.successful_handler
  /\ t.accepted_by_an_approver = s.accepted_by_an_approver
  /\ t.invoked_observers_if_needed = s.invoked_observers_if_needed
  /\ t.observers_pending = s.observers_pending
  /\ t.delay_approver_observers_pending = s.delay_approver_observers_pending
  /\ t.ado_pending = s.ado_pending
  /\ t.handler_unsuitable = s.handler_unsuitable
  /\ t.plugins_pending = s.plugins_pending
  /\ t.after_observers = s.after_observers
  /\ t.invalidated = s.invalidated
  /\ t.observing = s.observing
  /\ t.adding = s.adding
  /\ t.claims = s.claims
  /\ t.asked = s.asked
  /\ t.criticals \cap Misuse = s.criticals \cap Misuse

(* What two calls in turn leave alone, both leave alone.                 *)
LEMMA FixedTrans ==
  ASSUME NEW s, NEW t, NEW u, Fixed(s, t), Fixed(t, u)
  PROVE  Fixed(s, u)
  BY DEF Fixed

(* A function that returns early leaves everything alone.                *)
LEMMA FixedSelf ==
  ASSUME NEW s, IsCdo(s) PROVE Fixed(s, s)
  BY DEF Fixed

(* The fields that some internal function writes.                        *)
Varying ==
  {"result", "approvals", "channel", "lost_channel", "invoked_approvers_if_needed",
   "cancelled", "trying_handler", "tried_handlers_before_approval",
   "did_post_observer_actions", "status", "error", "closing", "handled_by", "handling",
   "deciding", "idle", "leaked", "reply", "signals"}

(* Their names, for the provers.                                         *)
LEMMA VaryingNames ==
  /\ "result" \in Varying /\ "approvals" \in Varying /\ "channel" \in Varying
  /\ "lost_channel" \in Varying /\ "invoked_approvers_if_needed" \in Varying
  /\ "cancelled" \in Varying /\ "trying_handler" \in Varying
  /\ "tried_handlers_before_approval" \in Varying
  /\ "did_post_observer_actions" \in Varying /\ "status" \in Varying
  /\ "error" \in Varying /\ "closing" \in Varying /\ "handled_by" \in Varying
  /\ "handling" \in Varying /\ "deciding" \in Varying /\ "idle" \in Varying
  /\ "leaked" \in Varying /\ "reply" \in Varying /\ "signals" \in Varying
  BY DEF Varying

(* A record compared is a record of the operation.                       *)
LEMMA FixedIsCdo ==
  ASSUME NEW s, NEW t, Fixed(s, t) PROVE IsCdo(t)
  BY DEF Fixed

(* An assignment to one varying field leaves the fixed ones alone.       *)
LEMMA FixedExcept ==
  ASSUME NEW s, IsCdo(s), NEW f \in Varying, NEW v
  PROVE  Fixed(s, [s EXCEPT ![f] = v])
  BY DEF Fixed, IsCdo, Fields, Varying

(* So do two assignments.                                                *)
LEMMA FixedExcept2 ==
  ASSUME NEW s, IsCdo(s), NEW f \in Varying, NEW v, NEW g \in Varying, NEW w
  PROVE  Fixed(s, [s EXCEPT ![f] = v, ![g] = w])
<1> DEFINE t == [s EXCEPT ![f] = v]
<1>1. Fixed(s, t) /\ IsCdo(t)
  BY FixedExcept DEF Fixed
<1> HIDE DEF t
<1>2. Fixed(t, [t EXCEPT ![g] = w])
  BY <1>1, FixedExcept
<1>3. Fixed(s, [t EXCEPT ![g] = w])
  BY <1>1, <1>2, FixedTrans
<1> QED BY <1>3 DEF t

(* A critical that is not about the approvers' lock is no fixed field.   *)
LEMMA FixedReport ==
  ASSUME NEW s, IsCdo(s), NEW c, c \notin Misuse PROVE Fixed(s, Report(s, c))
  BY DEF Fixed, IsCdo, Fields, Report

(* The two criticals that internal functions report are of that kind.    *)
LEMMA ReportNames == "lose_channel" \notin Misuse /\ "handle_channels" \notin Misuse
  BY DEF Misuse

(* No idle source will be attached by check_client_locks: the approvers  *)
(* were asked before, or need not be, or the channel is gone (mcd-       *)
(* dispatch-operation.c:427).                                            *)
Unscheduled(s) ==
  s.tried_handlers_before_approval \/ CanBypassApproval(s) \/ ~s.channel

(* What winding up may do: emitting the signals, closing the channel or  *)
(* dropping it, and the check of the client locks that follows Finished. *)
(* The outcome, the queue, the handler and the calls in flight are left  *)
(* alone; flags are raised and never lowered; and the idle source is     *)
(* attached only the first time.                                         *)
Wound(s, t) ==
  /\ Fixed(s, t)
  /\ t.result = s.result
  /\ t.approvals = s.approvals
  /\ t.invoked_approvers_if_needed = s.invoked_approvers_if_needed
  /\ t.trying_handler = s.trying_handler
  /\ t.handled_by = s.handled_by
  /\ t.handling = s.handling
  /\ t.deciding = s.deciding
  /\ t.leaked = s.leaked
  /\ t.reply = s.reply
  /\ s.closing => t.closing
  /\ t.channel => s.channel
  /\ s.tried_handlers_before_approval => t.tried_handlers_before_approval
  /\ s.idle => t.idle
  /\ t.idle # s.idle =>
       ~s.tried_handlers_before_approval /\ t.tried_handlers_before_approval
  /\ Unscheduled(s) => /\ t.idle = s.idle
                       /\ t.tried_handlers_before_approval = s.tried_handlers_before_approval

(* Whether approval can be bypassed depends on the candidates only.      *)
LEMMA CanBypassSame ==
  ASSUME NEW s, NEW t, t.possible_handlers = s.possible_handlers
  PROVE  CanBypassApproval(t) = CanBypassApproval(s)
  BY DEF CanBypassApproval, IsInternal, Existing, Best

(* Winding up leaves the fixed fields alone.                             *)
LEMMA WoundFixed ==
  ASSUME NEW s, NEW t, Wound(s, t) PROVE Fixed(s, t) /\ IsCdo(t)
  BY DEF Wound, Fixed

(* When no source is to be attached, winding up does not change that.    *)
LEMMA UnscheduledStays ==
  ASSUME NEW s, NEW t, Wound(s, t), Unscheduled(s) PROVE Unscheduled(t)
<1>1. t.possible_handlers = s.possible_handlers
  BY DEF Wound, Fixed
<1>2. CanBypassApproval(t) = CanBypassApproval(s)
  BY <1>1, CanBypassSame
<1> QED BY <1>2 DEF Wound, Unscheduled

(* Two functions that wind up, in turn, wind up.                         *)
LEMMA WoundTrans ==
  ASSUME NEW s, NEW t, NEW u, Wound(s, t), Wound(t, u)
  PROVE  Wound(s, u)
<1>1. Fixed(s, u)
  BY FixedTrans DEF Wound
<1>2. Unscheduled(s) => Unscheduled(t)
  BY UnscheduledStays
<1> QED BY <1>1, <1>2 DEF Wound

(* An early return winds up.                                             *)
LEMMA WoundSelf ==
  ASSUME NEW s, IsCdo(s) PROVE Wound(s, s)
  BY FixedSelf DEF Wound

(* The fields that winding up writes without restriction.                *)
Loose ==
  {"lost_channel", "cancelled", "did_post_observer_actions", "status", "error", "signals"}

(* Their names, for the provers.                                         *)
LEMMA LooseNames ==
  /\ "lost_channel" \in Loose /\ "cancelled" \in Loose
  /\ "did_post_observer_actions" \in Loose /\ "status" \in Loose
  /\ "error" \in Loose /\ "signals" \in Loose
  BY DEF Loose

(* An assignment to one of them winds up.                                *)
LEMMA WoundExcept ==
  ASSUME NEW s, IsCdo(s), NEW f \in Loose, NEW v
  PROVE  Wound(s, [s EXCEPT ![f] = v])
<1>1. Fixed(s, [s EXCEPT ![f] = v])
  BY FixedExcept DEF Loose, Varying
<1> QED BY <1>1 DEF Wound, IsCdo, Fields, Loose

(* So does a request to close the channel.                               *)
LEMMA WoundClosing ==
  ASSUME NEW s, IsCdo(s) PROVE Wound(s, [s EXCEPT !.closing = TRUE])
<1> DEFINE t == [s EXCEPT !.closing = TRUE]
<1>1. Fixed(s, t)
  BY FixedExcept, VaryingNames
<1> QED BY <1>1 DEF Wound, IsCdo, Fields

(* So does the loss of the channel object.                               *)
LEMMA WoundChannel ==
  ASSUME NEW s, IsCdo(s) PROVE Wound(s, [s EXCEPT !.channel = FALSE])
<1> DEFINE t == [s EXCEPT !.channel = FALSE]
<1>1. Fixed(s, t)
  BY FixedExcept, VaryingNames
<1> QED BY <1>1 DEF Wound, IsCdo, Fields

(* So does a critical about anything but the approvers' lock.            *)
LEMMA WoundReport ==
  ASSUME NEW s, IsCdo(s), NEW c, c \notin Misuse PROVE Wound(s, Report(s, c))
<1> DEFINE v == s.criticals \cup {c}
           t == [s EXCEPT !.criticals = v]
<1>1. Report(s, c) = t
  BY DEF Report, IsCdo, Fields
<1>2. Fixed(s, t)
  BY <1>1, FixedReport
<1> HIDE DEF v
<1>3. Wound(s, t)
  BY <1>2 DEF Wound, IsCdo, Fields
<1> QED BY <1>1, <1>3

(* A signal is emitted by winding up.                                    *)
LEMMA WoundEmit ==
  ASSUME NEW s, IsCdo(s), NEW x PROVE Wound(s, Emit(s, x))
  BY WoundExcept, LooseNames DEF Emit

(* The channel is aborted (mcd_channel_abort), with its error.           *)
LEMMA WoundAbortChannel ==
  ASSUME NEW s, IsCdo(s) PROVE Wound(s, AbortChannel(s))
<1> DEFINE a == [s EXCEPT !.status = "ABORTED"]
           e == IF s.status \in {"DISPATCHING", "HANDLER_INVOKED"} THEN "OTHER" ELSE s.error
           b == [a EXCEPT !.error = e]
<1>1. AbortChannel(s) = b
  BY DEF AbortChannel, IsCdo, Fields
<1>2. Wound(s, a) /\ IsCdo(a)
  BY WoundExcept, LooseNames, WoundFixed
<1> HIDE DEF a, e
<1>3. Wound(a, b)
  BY <1>2, WoundExcept, LooseNames
<1> HIDE DEF b
<1> QED BY <1>1, <1>2, <1>3, WoundTrans

(* mcd_channel_take_error.                                               *)
LEMMA WoundTakeError ==
  ASSUME NEW s, IsCdo(s), NEW e PROVE Wound(s, TakeError(s, e))
<1> DEFINE a == [s EXCEPT !.error = e]
           b == [a EXCEPT !.status = "FAILED"]
<1>1. TakeError(s, e) = b
  BY DEF TakeError
<1>2. Wound(s, a) /\ IsCdo(a)
  BY WoundExcept, LooseNames, WoundFixed
<1> HIDE DEF a
<1>3. Wound(a, b)
  BY <1>2, WoundExcept, LooseNames
<1> HIDE DEF b
<1> QED BY <1>1, <1>2, <1>3, WoundTrans

(* The tail of check_client_locks that attaches the idle source.         *)
LEMMA WoundScheduleApprovers ==
  ASSUME NEW s, IsCdo(s) PROVE Wound(s, ScheduleApprovers(s))
<1> DEFINE t == [s EXCEPT !.tried_handlers_before_approval = TRUE, !.idle = TRUE]
<1>1. CASE Unscheduled(s)
  <2>1. ScheduleApprovers(s) = s
    BY <1>1 DEF ScheduleApprovers, Unscheduled
  <2> QED BY <2>1, WoundSelf
<1>2. CASE ~Unscheduled(s)
  <2>1. ScheduleApprovers(s) \in {s, t}
    BY DEF ScheduleApprovers
  <2>2. Fixed(s, t)
    BY FixedExcept2, VaryingNames
  <2>3. /\ t.tried_handlers_before_approval /\ t.idle
        /\ \A f \in Fields \ {"tried_handlers_before_approval", "idle"} : t[f] = s[f]
    BY DEF IsCdo, Fields
  <2>4. ~s.tried_handlers_before_approval
    BY <1>2 DEF Unscheduled
  <2>5. Wound(s, t)
    <3> HIDE DEF t
    <3> QED BY <1>2, <2>2, <2>3, <2>4 DEF Wound, Fields
  <2> HIDE DEF t
  <2> QED BY <2>1, <2>5, WoundSelf
<1> QED BY <1>1, <1>2

(* _mcd_dispatch_operation_lose_channel up to the point where it         *)
(* finishes: the channel is gone after it.                               *)
LEMMA WoundDropChannel ==
  ASSUME NEW s, IsCdo(s)
  PROVE  Wound(s, DropChannel(s)) /\ ~DropChannel(s).channel
<1> DEFINE b == AbortChannel(s)
           c == [b EXCEPT !.channel = FALSE]
           v == b.cancelled \/ b.error = "CANCELLED"
           a == [c EXCEPT !.cancelled = v]
           l == [a EXCEPT !.lost_channel = TRUE]
<1>1. Wound(s, b) /\ IsCdo(b)
  BY WoundAbortChannel, WoundFixed
<1>2. DropChannel(s) \in {Report(a, "lose_channel"), l, Emit(a, "ChannelLost")}
  <2> HIDE DEF b
  <2>1. a = [b EXCEPT !.channel = FALSE, !.cancelled = @ \/ b.error = "CANCELLED"]
    BY <1>1 DEF IsCdo, Fields
  <2> HIDE DEF a
  <2> QED BY <2>1 DEF DropChannel, b
<1> HIDE DEF b
<1>3. Wound(b, c) /\ IsCdo(c) /\ ~c.channel
  <2>1. ~c.channel
    BY <1>1 DEF IsCdo, Fields
  <2> QED BY <1>1, <2>1, WoundChannel, WoundFixed
<1> HIDE DEF c, v
<1>4. Wound(c, a) /\ IsCdo(a)
  BY <1>3, WoundExcept, LooseNames, WoundFixed
<1> HIDE DEF a
<1>5. Wound(a, l) /\ Wound(a, Report(a, "lose_channel")) /\ Wound(a, Emit(a, "ChannelLost"))
  BY <1>4, WoundExcept, LooseNames, WoundReport, ReportNames, WoundEmit
<1> HIDE DEF l
<1>6. Wound(a, DropChannel(s))
  BY <1>2, <1>5
<1>7. Wound(s, DropChannel(s)) /\ Wound(c, DropChannel(s))
  BY <1>1, <1>3, <1>4, <1>6, WoundTrans
<1> QED BY <1>3, <1>7 DEF Wound

(* The actions due after the observers, of a finished operation.         *)
LEMMA WoundPostObserverActionsFinished ==
  ASSUME NEW s, IsCdo(s) PROVE Wound(s, PostObserverActionsFinished(s))
<1> DEFINE c == [s EXCEPT !.closing = TRUE]
           d == DropChannel(c)
           e == [d EXCEPT !.did_post_observer_actions = TRUE]
           f == [s EXCEPT !.did_post_observer_actions = TRUE]
<1>1. Wound(s, c) /\ IsCdo(c) /\ Wound(s, f)
  BY WoundExcept, WoundClosing, LooseNames, WoundFixed
<1>2. PostObserverActionsFinished(s) \in {s, e, f}
  BY DEF PostObserverActionsFinished
<1> HIDE DEF c, f
<1>3. Wound(c, d) /\ IsCdo(d)
  BY <1>1, WoundDropChannel, WoundFixed
<1> HIDE DEF d
<1>4. Wound(d, e)
  BY <1>3, WoundExcept, LooseNames
<1> HIDE DEF e
<1> QED BY <1>1, <1>2, <1>3, <1>4, WoundSelf, WoundTrans

(* _mcd_dispatch_operation_check_client_locks of a finished operation:   *)
(* it never looks at the queue.                                          *)
LEMMA WoundCheckClientLocksFinished ==
  ASSUME NEW s, IsCdo(s) PROVE Wound(s, CheckClientLocksFinished(s))
<1> DEFINE p == PostObserverActionsFinished(s)
<1>1. Wound(s, p) /\ IsCdo(p)
  BY WoundPostObserverActionsFinished, WoundFixed
<1>2. CheckClientLocksFinished(s) \in {s, ScheduleApprovers(p)}
  BY DEF CheckClientLocksFinished
<1> HIDE DEF p
<1> QED BY <1>1, <1>2, WoundScheduleApprovers, WoundSelf, WoundTrans

(* mcd_dispatch_operation_actually_finish: Finished, and the check of    *)
(* the locks after it.                                                   *)
LEMMA WoundActuallyFinish ==
  ASSUME NEW s, IsCdo(s) PROVE Wound(s, ActuallyFinish(s))
<1>1. Wound(s, Emit(s, "Finished")) /\ IsCdo(Emit(s, "Finished"))
  BY WoundEmit, WoundFixed
<1> QED BY <1>1, WoundCheckClientLocksFinished, WoundTrans DEF ActuallyFinish

(* _mcd_dispatch_operation_check_finished: the signals that were held    *)
(* back.                                                                 *)
LEMMA WoundCheckFinished ==
  ASSUME NEW s, IsCdo(s) PROVE Wound(s, CheckFinished(s))
<1> DEFINE n == [s EXCEPT !.lost_channel = FALSE]
           e == Emit(n, "ChannelLost")
<1>1. Wound(s, n) /\ IsCdo(n)
  BY WoundExcept, LooseNames, WoundFixed
<1>2. CheckFinished(s) \in {s, e, ActuallyFinish(s), ActuallyFinish(e)}
  BY DEF CheckFinished
<1> HIDE DEF n
<1>3. Wound(s, e) /\ IsCdo(e)
  BY <1>1, WoundEmit, WoundFixed, WoundTrans
<1> HIDE DEF e
<1> QED BY <1>2, <1>3, WoundActuallyFinish, WoundSelf, WoundTrans

(* mcd_dispatch_operation_set_channel_handled_by.                        *)
LEMMA FixedSetChannelHandledBy ==
  ASSUME NEW s, IsCdo(s), NEW w PROVE Fixed(s, SetChannelHandledBy(s, w))
<1> DEFINE v == IF s.status = "FAILED" THEN s.status ELSE "DISPATCHED"
           t == [s EXCEPT !.handled_by = w, !.status = v]
<1>1. SetChannelHandledBy(s, w) = t
  BY DEF SetChannelHandledBy, IsCdo, Fields
<1> HIDE DEF v
<1>2. Fixed(s, t)
  BY FixedExcept2, VaryingNames
<1> QED BY <1>1, <1>2

(* The replies that finish sends to every call that waits.               *)
LEMMA FixedReplyToQueue ==
  ASSUME NEW s, IsCdo(s) PROVE Fixed(s, ReplyToQueue(s))
<1> DEFINE r == [c \in Caller |->
      IF \E a \in QueuedCalls(s) : a.caller = c
      THEN FinalReply(s, CHOOSE a \in QueuedCalls(s) : a.caller = c)
      ELSE s.reply[c]]
<1>1. ReplyToQueue(s) = [s EXCEPT !.approvals = <<>>, !.reply = r]
  BY DEF ReplyToQueue
<1> HIDE DEF r
<1>2. Fixed(s, [s EXCEPT !.approvals = <<>>, !.reply = r])
  BY FixedExcept2, VaryingNames
<1> QED BY <1>1, <1>2

(* _mcd_dispatch_operation_finish.                                       *)
LEMMA FixedFinish ==
  ASSUME NEW s, IsCdo(s), NEW result PROVE Fixed(s, Finish(s, result))
<1> DEFINE r == [s EXCEPT !.result = result]
           f == ReplyToQueue(r)
<1>1. Fixed(s, r) /\ IsCdo(r)
  BY FixedExcept, VaryingNames, FixedIsCdo
<1>2. Finish(s, result) \in {s, f, ActuallyFinish(f)}
  BY DEF Finish
<1> HIDE DEF r
<1>3. Fixed(r, f) /\ IsCdo(f)
  BY <1>1, FixedReplyToQueue, FixedIsCdo
<1> HIDE DEF f
<1> QED BY <1>1, <1>2, <1>3, WoundActuallyFinish, WoundFixed, FixedSelf, FixedTrans

(* _mcd_dispatch_operation_lose_channel.                                 *)
LEMMA FixedLoseChannel ==
  ASSUME NEW s, IsCdo(s) PROVE Fixed(s, LoseChannel(s))
<1>1. Fixed(s, DropChannel(s)) /\ IsCdo(DropChannel(s))
  BY WoundDropChannel, WoundFixed
<1> QED BY <1>1, FixedFinish, FixedTrans DEF LoseChannel

(* A plugin that closes or destroys the channels.                        *)
LEMMA FixedTerminateChannels ==
  ASSUME NEW s, IsCdo(s) PROVE Fixed(s, TerminateChannels(s))
<1> DEFINE c == [s EXCEPT !.closing = TRUE]
<1>1. Fixed(s, c) /\ IsCdo(c)
  BY FixedExcept, VaryingNames, FixedIsCdo
<1>2. TerminateChannels(s) \in {s, LoseChannel(c)}
  BY DEF TerminateChannels
<1> HIDE DEF c
<1> QED BY <1>1, <1>2, FixedLoseChannel, FixedSelf, FixedTrans

(* _mcd_dispatch_operation_close_as_undispatchable.                      *)
LEMMA FixedCloseAsUndispatchable ==
  ASSUME NEW s, IsCdo(s) PROVE Fixed(s, CloseAsUndispatchable(s))
<1> DEFINE f == Finish(s, "Failed")
           e == TakeError(f, "OTHER")
           c == [e EXCEPT !.closing = TRUE]
<1>1. Fixed(s, f) /\ IsCdo(f)
  BY FixedFinish, FixedIsCdo
<1>2. CloseAsUndispatchable(s) \in {f, c}
  BY DEF CloseAsUndispatchable
<1> HIDE DEF f
<1>3. Fixed(f, e) /\ IsCdo(e)
  BY <1>1, WoundTakeError, WoundFixed
<1> HIDE DEF e
<1>4. Fixed(e, c)
  BY <1>3, FixedExcept, VaryingNames
<1> HIDE DEF c
<1> QED BY <1>1, <1>2, <1>3, <1>4, FixedTrans

(* The error for the HandleWith at the head of the queue.                *)
LEMMA FixedRejectHead ==
  ASSUME NEW s, IsCdo(s) PROVE Fixed(s, RejectHead(s))
<1> DEFINE q == Tail(s.approvals)
           r == [s.reply EXCEPT ![Head0(s).caller] = "error"]
<1>1. RejectHead(s) = [s EXCEPT !.approvals = q, !.reply = r]
  BY DEF RejectHead, IsCdo, Fields
<1> HIDE DEF q, r
<1>2. Fixed(s, [s EXCEPT !.approvals = q, !.reply = r])
  BY FixedExcept2, VaryingNames
<1> QED BY <1>1, <1>2

(* mcd_dispatch_operation_handle_channels.                               *)
LEMMA FixedHandleChannels ==
  ASSUME NEW s, IsCdo(s) PROVE Fixed(s, HandleChannels(s))
<1> DEFINE r == Report(s, "handle_channels")
<1>1. Fixed(s, r) /\ IsCdo(r)
  BY FixedReport, ReportNames, FixedIsCdo
<1> DEFINE i == [s EXCEPT !.handling = s.trying_handler, !.status = "HANDLER_INVOKED"]
           l == [r EXCEPT !.leaked = TRUE]
<1>2. HandleChannels(s) \in {i, l}
  BY DEF HandleChannels
<1>3. Fixed(s, i)
  BY FixedExcept2, VaryingNames
<1> HIDE DEF r
<1>4. Fixed(r, l)
  BY <1>1, FixedExcept, VaryingNames
<1> HIDE DEF i, l
<1> QED BY <1>1, <1>2, <1>3, <1>4, FixedTrans

(* mcd_dispatch_operation_try_handler.                                   *)
LEMMA FixedTryHandler ==
  ASSUME NEW s, IsCdo(s), NEW h PROVE Fixed(s, TryHandler(s, h))
<1> DEFINE t == [s EXCEPT !.trying_handler = h]
<1>1. Fixed(s, t) /\ IsCdo(t)
  BY FixedExcept, VaryingNames, FixedIsCdo
<1>2. TryHandler(s, h) \in {HandleChannels(t), [t EXCEPT !.deciding = Plugin]}
  BY DEF TryHandler
<1> HIDE DEF t
<1> QED BY <1>1, <1>2, FixedExcept, VaryingNames, FixedHandleChannels, FixedTrans

(* _mcd_dispatch_operation_try_next_handler.                             *)
LEMMA FixedTryNextHandler ==
  ASSUME NEW s, IsCdo(s), NEW ranOut, Fixed(s, ranOut)
  PROVE  Fixed(s, TryNextHandler(s, ranOut))
<1>1. TryNextHandler(s, ranOut) \in
        {TryHandler(s, PreferredHandler(s)), RejectHead(s),
         TryHandler(s, Best(s, Candidates(s))), ranOut}
  BY DEF TryNextHandler
<1> QED BY <1>1, FixedTryHandler, FixedRejectHead

(* The actions due after the observers.                                  *)
LEMMA FixedPostObserverActions ==
  ASSUME NEW s, IsCdo(s) PROVE Fixed(s, PostObserverActions(s))
<1> DEFINE t == TerminateChannels(s)
<1>1. Fixed(s, t) /\ IsCdo(t)
  BY FixedTerminateChannels, FixedIsCdo
<1>2. PostObserverActions(s) \in
        {s, [s EXCEPT !.did_post_observer_actions = TRUE],
         [t EXCEPT !.did_post_observer_actions = TRUE]}
  BY DEF PostObserverActions
<1> HIDE DEF t
<1> QED BY <1>1, <1>2, FixedExcept, VaryingNames, FixedSelf, FixedTrans

(* The claim at the head of the queue is granted.                        *)
LEMMA FixedAcceptClaim ==
  ASSUME NEW s, IsCdo(s), NEW fresh PROVE Fixed(s, AcceptClaim(s, fresh))
<1> DEFINE caller == Head0(s).caller
           r == [s.reply EXCEPT ![caller] = "ok"]
           p == [s EXCEPT !.approvals = Tail(s.approvals), !.reply = r]
           h == IF p.channel THEN SetChannelHandledBy(p, caller) ELSE p
           f == Finish(h, "NotYours")
<1>1. AcceptClaim(s, fresh) = [f EXCEPT !.idle = f.idle /\ ~fresh]
  BY DEF AcceptClaim, IsCdo, Fields
<1> HIDE DEF r, caller
<1>2. Fixed(s, p) /\ IsCdo(p)
  BY FixedExcept2, VaryingNames, FixedIsCdo
<1> HIDE DEF p
<1>3. Fixed(p, h) /\ IsCdo(h)
  BY <1>2, FixedSetChannelHandledBy, FixedSelf, FixedIsCdo
<1> HIDE DEF h
<1>4. Fixed(h, f) /\ IsCdo(f)
  BY <1>3, FixedFinish, FixedIsCdo
<1> HIDE DEF f
<1>5. Fixed(f, [f EXCEPT !.idle = f.idle /\ ~fresh])
  BY <1>4, FixedExcept, VaryingNames
<1> QED BY <1>1, <1>2, <1>3, <1>4, <1>5, FixedTrans

(* The queue is looked at once the locks are free.                       *)
LEMMA FixedProceed ==
  ASSUME NEW s, IsCdo(s), NEW fresh PROVE Fixed(s, Proceed(s, fresh))
<1> DEFINE i == [s EXCEPT !.handled_by = Internal]
           h == [s EXCEPT !.invoked_approvers_if_needed = TRUE,
                          !.idle = s.idle /\ ~fresh]
           t == IF HeadIs(s, "HANDLE_WITH") THEN h ELSE s
           g == [t EXCEPT !.tried_handlers_before_approval = TRUE, !.idle = TRUE]
<1>1. Fixed(s, i) /\ Fixed(s, h) /\ IsCdo(h)
  BY FixedExcept, FixedExcept2, VaryingNames, FixedIsCdo
<1>2. Proceed(s, fresh) \in
        {i, s, CloseAsUndispatchable(s), AcceptClaim(s, fresh),
         TryNextHandler(t, CloseAsUndispatchable(t)), TryNextHandler(t, g), t}
  <2>1. h = [s EXCEPT !.invoked_approvers_if_needed = TRUE, !.idle = @ /\ ~fresh]
    BY DEF IsCdo, Fields
  <2> QED BY <2>1 DEF Proceed
<1> HIDE DEF i, h
<1>3. Fixed(s, t) /\ IsCdo(t)
  BY <1>1, FixedSelf
<1> HIDE DEF t
<1>4. Fixed(t, g)
  BY <1>3, FixedExcept2, VaryingNames
<1> HIDE DEF g
<1>5. Fixed(t, TryNextHandler(t, g))
  BY <1>3, <1>4, FixedTryNextHandler
<1>6. Fixed(t, TryNextHandler(t, CloseAsUndispatchable(t)))
  BY <1>3, FixedTryNextHandler, FixedCloseAsUndispatchable
<1> QED BY <1>1, <1>2, <1>3, <1>5, <1>6, FixedSelf, FixedTrans,
           FixedCloseAsUndispatchable, FixedAcceptClaim

(* _mcd_dispatch_operation_check_client_locks, as a whole: whatever it   *)
(* calls, no lock of a client changes.                                   *)
LEMMA FixedCheckClientLocks ==
  ASSUME NEW s, IsCdo(s) PROVE Fixed(s, CheckClientLocks(s))
<1> DEFINE a == PostObserverActions(s)
           b == ScheduleApprovers(a)
           fresh == b.idle /\ ~a.idle
<1>1. Fixed(s, a) /\ IsCdo(a)
  BY FixedPostObserverActions, FixedIsCdo
<1>2. CheckClientLocks(s) \in {s, b, Proceed(b, fresh)}
  BY DEF CheckClientLocks
<1> HIDE DEF a, fresh
<1>3. Fixed(a, b) /\ IsCdo(b)
  BY <1>1, WoundScheduleApprovers, WoundFixed
<1> HIDE DEF b
<1> QED BY <1>1, <1>2, <1>3, FixedProceed, FixedSelf, FixedTrans

(* The type of each field.                                               *)
FieldType ==
  [ needs_approval |-> BOOLEAN,
    observe_only |-> BOOLEAN,
    possible_handlers |-> Seq(Handler \cup {Internal}),
    failed_handlers |-> SUBSET Handler,
    result |-> Result,
    approvals |-> Seq(Approval),
    successful_handler |-> Handler \cup {None},
    channel |-> BOOLEAN,
    lost_channel |-> BOOLEAN,
    accepted_by_an_approver |-> BOOLEAN,
    invoked_observers_if_needed |-> BOOLEAN,
    invoked_approvers_if_needed |-> BOOLEAN,
    observers_pending |-> Nat,
    delay_approver_observers_pending |-> Nat,
    ado_pending |-> Nat,
    handler_unsuitable |-> BOOLEAN,
    cancelled |-> BOOLEAN,
    trying_handler |-> Handler \cup {None},
    tried_handlers_before_approval |-> BOOLEAN,
    plugins_pending |-> Nat,
    did_post_observer_actions |-> BOOLEAN,
    after_observers |-> PluginAction,
    status |-> ChannelStatus,
    error |-> ChannelError,
    invalidated |-> BOOLEAN,
    closing |-> BOOLEAN,
    handled_by |-> Handler \cup Caller \cup {None, Internal},
    observing |-> SUBSET Observer,
    adding |-> SUBSET Approver,
    handling |-> Handler \cup {None},
    deciding |-> SUBSET Plugin,
    claims |-> [ClaimCaller -> SUBSET Plugin],
    idle |-> BOOLEAN,
    leaked |-> BOOLEAN,
    asked |-> [HandleWithCaller -> Handler \cup {None, BadName}],
    reply |-> [Caller -> {"uncalled", "waiting", "ok", "error"}],
    signals |-> Seq({"ChannelLost", "Finished"}),
    criticals |-> SUBSET Critical ]

(* The fields, one by one, for the provers.                              *)
LEMMA FieldNames ==
  /\ "needs_approval" \in Fields
  /\ "observe_only" \in Fields
  /\ "possible_handlers" \in Fields
  /\ "failed_handlers" \in Fields
  /\ "result" \in Fields
  /\ "approvals" \in Fields
  /\ "successful_handler" \in Fields
  /\ "channel" \in Fields
  /\ "lost_channel" \in Fields
  /\ "accepted_by_an_approver" \in Fields
  /\ "invoked_observers_if_needed" \in Fields
  /\ "invoked_approvers_if_needed" \in Fields
  /\ "observers_pending" \in Fields
  /\ "delay_approver_observers_pending" \in Fields
  /\ "ado_pending" \in Fields
  /\ "handler_unsuitable" \in Fields
  /\ "cancelled" \in Fields
  /\ "trying_handler" \in Fields
  /\ "tried_handlers_before_approval" \in Fields
  /\ "plugins_pending" \in Fields
  /\ "did_post_observer_actions" \in Fields
  /\ "after_observers" \in Fields
  /\ "status" \in Fields
  /\ "error" \in Fields
  /\ "invalidated" \in Fields
  /\ "closing" \in Fields
  /\ "handled_by" \in Fields
  /\ "observing" \in Fields
  /\ "adding" \in Fields
  /\ "handling" \in Fields
  /\ "deciding" \in Fields
  /\ "claims" \in Fields
  /\ "idle" \in Fields
  /\ "leaked" \in Fields
  /\ "asked" \in Fields
  /\ "reply" \in Fields
  /\ "signals" \in Fields
  /\ "criticals" \in Fields
  BY DEF Fields

(* Their types, one by one.                                              *)
LEMMA FieldTypes ==
  /\ FieldType.needs_approval = BOOLEAN
  /\ FieldType.observe_only = BOOLEAN
  /\ FieldType.possible_handlers = Seq(Handler \cup {Internal})
  /\ FieldType.failed_handlers = SUBSET Handler
  /\ FieldType.result = Result
  /\ FieldType.approvals = Seq(Approval)
  /\ FieldType.successful_handler = Handler \cup {None}
  /\ FieldType.channel = BOOLEAN
  /\ FieldType.lost_channel = BOOLEAN
  /\ FieldType.accepted_by_an_approver = BOOLEAN
  /\ FieldType.invoked_observers_if_needed = BOOLEAN
  /\ FieldType.invoked_approvers_if_needed = BOOLEAN
  /\ FieldType.observers_pending = Nat
  /\ FieldType.delay_approver_observers_pending = Nat
  /\ FieldType.ado_pending = Nat
  /\ FieldType.handler_unsuitable = BOOLEAN
  /\ FieldType.cancelled = BOOLEAN
  /\ FieldType.trying_handler = Handler \cup {None}
  /\ FieldType.tried_handlers_before_approval = BOOLEAN
  /\ FieldType.plugins_pending = Nat
  /\ FieldType.did_post_observer_actions = BOOLEAN
  /\ FieldType.after_observers = PluginAction
  /\ FieldType.status = ChannelStatus
  /\ FieldType.error = ChannelError
  /\ FieldType.invalidated = BOOLEAN
  /\ FieldType.closing = BOOLEAN
  /\ FieldType.handled_by = Handler \cup Caller \cup {None, Internal}
  /\ FieldType.observing = SUBSET Observer
  /\ FieldType.adding = SUBSET Approver
  /\ FieldType.handling = Handler \cup {None}
  /\ FieldType.deciding = SUBSET Plugin
  /\ FieldType.claims = [ClaimCaller -> SUBSET Plugin]
  /\ FieldType.idle = BOOLEAN
  /\ FieldType.leaked = BOOLEAN
  /\ FieldType.asked = [HandleWithCaller -> Handler \cup {None, BadName}]
  /\ FieldType.reply = [Caller -> {"uncalled", "waiting", "ok", "error"}]
  /\ FieldType.signals = Seq({"ChannelLost", "Finished"})
  /\ FieldType.criticals = SUBSET Critical
  BY DEF FieldType

(* The type of the record, field by field: a step that writes two fields *)
(* is typed by the types of two values.                                  *)
Typed(s) == IsCdo(s) /\ \A f \in Fields : s[f] \in FieldType[f]

(* A typed record is a record of the operation.                          *)
LEMMA TypedIsCdo ==
  ASSUME NEW s, Typed(s) PROVE IsCdo(s)
  BY DEF Typed

(* The fields of a typed record have their types.                        *)
LEMMA TypedFields ==
  ASSUME NEW s, Typed(s)
  PROVE
  /\ s.needs_approval \in BOOLEAN
  /\ s.observe_only \in BOOLEAN
  /\ s.possible_handlers \in Seq(Handler \cup {Internal})
  /\ s.failed_handlers \in SUBSET Handler
  /\ s.result \in Result
  /\ s.approvals \in Seq(Approval)
  /\ s.successful_handler \in Handler \cup {None}
  /\ s.channel \in BOOLEAN
  /\ s.lost_channel \in BOOLEAN
  /\ s.accepted_by_an_approver \in BOOLEAN
  /\ s.invoked_observers_if_needed \in BOOLEAN
  /\ s.invoked_approvers_if_needed \in BOOLEAN
  /\ s.observers_pending \in Nat
  /\ s.delay_approver_observers_pending \in Nat
  /\ s.ado_pending \in Nat
  /\ s.handler_unsuitable \in BOOLEAN
  /\ s.cancelled \in BOOLEAN
  /\ s.trying_handler \in Handler \cup {None}
  /\ s.tried_handlers_before_approval \in BOOLEAN
  /\ s.plugins_pending \in Nat
  /\ s.did_post_observer_actions \in BOOLEAN
  /\ s.after_observers \in PluginAction
  /\ s.status \in ChannelStatus
  /\ s.error \in ChannelError
  /\ s.invalidated \in BOOLEAN
  /\ s.closing \in BOOLEAN
  /\ s.handled_by \in Handler \cup Caller \cup {None, Internal}
  /\ s.observing \in SUBSET Observer
  /\ s.adding \in SUBSET Approver
  /\ s.handling \in Handler \cup {None}
  /\ s.deciding \in SUBSET Plugin
  /\ s.claims \in [ClaimCaller -> SUBSET Plugin]
  /\ s.idle \in BOOLEAN
  /\ s.leaked \in BOOLEAN
  /\ s.asked \in [HandleWithCaller -> Handler \cup {None, BadName}]
  /\ s.reply \in [Caller -> {"uncalled", "waiting", "ok", "error"}]
  /\ s.signals \in Seq({"ChannelLost", "Finished"})
  /\ s.criticals \in SUBSET Critical
  BY FieldNames, FieldTypes DEF Typed

(* Typed is membership of CdoType, which TypeOK is about.                *)
LEMMA TypedIsType ==
  ASSUME NEW s
  PROVE  Typed(s) <=> s \in CdoType
<1>1. ASSUME Typed(s) PROVE s \in CdoType
  BY <1>1, TypedFields DEF Typed, IsCdo, Fields, CdoType
<1>2. ASSUME s \in CdoType PROVE Typed(s)
  <2>1. IsCdo(s)
    BY <1>2 DEF CdoType, IsCdo, Fields
  <2>2. ASSUME NEW f \in Fields PROVE s[f] \in FieldType[f]
    BY <1>2, <2>2, FieldTypes DEF CdoType, Fields
  <2> QED BY <2>1, <2>2 DEF Typed
<1> QED BY <1>1, <1>2

(* An assignment of the right type to a field keeps the type.            *)
LEMMA TypedExcept ==
  ASSUME NEW s, Typed(s), NEW f \in Fields, NEW v \in FieldType[f]
  PROVE  Typed([s EXCEPT ![f] = v])
  BY DEF Typed, IsCdo

(* So do two.                                                            *)
LEMMA TypedExcept2 ==
  ASSUME NEW s, Typed(s), NEW f \in Fields, NEW v \in FieldType[f],
         NEW g \in Fields, NEW w \in FieldType[g]
  PROVE  Typed([s EXCEPT ![f] = v, ![g] = w])
  BY DEF Typed, IsCdo

(* A set of positions that is not empty has a first one.                 *)
LEMMA LeastOfSet ==
  ASSUME NEW I, I \subseteq Nat, I # {}
  PROVE  \E i \in I : \A j \in I : i <= j
<1>1. PICK i \in I : \A j \in I : ~(<<j, i>> \in OpToRel(<, Nat))
  BY NatLessThanWellFounded, WFMin
<1>2. \A j \in I : ~(j < i)
  BY <1>1 DEF OpToRel
<1> QED BY <1>2

(* The best candidate is the first of the listed ones                    *)
(* (_mcd_dispatch_operation_try_next_handler walks the list in order).   *)
LEMMA BestIsListed ==
  ASSUME NEW s, Typed(s), NEW I, I \subseteq DOMAIN s.possible_handlers, I # {}
  PROVE  \E i \in I : /\ Best(s, I) = s.possible_handlers[i]
                      /\ \A j \in I : i <= j
<1>1. I \subseteq Nat
  BY TypedFields
<1>2. \E i \in I : \A j \in I : i <= j
  BY <1>1, LeastOfSet
<1> DEFINE i == CHOOSE i \in I : \A j \in I : i <= j
<1>3. i \in I /\ \A j \in I : i <= j
  BY <1>2
<1>4. Best(s, I) = s.possible_handlers[i]
  BY DEF Best
<1> QED BY <1>3, <1>4

(* The handler it finds is on the bus: possible handlers that are not    *)
(* are skipped.                                                          *)
LEMMA BestCandidate ==
  ASSUME NEW s, Typed(s), registry \subseteq Handler, Candidates(s) # {}
  PROVE  Best(s, Candidates(s)) \in registry /\ Best(s, Candidates(s)) \in Handler
<1>1. Candidates(s) \subseteq DOMAIN s.possible_handlers
  BY DEF Candidates, Existing
<1>2. PICK i \in Candidates(s) : Best(s, Candidates(s)) = s.possible_handlers[i]
  BY <1>1, BestIsListed
<1> QED BY <1>2 DEF Candidates, Existing

(* A proper subset of a finite set is smaller.                           *)
LEMMA ProperSubset ==
  ASSUME NEW S, IsFiniteSet(S), NEW T, T \subseteq S, T # S
  PROVE  Cardinality(T) \in Nat /\ Cardinality(S) \in Nat /\ Cardinality(T) < Cardinality(S)
<1>1. T \in SUBSET S
  OBVIOUS
<1>2. /\ IsFiniteSet(T) /\ Cardinality(T) <= Cardinality(S)
      /\ Cardinality(S) # Cardinality(T)
  BY <1>1, FS_Subset
<1>3. Cardinality(T) \in Nat /\ Cardinality(S) \in Nat
  BY <1>2, FS_CardinalityType
<1> QED BY <1>2, <1>3

(* The positions before one.                                             *)
Below(I, i) == {j \in I : j < i}

(* Each position of a finite set has a rank of its own.                  *)
LEMMA RanksDiffer ==
  ASSUME NEW I, IsFiniteSet(I), I \subseteq Nat
  PROVE  /\ Cardinality(I) \in Nat
         /\ \A i \in I : Cardinality(Below(I, i)) \in 0 .. Cardinality(I) - 1
         /\ \A i, k \in I : Cardinality(Below(I, i)) = Cardinality(Below(I, k)) => i = k
<1> DEFINE m == Cardinality(I)
<1>1. m \in Nat
  BY FS_CardinalityType
<1>2. \A i \in I : Below(I, i) \subseteq I /\ i \notin Below(I, i)
  BY DEF Below
<1>3. \A i, k \in I : i < k => Below(I, i) \subseteq Below(I, k) /\ i \in Below(I, k)
  <2>1. \A j \in I : j \in Int
    OBVIOUS
  <2>2. \A j, i, k \in I : j < i /\ i < k => j < k
    BY <2>1
  <2> QED BY <2>2 DEF Below
<1>4. \A i \in I : Cardinality(Below(I, i)) \in 0 .. m - 1
  <2> SUFFICES ASSUME NEW i \in I PROVE Cardinality(Below(I, i)) \in 0 .. m - 1
    OBVIOUS
  <2>1. Below(I, i) \subseteq I /\ Below(I, i) # I
    BY <1>2
  <2>2. Cardinality(Below(I, i)) \in Nat /\ Cardinality(Below(I, i)) < m
    BY <2>1, ProperSubset
  <2> QED BY <2>2, <1>1
<1>5. ASSUME NEW i \in I, NEW k \in I, i < k
      PROVE  Cardinality(Below(I, i)) # Cardinality(Below(I, k))
  <2>1. Below(I, i) \subseteq Below(I, k) /\ Below(I, i) # Below(I, k)
    BY <1>2, <1>3, <1>5
  <2>2. IsFiniteSet(Below(I, k))
    BY <1>2, FS_Subset
  <2>3. Cardinality(Below(I, i)) < Cardinality(Below(I, k))
    BY <2>1, <2>2, ProperSubset
  <2> QED BY <2>3, <1>4
<1>6. \A i, k \in I : i = k \/ i < k \/ k < i
  OBVIOUS
<1> QED BY <1>1, <1>4, <1>5, <1>6

(* Every rank is that of a position.                                     *)
LEMMA Ranks ==
  ASSUME NEW I, IsFiniteSet(I), I \subseteq Nat, NEW n \in 1 .. Cardinality(I)
  PROVE  \E i \in I : Cardinality(Below(I, i)) = n - 1
<1> DEFINE r == [i \in I |-> Cardinality(Below(I, i))]
           R == {r[i] : i \in I}
           m == Cardinality(I)
<1>1. m \in Nat
  BY FS_CardinalityType
<1>2. /\ \A i \in I : r[i] \in 0 .. m - 1
      /\ \A i, k \in I : r[i] = r[k] => i = k
  BY RanksDiffer
<1>3. ExistsBijection(I, R)
  <2>1. r \in [I -> R]
    OBVIOUS
  <2>2. \A t \in R : \E i \in I : r[i] = t
    OBVIOUS
  <2> HIDE DEF r, R
  <2>3. r \in Bijection(I, R)
    BY <1>2, <2>1, <2>2, Fun_IsBij
  <2> QED BY <2>3 DEF ExistsBijection
<1>4. /\ R \subseteq 0 .. m - 1
      /\ \A t \in R : \E i \in I : t = Cardinality(Below(I, i))
  BY <1>2
<1> HIDE DEF r, R
<1>5. IsFiniteSet(R) /\ Cardinality(R) = m
  BY <1>3, FS_Bijection
<1>6. IsFiniteSet(0 .. m - 1) /\ Cardinality(0 .. m - 1) = m
  <2>1. 0 \in Int /\ m - 1 \in Int
    BY <1>1
  <2> QED BY <1>1, <2>1, FS_Interval
<1> HIDE DEF m
<1>7. R = 0 .. m - 1
  BY <1>4, <1>5, <1>6, FS_Subset
<1>8. n - 1 \in R
  BY <1>1, <1>7 DEF m
<1> QED BY <1>4, <1>8

(* What is left of a queue when some of its entries are taken out        *)
(* (g_queue_delete_link in set_handler_failed): a queue of the rest, in  *)
(* order, each of them once.                                             *)
LEMMA WithoutSome ==
  ASSUME NEW S, NEW q \in Seq(S), NEW gone
  PROVE  /\ Without(q, gone) \in Seq(S)
         /\ \A n \in DOMAIN Without(q, gone) :
              \E i \in DOMAIN q \ gone : Without(q, gone)[n] = q[i]
         /\ \A n, m \in DOMAIN Without(q, gone) : n # m =>
              \E i, j \in DOMAIN q \ gone :
                i # j /\ Without(q, gone)[n] = q[i] /\ Without(q, gone)[m] = q[j]
         /\ \A i \in DOMAIN q \ gone :
              \E n \in DOMAIN Without(q, gone) : Without(q, gone)[n] = q[i]
<1> DEFINE left == DOMAIN q \ gone
           c == Cardinality(left)
           nth(n) == CHOOSE i \in left : Cardinality(Below(left, i)) = n - 1
           e == [n \in 1 .. c |-> q[nth(n)]]
<1>1. IsFiniteSet(left) /\ left \subseteq Nat
  <2>1. DOMAIN q = 1 .. Len(q) /\ Len(q) \in Nat
    OBVIOUS
  <2>2. IsFiniteSet(1 .. Len(q))
    BY <2>1, FS_Interval
  <2> QED BY <2>1, <2>2, FS_Subset
<1>2. Without(q, gone) = e
  BY DEF Without, Below
<1>3. \A i \in left : q[i] \in S
  OBVIOUS
<1> HIDE DEF left
<1>4. /\ c \in Nat
      /\ \A i \in left : Cardinality(Below(left, i)) \in 0 .. c - 1
      /\ \A i, k \in left : Cardinality(Below(left, i)) = Cardinality(Below(left, k)) => i = k
  BY <1>1, RanksDiffer
<1>5. \A n \in 1 .. c : nth(n) \in left /\ Cardinality(Below(left, nth(n))) = n - 1
  <2>1. \A n \in 1 .. c : \E i \in left : Cardinality(Below(left, i)) = n - 1
    BY <1>1, Ranks
  <2> QED BY <2>1
<1> HIDE DEF nth, c
<1>6. e \in Seq(S) /\ DOMAIN e = 1 .. c
  BY <1>3, <1>4, <1>5, IsASeq
<1>7. \A n \in 1 .. c : e[n] = q[nth(n)]
  OBVIOUS
<1>8. \A n, m \in 1 .. c : n # m => nth(n) # nth(m)
  <2> SUFFICES ASSUME NEW n \in 1 .. c, NEW m \in 1 .. c, nth(n) = nth(m) PROVE n = m
    OBVIOUS
  <2>1. n - 1 = m - 1
    BY <1>5
  <2> QED BY <2>1
<1>9. \A i \in left : \E n \in 1 .. c : nth(n) = i
  <2> SUFFICES ASSUME NEW i \in left PROVE \E n \in 1 .. c : nth(n) = i
    OBVIOUS
  <2> DEFINE n == Cardinality(Below(left, i)) + 1
  <2>1. n \in 1 .. c /\ Cardinality(Below(left, i)) = n - 1
    BY <1>4
  <2> HIDE DEF n
  <2>2. nth(n) = i
    BY <1>4, <1>5, <2>1
  <2> QED BY <2>1, <2>2
<1> HIDE DEF e
<1>10. \A n \in 1 .. c : nth(n) \in left
  BY <1>5
<1> QED BY <1>2, <1>6, <1>7, <1>8, <1>9, <1>10 DEF left

(* A critical is logged.                                                 *)
LEMMA TypedReport ==
  ASSUME NEW s, Typed(s), NEW c \in Critical PROVE Typed(Report(s, c))
<1> DEFINE v == s.criticals \cup {c}
<1>1. v \in FieldType.criticals
  BY TypedFields, FieldTypes
<1>2. Report(s, c) = [s EXCEPT !.criticals = v]
  BY TypedIsCdo DEF Report, IsCdo, Fields
<1> HIDE DEF v
<1> QED BY <1>1, <1>2, TypedExcept, FieldNames

(* A signal is emitted.                                                  *)
LEMMA TypedEmit ==
  ASSUME NEW s, Typed(s), NEW x \in {"ChannelLost", "Finished"} PROVE Typed(Emit(s, x))
<1> DEFINE v == Append(s.signals, x)
<1>1. v \in FieldType.signals
  BY TypedFields, FieldTypes
<1>2. Emit(s, x) = [s EXCEPT !.signals = v]
  BY TypedIsCdo DEF Emit, IsCdo, Fields
<1> HIDE DEF v
<1> QED BY <1>1, <1>2, TypedExcept, FieldNames

(* The channel is aborted.                                               *)
LEMMA TypedAbortChannel ==
  ASSUME NEW s, Typed(s) PROVE Typed(AbortChannel(s))
<1> DEFINE e == IF s.status \in {"DISPATCHING", "HANDLER_INVOKED"} THEN "OTHER" ELSE s.error
<1>1. e \in FieldType.error /\ "ABORTED" \in FieldType.status
  BY TypedFields, FieldTypes DEF ChannelError, ChannelStatus
<1>2. AbortChannel(s) = [s EXCEPT !.status = "ABORTED", !.error = e]
  BY TypedIsCdo DEF AbortChannel, IsCdo, Fields
<1> HIDE DEF e
<1>3. Typed([s EXCEPT !.status = "ABORTED", !.error = e])
  BY <1>1, TypedExcept2, FieldNames
<1> QED BY <1>2, <1>3

(* The channel takes an error.                                           *)
LEMMA TypedTakeError ==
  ASSUME NEW s, Typed(s), NEW e \in ChannelError PROVE Typed(TakeError(s, e))
<1>1. e \in FieldType.error /\ "FAILED" \in FieldType.status
  BY FieldTypes DEF ChannelStatus
<1> QED BY <1>1, TypedExcept2, FieldNames DEF TakeError

(* The owner of the channel is recorded.                                 *)
LEMMA TypedSetChannelHandledBy ==
  ASSUME NEW s, Typed(s), NEW w \in Handler \cup Caller \cup {None, Internal}
  PROVE  Typed(SetChannelHandledBy(s, w))
<1> DEFINE v == IF s.status = "FAILED" THEN s.status ELSE "DISPATCHED"
<1>1. w \in FieldType.handled_by /\ v \in FieldType.status
  BY FieldTypes DEF ChannelStatus
<1>2. SetChannelHandledBy(s, w) = [s EXCEPT !.handled_by = w, !.status = v]
  BY TypedIsCdo DEF SetChannelHandledBy, IsCdo, Fields
<1> HIDE DEF v
<1>3. Typed([s EXCEPT !.handled_by = w, !.status = v])
  BY <1>1, TypedExcept2, FieldNames
<1> QED BY <1>2, <1>3

(* A flag is set.                                                        *)
LEMMA TypedFlag ==
  ASSUME NEW s, Typed(s), NEW v \in BOOLEAN, NEW w \in BOOLEAN
  PROVE  /\ Typed([s EXCEPT !.idle = v])
         /\ Typed([s EXCEPT !.tried_handlers_before_approval = w, !.idle = v])
         /\ Typed([s EXCEPT !.invoked_approvers_if_needed = w, !.idle = v])
         /\ Typed([s EXCEPT !.invoked_approvers_if_needed = v])
         /\ Typed([s EXCEPT !.invoked_observers_if_needed = v])
         /\ Typed([s EXCEPT !.did_post_observer_actions = v])
         /\ Typed([s EXCEPT !.channel = w, !.cancelled = v])
         /\ Typed([s EXCEPT !.lost_channel = v])
         /\ Typed([s EXCEPT !.closing = v])
         /\ Typed([s EXCEPT !.invalidated = v])
         /\ Typed([s EXCEPT !.leaked = v])
<1>1. /\ v \in FieldType.idle /\ w \in FieldType.tried_handlers_before_approval
      /\ w \in FieldType.invoked_approvers_if_needed /\ v \in FieldType.did_post_observer_actions
      /\ v \in FieldType.invoked_approvers_if_needed
      /\ v \in FieldType.invoked_observers_if_needed
      /\ w \in FieldType.channel /\ v \in FieldType.cancelled
      /\ v \in FieldType.lost_channel /\ v \in FieldType.closing
      /\ v \in FieldType.invalidated /\ v \in FieldType.leaked
  BY FieldTypes
<1> QED BY <1>1, TypedExcept, TypedExcept2, FieldNames

(* The idle source of the approvers is attached.                         *)
LEMMA TypedScheduleApprovers ==
  ASSUME NEW s, Typed(s) PROVE Typed(ScheduleApprovers(s))
  BY TypedFlag DEF ScheduleApprovers

(* The channel is dropped.                                               *)
LEMMA TypedDropChannel ==
  ASSUME NEW s, Typed(s) PROVE Typed(DropChannel(s))
<1> DEFINE b == AbortChannel(s)
           v == b.cancelled \/ b.error = "CANCELLED"
           a == [b EXCEPT !.channel = FALSE, !.cancelled = v]
           l == [a EXCEPT !.lost_channel = TRUE]
<1>1. Typed(b)
  BY TypedAbortChannel
<1>2. DropChannel(s) \in {Report(a, "lose_channel"), l, Emit(a, "ChannelLost")}
  <2>1. IsCdo(b)
    BY <1>1, TypedIsCdo
  <2> HIDE DEF b
  <2>2. a = [b EXCEPT !.channel = FALSE, !.cancelled = @ \/ b.error = "CANCELLED"]
    BY <2>1 DEF IsCdo, Fields
  <2> HIDE DEF a
  <2> QED BY <2>2 DEF DropChannel, b
<1>3. v \in BOOLEAN
  OBVIOUS
<1> HIDE DEF b, v
<1>4. Typed(a)
  BY <1>1, <1>3, TypedFlag
<1> HIDE DEF a
<1>5. Typed(l)
  BY <1>4, TypedFlag
<1>6. Typed(Report(a, "lose_channel")) /\ Typed(Emit(a, "ChannelLost"))
  BY <1>4, TypedReport, TypedEmit DEF Critical
<1> HIDE DEF l
<1> QED BY <1>2, <1>5, <1>6

(* A finished operation does what was due after its observers.           *)
LEMMA TypedPostObserverActionsFinished ==
  ASSUME NEW s, Typed(s) PROVE Typed(PostObserverActionsFinished(s))
<1> DEFINE c == [s EXCEPT !.closing = TRUE]
           d == DropChannel(c)
           e == [d EXCEPT !.did_post_observer_actions = TRUE]
           f == [s EXCEPT !.did_post_observer_actions = TRUE]
<1>1. Typed(c) /\ Typed(f)
  BY TypedFlag
<1>2. PostObserverActionsFinished(s) \in {s, e, f}
  BY DEF PostObserverActionsFinished
<1> HIDE DEF c, f
<1>3. Typed(d)
  BY <1>1, TypedDropChannel
<1> HIDE DEF d
<1>4. Typed(e)
  BY <1>3, TypedFlag
<1> HIDE DEF e
<1> QED BY <1>1, <1>2, <1>4

(* A finished operation checks its locks.                                *)
LEMMA TypedCheckClientLocksFinished ==
  ASSUME NEW s, Typed(s) PROVE Typed(CheckClientLocksFinished(s))
  BY TypedPostObserverActionsFinished, TypedScheduleApprovers DEF CheckClientLocksFinished

(* Finished is emitted.                                                  *)
LEMMA TypedActuallyFinish ==
  ASSUME NEW s, Typed(s) PROVE Typed(ActuallyFinish(s))
  BY TypedEmit, TypedCheckClientLocksFinished DEF ActuallyFinish

(* Every call in the queue is answered.                                  *)
LEMMA TypedReplyToQueue ==
  ASSUME NEW s, Typed(s) PROVE Typed(ReplyToQueue(s))
<1> DEFINE ans(c) == FinalReply(s, CHOOSE a \in QueuedCalls(s) : a.caller = c)
           r == [c \in Caller |->
                   IF \E a \in QueuedCalls(s) : a.caller = c THEN ans(c) ELSE s.reply[c]]
           q == << >>
<1>1. ReplyToQueue(s) = [s EXCEPT !.approvals = q, !.reply = r]
  BY DEF ReplyToQueue
<1>2. \A c : ans(c) \in {"ok", "error"}
  BY DEF FinalReply
<1> HIDE DEF ans
<1>3. r \in FieldType.reply /\ q \in FieldType.approvals
  BY <1>2, TypedFields, FieldTypes
<1> HIDE DEF r, q
<1>4. Typed([s EXCEPT !.approvals = q, !.reply = r])
  BY <1>3, TypedExcept2, FieldNames
<1> QED BY <1>1, <1>4

(* The operation finishes.                                               *)
LEMMA TypedFinish ==
  ASSUME NEW s, Typed(s), NEW result \in {"NotYours", "Lost", "Failed"}
  PROVE  Typed(Finish(s, result))
<1> DEFINE r == [s EXCEPT !.result = result]
           f == ReplyToQueue(r)
<1>1. Finish(s, result) \in {s, f, ActuallyFinish(f)}
  BY DEF Finish
<1>2. result \in FieldType.result
  BY FieldTypes DEF Result
<1>3. Typed(r)
  BY <1>2, TypedExcept, FieldNames
<1> HIDE DEF r
<1>4. Typed(f)
  BY <1>3, TypedReplyToQueue
<1> HIDE DEF f
<1> QED BY <1>1, <1>4, TypedActuallyFinish

(* The channel is lost.                                                  *)
LEMMA TypedLoseChannel ==
  ASSUME NEW s, Typed(s) PROVE Typed(LoseChannel(s))
  BY TypedDropChannel, TypedFinish DEF LoseChannel

(* A plugin terminates the channel.                                      *)
LEMMA TypedTerminateChannels ==
  ASSUME NEW s, Typed(s) PROVE Typed(TerminateChannels(s))
  BY TypedFlag, TypedLoseChannel DEF TerminateChannels

(* The signals that were held back are emitted.                          *)
LEMMA TypedCheckFinished ==
  ASSUME NEW s, Typed(s) PROVE Typed(CheckFinished(s))
<1> DEFINE n == [s EXCEPT !.lost_channel = FALSE]
           e == Emit(n, "ChannelLost")
<1>1. CheckFinished(s) \in {s, e, ActuallyFinish(s), ActuallyFinish(e)}
  BY DEF CheckFinished
<1>2. Typed(n)
  BY TypedFlag
<1> HIDE DEF n
<1>3. Typed(e)
  BY <1>2, TypedEmit
<1> HIDE DEF e
<1> QED BY <1>1, <1>3, TypedActuallyFinish

(* No handler is left: the channel is closed.                            *)
LEMMA TypedCloseAsUndispatchable ==
  ASSUME NEW s, Typed(s) PROVE Typed(CloseAsUndispatchable(s))
<1> DEFINE f == Finish(s, "Failed")
           e == TakeError(f, "OTHER")
           c == [e EXCEPT !.closing = TRUE]
<1>1. CloseAsUndispatchable(s) \in {f, c}
  BY DEF CloseAsUndispatchable
<1>2. Typed(f)
  BY TypedFinish
<1> HIDE DEF f
<1>3. Typed(e)
  BY <1>2, TypedTakeError DEF ChannelError
<1> HIDE DEF e
<1>4. Typed(c)
  BY <1>3, TypedFlag
<1> HIDE DEF c
<1> QED BY <1>1, <1>2, <1>4

(* The call at the head of the queue is answered.                        *)
LEMMA TypedAnswerHead ==
  ASSUME NEW s, Typed(s), s.approvals # <<>>, NEW r \in {"ok", "error"}
  PROVE  Typed([s EXCEPT !.approvals = Tail(s.approvals),
                         !.reply = [s.reply EXCEPT ![Head0(s).caller] = r]])
<1> DEFINE q == Tail(s.approvals)
           v == [s.reply EXCEPT ![Head0(s).caller] = r]
<1>1. q \in FieldType.approvals
  BY TypedFields, FieldTypes
<1>2. v \in FieldType.reply
  BY TypedFields, FieldTypes
<1> HIDE DEF q, v
<1>3. Typed([s EXCEPT !.approvals = q, !.reply = v])
  BY <1>1, <1>2, TypedExcept2, FieldNames
<1> QED BY <1>3 DEF q, v

(* The head of a queue that is not empty is an approval.                 *)
LEMMA TypedHead ==
  ASSUME NEW s, Typed(s), s.approvals # <<>>
  PROVE  /\ Head0(s).type \in ApprovalType
         /\ Head0(s).client_bus_name \in Handler \cup {None}
         /\ Head0(s).caller \in Caller \cup {None}
<1>1. s.approvals \in Seq(Approval)
  BY TypedFields
<1>2. s.approvals[1] \in Approval
  BY <1>1
<1> QED BY <1>2 DEF Head0, Approval

(* The HandleWith at the head is refused.                                *)
LEMMA TypedRejectHead ==
  ASSUME NEW s, Typed(s), s.approvals # <<>> PROVE Typed(RejectHead(s))
<1>1. RejectHead(s) = [s EXCEPT !.approvals = Tail(s.approvals),
                         !.reply = [s.reply EXCEPT ![Head0(s).caller] = "error"]]
  BY TypedIsCdo DEF RejectHead, IsCdo, Fields
<1> QED BY <1>1, TypedAnswerHead

(* HandleChannels is called.                                             *)
LEMMA TypedHandleChannels ==
  ASSUME NEW s, Typed(s) PROVE Typed(HandleChannels(s))
<1> DEFINE r == Report(s, "handle_channels")
           h == s.trying_handler
           i == [s EXCEPT !.handling = h, !.status = "HANDLER_INVOKED"]
           l == [r EXCEPT !.leaked = TRUE]
<1>1. HandleChannels(s) \in {i, l}
  BY DEF HandleChannels
<1>2. h \in FieldType.handling /\ "HANDLER_INVOKED" \in FieldType.status
  BY TypedFields, FieldTypes DEF ChannelStatus
<1>3. Typed(r)
  BY TypedReport DEF Critical
<1> HIDE DEF h, r
<1>4. Typed(i)
  BY <1>2, TypedExcept2, FieldNames
<1>5. Typed(l)
  BY <1>3, TypedFlag
<1> HIDE DEF i, l
<1> QED BY <1>1, <1>4, <1>5

(* A handler is tried.                                                   *)
LEMMA TypedTryHandler ==
  ASSUME NEW s, Typed(s), NEW h \in Handler PROVE Typed(TryHandler(s, h))
<1> DEFINE t == [s EXCEPT !.trying_handler = h]
<1>1. TryHandler(s, h) \in {HandleChannels(t), [t EXCEPT !.deciding = Plugin]}
  BY DEF TryHandler
<1>2. h \in FieldType.trying_handler /\ Plugin \in FieldType.deciding
  BY FieldTypes
<1>3. Typed(t)
  BY <1>2, TypedExcept, FieldNames
<1> HIDE DEF t
<1>4. Typed([t EXCEPT !.deciding = Plugin])
  BY <1>2, <1>3, TypedExcept, FieldNames
<1> QED BY <1>1, <1>3, <1>4, TypedHandleChannels

(* The next handler is tried.                                            *)
LEMMA TypedTryNextHandler ==
  ASSUME NEW s, Typed(s), registry \subseteq Handler, NEW ranOut, Typed(ranOut)
  PROVE  Typed(TryNextHandler(s, ranOut))
<1>1. CASE PreferredIsUsable(s)
  <2>1. PreferredHandler(s) \in Handler
    BY <1>1 DEF PreferredIsUsable
  <2>2. ~HandleWithIsGone(s)
    BY <1>1 DEF PreferredIsUsable, HandleWithIsGone
  <2>3. TryNextHandler(s, ranOut) = TryHandler(s, PreferredHandler(s))
    BY <1>1, <2>2 DEF TryNextHandler
  <2> QED BY <2>1, <2>3, TypedTryHandler
<1>2. CASE ~PreferredIsUsable(s) /\ HandleWithIsGone(s)
  <2>1. s.approvals # <<>>
    BY <1>2 DEF HandleWithIsGone, HeadIs
  <2> QED BY <1>2, <2>1, TypedRejectHead DEF TryNextHandler
<1>3. CASE ~PreferredIsUsable(s) /\ ~HandleWithIsGone(s) /\ Candidates(s) # {}
  <2>1. Best(s, Candidates(s)) \in Handler
    BY <1>3, BestCandidate
  <2> QED BY <1>3, <2>1, TypedTryHandler DEF TryNextHandler
<1>4. CASE ~PreferredIsUsable(s) /\ ~HandleWithIsGone(s) /\ Candidates(s) = {}
  BY <1>4 DEF TryNextHandler
<1> QED BY <1>1, <1>2, <1>3, <1>4

(* What was due after the observers is done.                             *)
LEMMA TypedPostObserverActions ==
  ASSUME NEW s, Typed(s) PROVE Typed(PostObserverActions(s))
  BY TypedTerminateChannels, TypedFlag DEF PostObserverActions

(* A claim is granted.                                                   *)
LEMMA TypedAcceptClaim ==
  ASSUME NEW s, Typed(s), s.approvals # <<>>, NEW fresh \in BOOLEAN
  PROVE  Typed(AcceptClaim(s, fresh))
<1> DEFINE caller == Head0(s).caller
           p == [s EXCEPT !.approvals = Tail(s.approvals),
                          !.reply = [s.reply EXCEPT ![caller] = "ok"]]
           h == IF p.channel THEN SetChannelHandledBy(p, caller) ELSE p
           f == Finish(h, "NotYours")
           v == f.idle /\ ~fresh
<1>1. AcceptClaim(s, fresh) = [f EXCEPT !.idle = v]
  BY TypedIsCdo DEF AcceptClaim, IsCdo, Fields
<1>2. Typed(p)
  BY TypedAnswerHead
<1>3. caller \in Handler \cup Caller \cup {None, Internal}
  BY TypedHead
<1> HIDE DEF caller, p
<1>4. Typed(h)
  BY <1>2, <1>3, TypedSetChannelHandledBy
<1> HIDE DEF h
<1>5. Typed(f)
  BY <1>4, TypedFinish
<1>6. v \in BOOLEAN
  OBVIOUS
<1> HIDE DEF f, v
<1>7. Typed([f EXCEPT !.idle = v])
  BY <1>5, <1>6, TypedFlag
<1> QED BY <1>1, <1>7

(* The head of the queue is acted upon.                                  *)
LEMMA TypedProceed ==
  ASSUME NEW s, Typed(s), registry \subseteq Handler, NEW fresh \in BOOLEAN
  PROVE  Typed(Proceed(s, fresh))
<1> DEFINE i == [s EXCEPT !.handled_by = Internal]
           v == s.idle /\ ~fresh
           h == [s EXCEPT !.invoked_approvers_if_needed = TRUE, !.idle = v]
           t == IF HeadIs(s, "HANDLE_WITH") THEN h ELSE s
           g == [t EXCEPT !.tried_handlers_before_approval = TRUE, !.idle = TRUE]
<1>1. \/ Proceed(s, fresh) \in
           {i, s, CloseAsUndispatchable(s),
            TryNextHandler(t, CloseAsUndispatchable(t)), TryNextHandler(t, g), t}
      \/ HeadIs(s, "CLAIM") /\ Proceed(s, fresh) = AcceptClaim(s, fresh)
  <2>1. h = [s EXCEPT !.invoked_approvers_if_needed = TRUE, !.idle = @ /\ ~fresh]
    BY TypedIsCdo DEF IsCdo, Fields
  <2> QED BY <2>1 DEF Proceed
<1>2. Typed(i)
  <2>1. Internal \in FieldType.handled_by
    BY FieldTypes
  <2> QED BY <2>1, TypedExcept, FieldNames
<1>3. v \in BOOLEAN
  OBVIOUS
<1> HIDE DEF i, v
<1>4. Typed(h)
  BY <1>3, TypedFlag
<1> HIDE DEF h
<1>5. Typed(t)
  BY <1>4
<1> HIDE DEF t
<1>6. Typed(g)
  BY <1>5, TypedFlag
<1> HIDE DEF g
<1>7. Typed(TryNextHandler(t, g)) /\ Typed(TryNextHandler(t, CloseAsUndispatchable(t)))
  BY <1>5, <1>6, TypedTryNextHandler, TypedCloseAsUndispatchable
<1>8. HeadIs(s, "CLAIM") => Typed(AcceptClaim(s, fresh))
  BY TypedAcceptClaim DEF HeadIs
<1> QED BY <1>1, <1>2, <1>5, <1>7, <1>8, TypedCloseAsUndispatchable

(* The locks are checked: with everything above, each internal function  *)
(* keeps the types.                                                      *)
LEMMA TypedCheckClientLocks ==
  ASSUME NEW s, Typed(s), registry \subseteq Handler PROVE Typed(CheckClientLocks(s))
<1> DEFINE a == PostObserverActions(s)
           b == ScheduleApprovers(a)
           fresh == b.idle /\ ~a.idle
<1>1. CheckClientLocks(s) \in {s, b, Proceed(b, fresh)}
  BY DEF CheckClientLocks
<1>2. Typed(b)
  BY TypedPostObserverActions, TypedScheduleApprovers
<1>3. fresh \in BOOLEAN
  OBVIOUS
<1> HIDE DEF b, fresh
<1> QED BY <1>1, <1>2, <1>3, TypedProceed

-----------------------------------------------------------------------------
(* The queue of approvals and the observers' locks.                      *)

(* A call of the D-Bus methods Claim and HandleWith waits in the queue   *)
(* of approvals.                                                         *)
Queued(s, c) == \E i \in DOMAIN s.approvals : s.approvals[i].caller = c

(* A Claim waits for plugins that look at it.                            *)
Pending(s, c) == c \in ClaimCaller /\ s.claims[c] # {}

(* The queue and the replies agree: a call is queued at most once, it is *)
(* not looked at by plugins at the same time, and it waits exactly if it *)
(* is in one of the two places, or was refused by one plugin while       *)
(* others still look.                                                    *)
QueueInv(s) ==
  /\ \A i \in DOMAIN s.approvals : s.approvals[i].caller # None =>
       /\ s.reply[s.approvals[i].caller] = "waiting"
       /\ ~Pending(s, s.approvals[i].caller)
  /\ \A i, j \in DOMAIN s.approvals :
       i # j /\ s.approvals[i].caller = s.approvals[j].caller => s.approvals[i].caller = None
  /\ \A c \in Caller : Pending(s, c) => s.reply[c] \in {"waiting", "error"}
  /\ \A c \in Caller : s.reply[c] = "waiting" => Queued(s, c) \/ Pending(s, c)

(* A reply that was sent is the reply: nobody is answered twice.         *)
Answered(s, t) ==
  \A c \in Caller : s.reply[c] \in {"ok", "error"} => t.reply[c] = s.reply[c]

(* The queue, the claims and the replies are left alone.                 *)
SameQueue(s, t) ==
  t.approvals = s.approvals /\ t.reply = s.reply /\ t.claims = s.claims

(* The queue agrees with the replies afterwards, and no reply was        *)
(* changed.                                                              *)
KeepsQueue(s, t) == QueueInv(t) /\ Answered(s, t)

(* No reply changes in two steps that change none.                       *)
LEMMA AnsweredTrans ==
  ASSUME NEW s, NEW t, NEW u, Answered(s, t), Answered(t, u)
  PROVE  Answered(s, u)
  BY DEF Answered

(* Two functions that keep the queue, in turn.                           *)
LEMMA KeepsTrans ==
  ASSUME NEW s, NEW t, NEW u, KeepsQueue(s, t), KeepsQueue(t, u)
  PROVE  KeepsQueue(s, u)
  BY AnsweredTrans DEF KeepsQueue

(* A function that leaves the queue alone keeps it.                      *)
LEMMA SameKeeps ==
  ASSUME NEW s, QueueInv(s), NEW t, SameQueue(s, t)
  PROVE  KeepsQueue(s, t)
<1>1. Answered(s, t)
  BY DEF Answered, SameQueue
<1>2. QueueInv(t)
  BY DEF QueueInv, SameQueue, Queued, Pending
<1> QED BY <1>1, <1>2 DEF KeepsQueue

(* An early return keeps the queue.                                      *)
LEMMA SelfKeeps ==
  ASSUME NEW s, QueueInv(s)
  PROVE  KeepsQueue(s, s)
  BY SameKeeps DEF SameQueue

(* Winding up keeps the queue.                                           *)
LEMMA WoundKeeps ==
  ASSUME NEW s, QueueInv(s), NEW t, Wound(s, t)
  PROVE  KeepsQueue(s, t)
  BY SameKeeps DEF SameQueue, Wound, Fixed

(* So does recording the owner.                                          *)
LEMMA SetChannelHandledByKeeps ==
  ASSUME NEW s, Typed(s), QueueInv(s), NEW w
  PROVE  KeepsQueue(s, SetChannelHandledBy(s, w))
<1> DEFINE v == IF s.status = "FAILED" THEN s.status ELSE "DISPATCHED"
           t == [s EXCEPT !.handled_by = w, !.status = v]
<1>1. SetChannelHandledBy(s, w) = t
  BY TypedIsCdo DEF SetChannelHandledBy, IsCdo, Fields
<1> HIDE DEF v
<1>2. SameQueue(s, t)
  BY TypedIsCdo DEF SameQueue, IsCdo, Fields
<1> HIDE DEF t
<1> QED BY <1>1, <1>2, SameKeeps

(* The head of the queue is answered and leaves the queue: no other      *)
(* entry is of the same call.                                            *)
LEMMA AnswerHeadKeeps ==
  ASSUME NEW s, Typed(s), QueueInv(s), s.approvals # <<>>, NEW r \in {"ok", "error"}
  PROVE  KeepsQueue(s, [s EXCEPT !.approvals = Tail(s.approvals),
                                 !.reply = [s.reply EXCEPT ![Head0(s).caller] = r]])
<1> DEFINE q == s.approvals
           p == Tail(q)
           h == Head0(s).caller
           v == [s.reply EXCEPT ![h] = r]
           t == [s EXCEPT !.approvals = p, !.reply = v]
<1>1. /\ q \in Seq(Approval) /\ s.reply \in [Caller -> {"uncalled", "waiting", "ok", "error"}]
      /\ q # <<>> /\ h = q[1].caller
  BY TypedFields DEF Head0
<1>2. /\ DOMAIN p = 1 .. Len(q) - 1 /\ DOMAIN q = 1 .. Len(q) /\ Len(q) \in Nat /\ Len(q) # 0
      /\ \A i \in DOMAIN p : i + 1 \in DOMAIN q /\ i + 1 # 1 /\ p[i] = q[i + 1]
  BY <1>1
<1>3. 1 \in DOMAIN q
  BY <1>2
<1>4. /\ \A c \in Caller : v[c] = IF c = h THEN r ELSE s.reply[c]
      /\ \A c : c # h => v[c] = s.reply[c]
  BY <1>1
<1>5. t.approvals = p /\ t.reply = v /\ t.claims = s.claims
  <2> HIDE DEF p, v
  <2> QED BY TypedIsCdo DEF IsCdo, Fields
<1>6. \A c : Pending(t, c) <=> Pending(s, c)
  BY <1>5 DEF Pending
<1>7. \A i \in DOMAIN p : p[i].caller # None => p[i].caller # h
  BY <1>1, <1>2, <1>3 DEF QueueInv
<1>8. \A c \in Caller : c # h /\ Queued(s, c) => \E i \in DOMAIN p : p[i].caller = c
  <2> SUFFICES ASSUME NEW c \in Caller, c # h, Queued(s, c)
               PROVE  \E i \in DOMAIN p : p[i].caller = c
    OBVIOUS
  <2>1. PICK i \in DOMAIN q : q[i].caller = c
    BY DEF Queued
  <2>2. i # 1
    BY <2>1, <1>1
  <2>3. i - 1 \in DOMAIN p /\ p[i - 1] = q[i]
    BY <2>1, <2>2, <1>2
  <2> QED BY <2>1, <2>3
<1>9. h # None => s.reply[h] = "waiting" /\ ~Pending(s, h)
  BY <1>1, <1>3 DEF QueueInv
<1>10. None \notin Caller
  BY NamesAssumption
<1> HIDE DEF p, v, h
<1>11. QueueInv(t)
  <2> HIDE DEF t
  <2>1. \A i \in DOMAIN t.approvals : t.approvals[i].caller # None =>
          /\ t.reply[t.approvals[i].caller] = "waiting"
          /\ ~Pending(t, t.approvals[i].caller)
    BY <1>2, <1>4, <1>5, <1>6, <1>7 DEF QueueInv
  <2>2. \A i, j \in DOMAIN t.approvals :
          i # j /\ t.approvals[i].caller = t.approvals[j].caller => t.approvals[i].caller = None
    <3> SUFFICES ASSUME NEW i \in DOMAIN p, NEW j \in DOMAIN p, i # j, p[i].caller = p[j].caller
                 PROVE  p[i].caller = None
      BY <1>5
    <3>1. i + 1 # j + 1
      BY <1>2
    <3> QED BY <3>1, <1>2 DEF QueueInv
  <2>3. \A c \in Caller : Pending(t, c) => t.reply[c] \in {"waiting", "error"}
    BY <1>4, <1>5, <1>6, <1>9, <1>10 DEF QueueInv
  <2>4. \A c \in Caller : t.reply[c] = "waiting" => Queued(t, c) \/ Pending(t, c)
    <3> SUFFICES ASSUME NEW c \in Caller, t.reply[c] = "waiting" PROVE Queued(t, c) \/ Pending(t, c)
      OBVIOUS
    <3>1. c # h /\ s.reply[c] = "waiting"
      BY <1>4, <1>5
    <3> QED BY <3>1, <1>5, <1>6, <1>8 DEF QueueInv, Queued
  <2> QED BY <2>1, <2>2, <2>3, <2>4 DEF QueueInv
<1>12. Answered(s, t)
  <2> HIDE DEF t
  <2> QED BY <1>4, <1>5, <1>9, <1>10 DEF Answered
<1>13. KeepsQueue(s, t)
  BY <1>11, <1>12 DEF KeepsQueue
<1> QED BY <1>13 DEF p, v, h

(* So it is when it is a HandleWith that must be refused.                *)
LEMMA RejectHeadKeeps ==
  ASSUME NEW s, Typed(s), QueueInv(s), s.approvals # <<>> PROVE KeepsQueue(s, RejectHead(s))
<1>1. RejectHead(s) = [s EXCEPT !.approvals = Tail(s.approvals),
                         !.reply = [s.reply EXCEPT ![Head0(s).caller] = "error"]]
  BY TypedIsCdo DEF RejectHead, IsCdo, Fields
<1> QED BY <1>1, AnswerHeadKeeps

(* finish answers everyone in the queue, each once, and empties it.      *)
LEMMA ReplyToQueueEffect ==
  ASSUME NEW s, Typed(s), QueueInv(s)
  PROVE  /\ KeepsQueue(s, ReplyToQueue(s))
         /\ ReplyToQueue(s).approvals = <<>>
         /\ \A c \in Caller : ~Pending(s, c) => ReplyToQueue(s).reply[c] # "waiting"
<1> DEFINE ans(c) == FinalReply(s, CHOOSE a \in QueuedCalls(s) : a.caller = c)
           r == [c \in Caller |->
                   IF \E a \in QueuedCalls(s) : a.caller = c THEN ans(c) ELSE s.reply[c]]
           q == << >>
           t == [s EXCEPT !.approvals = q, !.reply = r]
<1>1. ReplyToQueue(s) = t
  BY DEF ReplyToQueue
<1>2. \A c : ans(c) \in {"ok", "error"}
  BY DEF FinalReply
<1> HIDE DEF ans
<1>3. None \notin Caller
  BY NamesAssumption
<1>4. \A c \in Caller : (\E a \in QueuedCalls(s) : a.caller = c) <=> Queued(s, c)
  BY <1>3 DEF QueuedCalls, Queued
<1>5. \A c \in Caller : IF Queued(s, c) THEN r[c] \in {"ok", "error"} ELSE r[c] = s.reply[c]
  BY <1>2, <1>4
<1>6. \A c \in Caller : Queued(s, c) => s.reply[c] = "waiting" /\ ~Pending(s, c)
  BY <1>3 DEF QueueInv, Queued
<1>7. DOMAIN q = {}
  OBVIOUS
<1> HIDE DEF r, q
<1>8. t.approvals = q /\ t.reply = r /\ t.claims = s.claims
  BY TypedIsCdo DEF IsCdo, Fields
<1> HIDE DEF t
<1>9. \A c : Pending(t, c) <=> Pending(s, c)
  BY <1>8 DEF Pending
<1>10. Answered(s, t)
  BY <1>5, <1>6, <1>8 DEF Answered
<1>11. \A c \in Caller : Pending(t, c) => t.reply[c] \in {"waiting", "error"}
  BY <1>5, <1>6, <1>8, <1>9 DEF QueueInv
<1>12. \A c \in Caller : t.reply[c] = "waiting" => Pending(t, c)
  BY <1>5, <1>6, <1>8, <1>9 DEF QueueInv
<1>13. QueueInv(t)
  BY <1>7, <1>8, <1>11, <1>12 DEF QueueInv
<1> QED BY <1>1, <1>8, <1>9, <1>10, <1>12, <1>13 DEF q, KeepsQueue

(* Who waits is a Claim that plugins still look at.                      *)
NobodyWaits(s) == \A c \in Caller : ~Pending(s, c) => s.reply[c] # "waiting"

(* What _mcd_dispatch_operation_finish does to each field.               *)
LEMMA FinishFields ==
  ASSUME NEW s, Typed(s), NEW r \in {"NotYours", "Lost", "Failed"}
  PROVE  LET t == Finish(s, r)
         IN /\ t.result = IF s.result = "none" THEN r ELSE s.result
            /\ t.handled_by = s.handled_by
            /\ t.trying_handler = s.trying_handler
            /\ t.handling = s.handling
            /\ t.deciding = s.deciding
            /\ t.leaked = s.leaked
            /\ t.invoked_approvers_if_needed = s.invoked_approvers_if_needed
            /\ s.closing => t.closing
            /\ t.channel => s.channel
            /\ s.tried_handlers_before_approval => t.tried_handlers_before_approval
            /\ s.idle => t.idle
            /\ t.idle # s.idle =>
                 ~s.tried_handlers_before_approval /\ t.tried_handlers_before_approval
            /\ Unscheduled(s) =>
                 /\ t.idle = s.idle
                 /\ t.tried_handlers_before_approval = s.tried_handlers_before_approval
            /\ s.result = "none" => t.approvals = <<>>
            /\ s.result # "none" => t.approvals = s.approvals /\ t.reply = s.reply
<1> DEFINE u == [s EXCEPT !.result = r]
           f == ReplyToQueue(u)
           t == Finish(s, r)
<1>1. CASE s.result # "none"
  <2>1. t = s
    BY <1>1 DEF Finish
  <2> QED BY <1>1, <2>1
<1>2. CASE s.result = "none"
  <2>1. t \in {f, ActuallyFinish(f)}
    BY <1>2 DEF Finish
  <2>2. IsCdo(u)
    BY TypedIsCdo DEF IsCdo
  <2>3. u.result = r /\ \A g \in Fields \ {"result"} : u[g] = s[g]
    BY TypedIsCdo DEF IsCdo, Fields
  <2> HIDE DEF u
  <2>4. IsCdo(f) /\ f.approvals = <<>> /\ \A g \in Fields \ {"approvals", "reply"} : f[g] = u[g]
    <3> DEFINE v == [c \in Caller |->
                       IF \E a \in QueuedCalls(u) : a.caller = c
                       THEN FinalReply(u, CHOOSE a \in QueuedCalls(u) : a.caller = c)
                       ELSE u.reply[c]]
               w == [u EXCEPT !.approvals = << >>, !.reply = v]
    <3>1. f = w
      BY DEF ReplyToQueue
    <3> HIDE DEF v, f
    <3>2. IsCdo(w) /\ w.approvals = <<>> /\ \A g \in Fields \ {"approvals", "reply"} : w[g] = u[g]
      BY <2>2 DEF IsCdo, Fields
    <3> QED BY <3>1, <3>2
  <2> HIDE DEF f
  <2>5. Wound(f, t)
    BY <2>1, <2>4, WoundActuallyFinish, WoundSelf
  <2>6. f.result = r /\ \A g \in Fields \ {"approvals", "reply", "result"} : f[g] = s[g]
    <3>1. "result" \in Fields \ {"approvals", "reply"}
      BY DEF Fields
    <3> QED BY <2>3, <2>4, <3>1
  <2>7. /\ f.handled_by = s.handled_by /\ f.trying_handler = s.trying_handler
        /\ f.handling = s.handling /\ f.deciding = s.deciding /\ f.closing = s.closing
        /\ f.channel = s.channel /\ f.idle = s.idle /\ f.leaked = s.leaked
        /\ f.invoked_approvers_if_needed = s.invoked_approvers_if_needed
        /\ f.tried_handlers_before_approval = s.tried_handlers_before_approval
        /\ f.possible_handlers = s.possible_handlers
    BY <2>6 DEF Fields
  <2>8. Unscheduled(s) => Unscheduled(f)
    <3>1. CanBypassApproval(f) = CanBypassApproval(s)
      BY <2>7, CanBypassSame
    <3> QED BY <2>7, <3>1 DEF Unscheduled
  <2> HIDE DEF t
  <2> QED BY <1>2, <2>4, <2>5, <2>6, <2>7, <2>8 DEF Wound, t
<1> QED BY <1>1, <1>2

(* What it does to the queue: nobody in it is left waiting.              *)
LEMMA FinishEffect ==
  ASSUME NEW s, Typed(s), QueueInv(s), NEW r \in {"NotYours", "Lost", "Failed"}
  PROVE  /\ KeepsQueue(s, Finish(s, r))
         /\ s.result = "none" => NobodyWaits(Finish(s, r))
<1> DEFINE u == [s EXCEPT !.result = r]
           f == ReplyToQueue(u)
           t == Finish(s, r)
<1>1. CASE s.result # "none"
  <2>1. t = s
    BY <1>1 DEF Finish
  <2> QED BY <1>1, <2>1, SelfKeeps
<1>2. CASE s.result = "none"
  <2>1. t \in {f, ActuallyFinish(f)}
    BY <1>2 DEF Finish
  <2>2. r \in FieldType.result
    BY FieldTypes DEF Result
  <2>3. Typed(u)
    BY <2>2, TypedExcept, FieldNames
  <2>4. SameQueue(s, u)
    BY TypedIsCdo DEF SameQueue, IsCdo, Fields
  <2> HIDE DEF u
  <2>5. KeepsQueue(s, u) /\ QueueInv(u)
    BY <2>4, SameKeeps DEF KeepsQueue
  <2>6. /\ KeepsQueue(u, f)
        /\ \A c \in Caller : ~Pending(u, c) => f.reply[c] # "waiting"
    BY <2>3, <2>5, ReplyToQueueEffect
  <2>7. f.claims = u.claims /\ IsCdo(f)
    BY <2>3, TypedIsCdo, FixedReplyToQueue DEF Fixed
  <2> HIDE DEF f
  <2>8. Wound(f, t)
    BY <2>1, <2>7, WoundActuallyFinish, WoundSelf
  <2>9. KeepsQueue(f, t)
    BY <2>6, <2>8, WoundKeeps DEF KeepsQueue
  <2>10. t.claims = f.claims /\ t.reply = f.reply
    BY <2>8 DEF Wound, Fixed
  <2>11. NobodyWaits(t)
    BY <2>6, <2>7, <2>10 DEF NobodyWaits, Pending
  <2>12. KeepsQueue(s, t)
    BY <2>5, <2>6, <2>9, KeepsTrans
  <2> HIDE DEF t
  <2> QED BY <2>11, <2>12 DEF t
<1> QED BY <1>1, <1>2

(* It keeps the queue.                                                   *)
LEMMA FinishKeeps ==
  ASSUME NEW s, Typed(s), QueueInv(s), NEW r \in {"NotYours", "Lost", "Failed"}
  PROVE  KeepsQueue(s, Finish(s, r))
  BY FinishEffect

(* A lost channel answers the queue, once.                               *)
LEMMA LoseChannelKeeps ==
  ASSUME NEW s, Typed(s), QueueInv(s) PROVE KeepsQueue(s, LoseChannel(s))
<1> DEFINE d == DropChannel(s)
<1>1. LoseChannel(s) = Finish(d, "Lost")
  BY DEF LoseChannel
<1>2. Wound(s, d) /\ Typed(d)
  BY TypedIsCdo, WoundDropChannel, TypedDropChannel
<1> HIDE DEF d
<1>3. KeepsQueue(s, d) /\ QueueInv(d)
  BY <1>2, WoundKeeps DEF KeepsQueue
<1> QED BY <1>1, <1>2, <1>3, FinishKeeps, KeepsTrans

(* So does a plugin that terminates the channel.                         *)
LEMMA TerminateChannelsKeeps ==
  ASSUME NEW s, Typed(s), QueueInv(s) PROVE KeepsQueue(s, TerminateChannels(s))
<1> DEFINE c == [s EXCEPT !.closing = TRUE]
<1>1. TerminateChannels(s) \in {s, LoseChannel(c)}
  BY DEF TerminateChannels
<1>2. Wound(s, c) /\ Typed(c)
  BY TypedIsCdo, WoundClosing, TypedFlag
<1> HIDE DEF c
<1>3. KeepsQueue(s, c) /\ QueueInv(c)
  BY <1>2, WoundKeeps DEF KeepsQueue
<1> QED BY <1>1, <1>2, <1>3, LoseChannelKeeps, SelfKeeps, KeepsTrans

(* So does the failure of the last handler.                              *)
LEMMA CloseAsUndispatchableKeeps ==
  ASSUME NEW s, Typed(s), QueueInv(s) PROVE KeepsQueue(s, CloseAsUndispatchable(s))
<1> DEFINE f == Finish(s, "Failed")
           e == TakeError(f, "OTHER")
           c == [e EXCEPT !.closing = TRUE]
<1>1. CloseAsUndispatchable(s) \in {f, c}
  BY DEF CloseAsUndispatchable
<1>2. KeepsQueue(s, f) /\ QueueInv(f) /\ IsCdo(f)
  BY FinishKeeps, TypedFinish, TypedIsCdo DEF KeepsQueue
<1> HIDE DEF f
<1>3. Wound(f, e) /\ IsCdo(e)
  BY <1>2, WoundTakeError, WoundFixed
<1> HIDE DEF e
<1>4. Wound(f, c)
  BY <1>3, WoundClosing, WoundTrans
<1> HIDE DEF c
<1> QED BY <1>1, <1>2, <1>4, WoundKeeps, KeepsTrans

(* Calling a handler answers nobody.                                     *)
LEMMA HandleChannelsSame ==
  ASSUME NEW s, Typed(s) PROVE SameQueue(s, HandleChannels(s))
<1> DEFINE v == s.criticals \cup {"handle_channels"}
           i == [s EXCEPT !.handling = s.trying_handler, !.status = "HANDLER_INVOKED"]
           l == [s EXCEPT !.criticals = v, !.leaked = TRUE]
<1>1. HandleChannels(s) \in {i, l}
  BY TypedIsCdo DEF HandleChannels, Report, IsCdo, Fields
<1> HIDE DEF v
<1>2. SameQueue(s, i) /\ SameQueue(s, l)
  BY TypedIsCdo DEF SameQueue, IsCdo, Fields
<1> QED BY <1>1, <1>2

(* Nor does trying one.                                                  *)
LEMMA TryHandlerKeeps ==
  ASSUME NEW s, Typed(s), QueueInv(s), NEW h \in Handler PROVE KeepsQueue(s, TryHandler(s, h))
<1> DEFINE t == [s EXCEPT !.trying_handler = h]
           d == [t EXCEPT !.deciding = Plugin]
<1>1. TryHandler(s, h) \in {HandleChannels(t), d}
  BY DEF TryHandler
<1>2. SameQueue(s, t) /\ SameQueue(s, d)
  BY TypedIsCdo DEF SameQueue, IsCdo, Fields
<1>3. Typed(t)
  <2>1. h \in FieldType.trying_handler
    BY FieldTypes
  <2> QED BY <2>1, TypedExcept, FieldNames
<1> HIDE DEF t, d
<1>4. SameQueue(t, HandleChannels(t))
  BY <1>3, HandleChannelsSame
<1>5. SameQueue(s, TryHandler(s, h))
  BY <1>1, <1>2, <1>4 DEF SameQueue
<1> QED BY <1>5, SameKeeps

(* Looking for the next handler keeps the queue.                         *)
LEMMA TryNextHandlerKeeps ==
  ASSUME NEW s, Typed(s), QueueInv(s), registry \subseteq Handler,
         NEW ranOut, KeepsQueue(s, ranOut)
  PROVE  KeepsQueue(s, TryNextHandler(s, ranOut))
<1>1. CASE PreferredIsUsable(s)
  <2>1. PreferredHandler(s) \in Handler
    BY <1>1 DEF PreferredIsUsable
  <2>2. ~HandleWithIsGone(s)
    BY <1>1 DEF PreferredIsUsable, HandleWithIsGone
  <2>3. TryNextHandler(s, ranOut) = TryHandler(s, PreferredHandler(s))
    BY <1>1, <2>2 DEF TryNextHandler
  <2> QED BY <2>1, <2>3, TryHandlerKeeps
<1>2. CASE ~PreferredIsUsable(s) /\ HandleWithIsGone(s)
  <2>1. s.approvals # <<>>
    BY <1>2 DEF HandleWithIsGone, HeadIs
  <2>2. TryNextHandler(s, ranOut) = RejectHead(s)
    BY <1>2 DEF TryNextHandler
  <2> QED BY <2>1, <2>2, RejectHeadKeeps
<1>3. CASE ~PreferredIsUsable(s) /\ ~HandleWithIsGone(s) /\ Candidates(s) # {}
  <2>1. Best(s, Candidates(s)) \in Handler
    BY <1>3, BestCandidate
  <2>2. TryNextHandler(s, ranOut) = TryHandler(s, Best(s, Candidates(s)))
    BY <1>3 DEF TryNextHandler
  <2> QED BY <2>1, <2>2, TryHandlerKeeps
<1>4. CASE ~PreferredIsUsable(s) /\ ~HandleWithIsGone(s) /\ Candidates(s) = {}
  BY <1>4 DEF TryNextHandler
<1> QED BY <1>1, <1>2, <1>3, <1>4

(* So does what was due after the observers.                             *)
LEMMA PostObserverActionsKeeps ==
  ASSUME NEW s, Typed(s), QueueInv(s) PROVE KeepsQueue(s, PostObserverActions(s))
<1> DEFINE t == IF WillTerminate(s) THEN TerminateChannels(s) ELSE s
           d == [t EXCEPT !.did_post_observer_actions = TRUE]
<1>1. PostObserverActions(s) \in {s, d}
  BY DEF PostObserverActions
<1>2. KeepsQueue(s, t) /\ QueueInv(t) /\ IsCdo(t)
  BY TerminateChannelsKeeps, SelfKeeps, TypedTerminateChannels, TypedIsCdo DEF KeepsQueue
<1> HIDE DEF t
<1>3. Wound(t, d)
  BY <1>2, WoundExcept, LooseNames
<1> HIDE DEF d
<1> QED BY <1>1, <1>2, <1>3, WoundKeeps, SelfKeeps, KeepsTrans

(* A claim is granted, and the rest of the queue is told no.             *)
LEMMA AcceptClaimKeeps ==
  ASSUME NEW s, Typed(s), QueueInv(s), s.approvals # <<>>, NEW fresh \in BOOLEAN
  PROVE  KeepsQueue(s, AcceptClaim(s, fresh))
<1> DEFINE caller == Head0(s).caller
           p == [s EXCEPT !.approvals = Tail(s.approvals),
                          !.reply = [s.reply EXCEPT ![caller] = "ok"]]
           h == IF p.channel THEN SetChannelHandledBy(p, caller) ELSE p
           f == Finish(h, "NotYours")
           t == [f EXCEPT !.idle = f.idle /\ ~fresh]
<1>1. AcceptClaim(s, fresh) = t
  BY TypedIsCdo DEF AcceptClaim, IsCdo, Fields
<1>2. Typed(p) /\ KeepsQueue(s, p) /\ QueueInv(p)
  BY TypedAnswerHead, AnswerHeadKeeps DEF KeepsQueue
<1>3. caller \in Handler \cup Caller \cup {None, Internal}
  BY TypedHead
<1> HIDE DEF caller, p
<1>4. Typed(h) /\ KeepsQueue(p, h) /\ QueueInv(h)
  BY <1>2, <1>3, TypedSetChannelHandledBy, SetChannelHandledByKeeps, SelfKeeps DEF KeepsQueue
<1> HIDE DEF h
<1>5. Typed(f) /\ KeepsQueue(h, f) /\ QueueInv(f)
  BY <1>4, TypedFinish, FinishKeeps DEF KeepsQueue
<1> HIDE DEF f
<1>6. SameQueue(f, t)
  BY <1>5, TypedIsCdo DEF SameQueue, IsCdo, Fields
<1> HIDE DEF t
<1>7. KeepsQueue(f, t)
  BY <1>5, <1>6, SameKeeps
<1> QED BY <1>1, <1>2, <1>4, <1>5, <1>7, KeepsTrans

(* Acting on the head keeps the queue.                                   *)
LEMMA ProceedKeeps ==
  ASSUME NEW s, Typed(s), QueueInv(s), registry \subseteq Handler, NEW fresh \in BOOLEAN
  PROVE  KeepsQueue(s, Proceed(s, fresh))
<1> DEFINE i == [s EXCEPT !.handled_by = Internal]
           v == s.idle /\ ~fresh
           h == [s EXCEPT !.invoked_approvers_if_needed = TRUE, !.idle = v]
           t == IF HeadIs(s, "HANDLE_WITH") THEN h ELSE s
           g == [t EXCEPT !.tried_handlers_before_approval = TRUE, !.idle = TRUE]
<1>1. \/ Proceed(s, fresh) \in
           {i, s, CloseAsUndispatchable(s),
            TryNextHandler(t, CloseAsUndispatchable(t)), TryNextHandler(t, g), t}
      \/ HeadIs(s, "CLAIM") /\ Proceed(s, fresh) = AcceptClaim(s, fresh)
  <2>1. h = [s EXCEPT !.invoked_approvers_if_needed = TRUE, !.idle = @ /\ ~fresh]
    BY TypedIsCdo DEF IsCdo, Fields
  <2> QED BY <2>1 DEF Proceed
<1>2. SameQueue(s, i) /\ SameQueue(s, h) /\ Typed(h)
  <2>1. v \in BOOLEAN
    OBVIOUS
  <2> HIDE DEF v
  <2>2. SameQueue(s, i) /\ SameQueue(s, h)
    BY TypedIsCdo DEF SameQueue, IsCdo, Fields
  <2>3. Typed(h)
    BY <2>1, TypedFlag
  <2> HIDE DEF i, h
  <2> QED BY <2>2, <2>3
<1> HIDE DEF i, h
<1>3. SameQueue(s, t) /\ Typed(t)
  BY <1>2 DEF SameQueue
<1> HIDE DEF t
<1>4. SameQueue(t, g)
  BY <1>3, TypedIsCdo DEF SameQueue, IsCdo, Fields
<1> HIDE DEF g
<1>5. KeepsQueue(s, i) /\ KeepsQueue(s, t) /\ QueueInv(t)
  BY <1>2, <1>3, SameKeeps DEF KeepsQueue
<1>6. KeepsQueue(t, TryNextHandler(t, g))
  BY <1>3, <1>4, <1>5, SameKeeps, TryNextHandlerKeeps
<1>7. KeepsQueue(t, TryNextHandler(t, CloseAsUndispatchable(t)))
  BY <1>3, <1>5, CloseAsUndispatchableKeeps, TryNextHandlerKeeps
<1>8. HeadIs(s, "CLAIM") => KeepsQueue(s, AcceptClaim(s, fresh))
  BY AcceptClaimKeeps DEF HeadIs
<1> QED BY <1>1, <1>5, <1>6, <1>7, <1>8, CloseAsUndispatchableKeeps, SelfKeeps, KeepsTrans

(* So does the check of the locks.                                       *)
LEMMA CheckClientLocksKeeps ==
  ASSUME NEW s, Typed(s), QueueInv(s), registry \subseteq Handler
  PROVE  KeepsQueue(s, CheckClientLocks(s))
<1> DEFINE a == PostObserverActions(s)
           b == ScheduleApprovers(a)
           fresh == b.idle /\ ~a.idle
<1>1. CheckClientLocks(s) \in {s, b, Proceed(b, fresh)}
  BY DEF CheckClientLocks
<1>2. fresh \in BOOLEAN
  OBVIOUS
<1>3. Typed(a) /\ KeepsQueue(s, a) /\ QueueInv(a)
  BY PostObserverActionsKeeps, TypedPostObserverActions DEF KeepsQueue
<1> HIDE DEF a, fresh
<1>4. Typed(b) /\ KeepsQueue(a, b) /\ QueueInv(b)
  BY <1>3, TypedScheduleApprovers, WoundScheduleApprovers, WoundKeeps, TypedIsCdo DEF KeepsQueue
<1> HIDE DEF b
<1> QED BY <1>1, <1>2, <1>3, <1>4, ProceedKeeps, SelfKeeps, KeepsTrans

(* The observers' two locks count the calls to observers in flight       *)
(* (_mcd_dispatch_operation_inc_observers_pending and                    *)
(* dec_observers_pending).                                               *)
ObserverLocks(s) ==
  /\ s.observers_pending = Cardinality(s.observing)
  /\ s.delay_approver_observers_pending = Cardinality(s.observing \cap DelayApprovers)

(* No internal function disturbs them.                                   *)
LEMMA FixedObserverLocks ==
  ASSUME NEW s, NEW t, ObserverLocks(s), Fixed(s, t) PROVE ObserverLocks(t)
  BY DEF ObserverLocks, Fixed

(* A subset of a finite set has a number of elements.                    *)
LEMMA SubsetCardinality ==
  ASSUME NEW S, IsFiniteSet(S), NEW T \in SUBSET S
  PROVE  IsFiniteSet(T) /\ Cardinality(T) \in Nat
  BY FS_Subset, FS_CardinalityType

(* Taking one element out takes one off the count.                       *)
LEMMA RemoveOne ==
  ASSUME NEW S, IsFiniteSet(S), NEW x \in S
  PROVE  /\ Cardinality(S) \in Nat /\ Cardinality(S) # 0
         /\ Cardinality(S \ {x}) = Cardinality(S) - 1
<1>1. Cardinality(S) \in Nat
  BY FS_CardinalityType
<1>2. Cardinality(S \ {x}) = Cardinality(S) - 1
  BY FS_RemoveElement
<1>3. Cardinality(S \ {x}) \in Nat
  BY FS_RemoveElement, FS_CardinalityType
<1> QED BY <1>1, <1>2, <1>3

(* All fields but some are left alone.                                   *)
Others(s, t, F) == \A f \in Fields \ F : t[f] = s[f]

(* ObserveChannels returns: the observer's locks are released.           *)
ObserverLeft(s, o) ==
  LET l == [s EXCEPT !.observing = @ \ {o}]
  IN [l EXCEPT !.observers_pending = @ - 1,
               !.delay_approver_observers_pending =
                  IF o \in DelayApprovers THEN @ - 1 ELSE @]

(* The locks count the observers that are left, and nothing else         *)
(* changed.                                                              *)
LEMMA ObserverLeftFields ==
  ASSUME NEW s, Typed(s), ObserverLocks(s), NEW o \in s.observing
  PROVE  LET t == ObserverLeft(s, o)
         IN /\ Typed(t) /\ ObserverLocks(t)
            /\ Others(s, t, {"observing", "observers_pending",
                             "delay_approver_observers_pending"})
            /\ t.observing = s.observing \ {o}
<1> DEFINE O == s.observing \ {o}
           n == s.observers_pending - 1
           m == IF o \in DelayApprovers THEN s.delay_approver_observers_pending - 1
                ELSE s.delay_approver_observers_pending
           l == [s EXCEPT !.observing = O]
           t == [l EXCEPT !.observers_pending = n, !.delay_approver_observers_pending = m]
<1>1. ObserverLeft(s, o) = t
  BY TypedIsCdo DEF ObserverLeft, IsCdo, Fields
<1>2. IsFiniteSet(s.observing) /\ IsFiniteSet(s.observing \cap DelayApprovers)
  BY TypedFields, ClientsAssumption, FS_Subset
<1>3. n \in Nat /\ n = Cardinality(O)
  <2>1. /\ Cardinality(s.observing) \in Nat /\ Cardinality(s.observing) # 0
        /\ Cardinality(O) = Cardinality(s.observing) - 1
    BY <1>2, RemoveOne
  <2>2. s.observers_pending = Cardinality(s.observing)
    BY DEF ObserverLocks
  <2> HIDE DEF O
  <2> QED BY <2>1, <2>2
<1>4. m \in Nat /\ m = Cardinality(O \cap DelayApprovers)
  <2>1. CASE o \in DelayApprovers
    <3>1. O \cap DelayApprovers = (s.observing \cap DelayApprovers) \ {o}
      OBVIOUS
    <3> DEFINE D == s.observing \cap DelayApprovers
    <3>2. o \in D
      BY <2>1
    <3>3. Cardinality(D) \in Nat /\ Cardinality(D) # 0 /\ Cardinality(D \ {o}) = Cardinality(D) - 1
      BY <1>2, <3>2, RemoveOne
    <3>4. s.delay_approver_observers_pending = Cardinality(D)
      BY DEF ObserverLocks
    <3> HIDE DEF D, O
    <3>5. Cardinality(O \cap DelayApprovers) = Cardinality(D \ {o})
      BY <3>1 DEF D
    <3> QED BY <2>1, <3>3, <3>4, <3>5
  <2>2. CASE o \notin DelayApprovers
    <3>1. O \cap DelayApprovers = s.observing \cap DelayApprovers
      BY <2>2
    <3> QED BY <2>2, <3>1, TypedFields DEF ObserverLocks
  <2> QED BY <2>1, <2>2
<1>5. O \in FieldType.observing
  BY TypedFields, FieldTypes
<1>6. n \in FieldType.observers_pending /\ m \in FieldType.delay_approver_observers_pending
  BY <1>3, <1>4, FieldTypes
<1> HIDE DEF O, n, m
<1>7. Typed(l)
  BY <1>5, TypedExcept, FieldNames
<1>8. \A f \in Fields \ {"observing"} : l[f] = s[f]
  BY TypedIsCdo DEF IsCdo
<1>9. l.observing = O
  BY TypedIsCdo DEF IsCdo, Fields
<1> HIDE DEF l
<1>10. Typed(t)
  BY <1>6, <1>7, TypedExcept2, FieldNames
<1>11. \A f \in Fields \ {"observers_pending", "delay_approver_observers_pending"} : t[f] = l[f]
  BY <1>7, TypedIsCdo DEF IsCdo
<1>12. t.observers_pending = n /\ t.delay_approver_observers_pending = m /\ t.observing = O
  BY <1>7, <1>9, TypedIsCdo DEF IsCdo, Fields
<1> HIDE DEF t
<1>13. \A f \in Fields \ {"observing", "observers_pending",
                          "delay_approver_observers_pending"} : t[f] = s[f]
  BY <1>8, <1>11
<1>15. ObserverLocks(t)
  BY <1>3, <1>4, <1>12 DEF ObserverLocks
<1> QED BY <1>1, <1>10, <1>12, <1>13, <1>15 DEF O, Others

(* The approvers' lock is taken.                                         *)
LEMMA TypedIncAdoPending ==
  ASSUME NEW s, Typed(s), NEW n \in Nat PROVE Typed(IncAdoPending(s, n))
<1> DEFINE m == s.ado_pending + n
<1>1. IncAdoPending(s, n) \in {s, Report(s, "inc_ado_pending"), [s EXCEPT !.ado_pending = m]}
  BY TypedIsCdo DEF IncAdoPending, IsCdo, Fields
<1>2. m \in FieldType.ado_pending
  BY TypedFields, FieldTypes
<1> HIDE DEF m
<1>3. Typed([s EXCEPT !.ado_pending = m])
  BY <1>2, TypedExcept, FieldNames
<1>4. Typed(Report(s, "inc_ado_pending"))
  BY TypedReport DEF Critical
<1> QED BY <1>1, <1>3, <1>4

(* An approval joins the queue.                                          *)
LEMMA TypedAppend ==
  ASSUME NEW s, Typed(s), NEW a \in Approval
  PROVE  Typed([s EXCEPT !.approvals = Append(s.approvals, a)])
<1> DEFINE q == Append(s.approvals, a)
<1>1. q \in FieldType.approvals
  BY TypedFields, FieldTypes
<1> HIDE DEF q
<1>2. Typed([s EXCEPT !.approvals = q])
  BY <1>1, TypedExcept, FieldNames
<1> QED BY <1>2 DEF q

(* The entry that says that no approver took the operation is an         *)
(* approval.                                                             *)
LEMMA NoApproversType == NoApprovers \in Approval
  BY DEF NoApprovers, Approval, ApprovalType

(* The approvers' lock is released.                                      *)
LEMMA TypedDecAdoPending ==
  ASSUME NEW s, Typed(s), registry \subseteq Handler PROVE Typed(DecAdoPending(s))
<1> DEFINE n == s.ado_pending - 1
           d == [s EXCEPT !.ado_pending = n]
           f == CheckFinished(d)
           g == [f EXCEPT !.approvals = Append(f.approvals, NoApprovers)]
           r == Report(s, "dec_ado_pending")
<1>1. CASE s.ado_pending = 0
  <2>1. DecAdoPending(s) = r
    BY <1>1 DEF DecAdoPending
  <2>2. Typed(r)
    BY TypedReport DEF Critical
  <2> HIDE DEF r
  <2> QED BY <2>1, <2>2
<1>2. CASE s.ado_pending # 0
  <2>1. n \in FieldType.ado_pending
    BY <1>2, TypedFields, FieldTypes
  <2>2. Typed(d)
    <3> HIDE DEF n
    <3> QED BY <2>1, TypedExcept, FieldNames
  <2>3. d = [s EXCEPT !.ado_pending = @ - 1]
    BY TypedIsCdo DEF IsCdo, Fields
  <2>4. Typed(f)
    <3> HIDE DEF d
    <3> QED BY <2>2, TypedCheckFinished
  <2>5. Typed(g)
    <3> HIDE DEF f
    <3> QED BY <2>4, TypedAppend, NoApproversType
  <2>6. DecAdoPending(s) \in {CheckClientLocks(f), CheckClientLocks(g)}
    <3> HIDE DEF d
    <3>1. g = [f EXCEPT !.approvals = Append(@, NoApprovers)]
      <4> HIDE DEF f
      <4> QED BY <2>4, TypedIsCdo DEF IsCdo, Fields
    <3> HIDE DEF g
    <3> QED BY <1>2, <2>3, <3>1 DEF DecAdoPending
  <2> HIDE DEF f, g
  <2> QED BY <2>4, <2>5, <2>6, TypedCheckClientLocks
<1> QED BY <1>1, <1>2

(* The approvers are asked.                                              *)
LEMMA TypedRunApprovers ==
  ASSUME NEW s, Typed(s), registry \subseteq Handler, NEW approvers \in SUBSET Approver
  PROVE  Typed(RunApprovers(s, approvers))
<1> DEFINE called == IF s.channel THEN approvers ELSE {}
           i == IncAdoPending(s, 1)
           j == IncAdoPending(i, Cardinality(called))
           v == j.adding \cup called
           k == [j EXCEPT !.adding = v]
<1>1. called \in SUBSET Approver
  OBVIOUS
<1> HIDE DEF called
<1>2. Cardinality(called) \in Nat
  BY <1>1, ClientsAssumption, SubsetCardinality
<1>3. Typed(i)
  BY TypedIncAdoPending
<1> HIDE DEF i
<1>4. Typed(j)
  BY <1>2, <1>3, TypedIncAdoPending
<1>5. RunApprovers(s, approvers) = DecAdoPending(k)
  <2>1. RunApprovers(s, approvers) = DecAdoPending([j EXCEPT !.adding = @ \cup called])
    BY DEF RunApprovers, i, called
  <2> HIDE DEF j
  <2>2. k = [j EXCEPT !.adding = @ \cup called]
    BY <1>4, TypedIsCdo DEF IsCdo, Fields
  <2> HIDE DEF k
  <2> QED BY <2>1, <2>2
<1> HIDE DEF j
<1>6. v \in FieldType.adding
  BY <1>1, <1>4, TypedFields, FieldTypes
<1> HIDE DEF v
<1>7. Typed(k)
  BY <1>4, <1>6, TypedExcept, FieldNames
<1> HIDE DEF k
<1> QED BY <1>5, <1>7, TypedDecAdoPending

(* A handler has failed: the HandleWith calls that insisted on it are    *)
(* refused and leave the queue (the loop of                              *)
(* _mcd_dispatch_operation_set_handler_failed).                          *)
HandlerTurnedDown(s, h) ==
  [s EXCEPT
    !.failed_handlers = @ \cup {h},
    !.approvals = Without(@, {i \in DOMAIN @ : InsistsOn(@[i], h)}),
    !.reply = [c \in Caller |->
       IF \E a \in QueuedCalls(s) : InsistsOn(a, h) /\ a.caller = c
       THEN "error" ELSE s.reply[c]]]

(* _mcd_dispatch_operation_set_handler_failed keeps the types.           *)
LEMMA TypedSetHandlerFailed ==
  ASSUME NEW s, Typed(s), NEW h \in Handler
  PROVE  Typed(HandlerTurnedDown(s, h)) /\ Typed(SetHandlerFailed(s, h))
<1> DEFINE b == s.failed_handlers \cup {h}
           q == Without(s.approvals, {i \in DOMAIN s.approvals : InsistsOn(s.approvals[i], h)})
           r == [c \in Caller |->
                  IF \E a \in QueuedCalls(s) : InsistsOn(a, h) /\ a.caller = c
                  THEN "error" ELSE s.reply[c]]
           f == [[s EXCEPT !.failed_handlers = b] EXCEPT !.approvals = q, !.reply = r]
<1>1. HandlerTurnedDown(s, h) = f
  <2> HIDE DEF r
  <2>1. f = [s EXCEPT !.failed_handlers = b, !.approvals = q, !.reply = r]
    <3> HIDE DEF b, q
    <3> QED BY TypedIsCdo DEF IsCdo, Fields
  <2>2. [s EXCEPT !.failed_handlers = b, !.approvals = q, !.reply = r]
        = [s EXCEPT !.failed_handlers = @ \cup {h},
             !.approvals = Without(@, {i \in DOMAIN @ : InsistsOn(@[i], h)}), !.reply = r]
    BY TypedIsCdo DEF IsCdo, Fields
  <2> HIDE DEF b, q, f
  <2> QED BY <2>1, <2>2 DEF HandlerTurnedDown, r
<1>2. SetHandlerFailed(s, h) \in {HandlerTurnedDown(s, h), CloseAsUndispatchable(HandlerTurnedDown(s, h))}
  BY DEF SetHandlerFailed, HandlerTurnedDown
<1>3. b \in FieldType.failed_handlers
  BY TypedFields, FieldTypes
<1>4. r \in FieldType.reply
  BY TypedFields, FieldTypes
<1>5. q \in FieldType.approvals
  BY TypedFields, FieldTypes, WithoutSome
<1> HIDE DEF b, q, r
<1>6. Typed([s EXCEPT !.failed_handlers = b])
  BY <1>3, TypedExcept, FieldNames
<1>7. Typed(f)
  BY <1>4, <1>5, <1>6, TypedExcept2, FieldNames
<1> HIDE DEF f
<1>8. Typed(HandlerTurnedDown(s, h))
  BY <1>1, <1>7
<1> QED BY <1>2, <1>8, TypedCloseAsUndispatchable

---------------------------------------------------------------------------
(* The fate of the channel.                                              *)

(* The approvals in the queue, whatever their order.                     *)
Entries(s) == {s.approvals[i] : i \in DOMAIN s.approvals}

(* What holds of an operation that runs and of one that is over.  The    *)
(* internal handler is never tried as a client; the handler called is    *)
(* the one tried; while plugins decide about a handler it has not been   *)
(* called; the idle source is attached only the first time, before any   *)
(* approver is asked; and unless a misuse of it was reported the         *)
(* approvers' lock counts the approvers asked.                           *)
Always(s) ==
  /\ s.trying_handler # None => ~IsInternal(s)
  /\ s.handling # None => s.handling = s.trying_handler
  /\ s.deciding # {} => s.trying_handler # None /\ s.handling = None
  /\ s.idle => s.tried_handlers_before_approval /\ s.adding = {}
  /\ s.adding # {} => s.tried_handlers_before_approval
  /\ s.criticals \cap Misuse = {} => s.ado_pending = Cardinality(s.adding)
  /\ \A a \in Entries(s) :
       /\ a.type \in {"CLAIM", "NO_APPROVERS"} => a.client_bus_name = None
       /\ a.type \in {"CLAIM", "HANDLE_WITH"} <=> a.caller # None

(* A handler that must not bypass approval is tried only with the user's *)
(* word: it was requested, an approver chose it, or approvers were asked *)
(* and none took the operation; and that last entry is there only when   *)
(* all of them have returned.                                            *)
PresentedToUser(s) ==
  /\ s.trying_handler \notin BypassApproval \cup {None} /\ s.needs_approval =>
       \E a \in Entries(s) :
         \/ a.type \in {"HANDLE_WITH", "REQUESTED"}
         \/ a.type = "NO_APPROVERS" /\ s.invoked_approvers_if_needed
  /\ (\E a \in Entries(s) : a.type = "NO_APPROVERS") =>
       /\ s.tried_handlers_before_approval
       /\ ~s.accepted_by_an_approver
       /\ s.adding = {}

(* An operation that needs no approval asks no approver: its queue holds *)
(* requests only, and once its handlers were tried it waits for nobody.  *)
Requested(s) ==
  ~s.needs_approval =>
    /\ s.adding = {}
    /\ \A a \in Entries(s) : a.type = "REQUESTED"
    /\ s.tried_handlers_before_approval => s.idle \/ s.invoked_approvers_if_needed

(* What holds until there is an outcome: the channel is there, nobody    *)
(* has it but the internal handler, no misuse of the approvers' lock was *)
(* reported, a handler that is tried is called or plugins decide about   *)
(* it, and the two conditions above.                                     *)
Open(s) ==
  s.result = "none" =>
    /\ s.handled_by # None => s.handled_by = Internal /\ IsInternal(s)
    /\ s.channel
    /\ s.criticals \cap Misuse = {}
    /\ s.trying_handler # None => s.handling # None \/ s.deciding # {}
    /\ PresentedToUser(s)
    /\ Requested(s)

(* An outcome is one for the channel: someone owns it, or it is being    *)
(* closed, or it is gone.                                                *)
Settled(s) ==
  s.result # "none" => s.handled_by # None \/ s.closing \/ ~s.channel

(* No handler is tried for an operation that is over, unless the channel *)
(* was lost while it was called.                                         *)
Dropped(s) ==
  s.result # "none" /\ s.channel => s.trying_handler = None

(* All of it: the part of the inductive invariant about the fate of the  *)
(* channel.                                                              *)
Fate(s) == Always(s) /\ Open(s) /\ Settled(s) /\ Dropped(s)

(* Winding up keeps what always holds.                                   *)
LEMMA WoundAlways ==
  ASSUME NEW s, NEW t, Always(s), Wound(s, t) PROVE Always(t)
  BY DEF Always, Wound, Fixed, Entries, IsInternal

(* Winding up an operation that is over keeps its fate.                  *)
LEMMA WoundFate ==
  ASSUME NEW s, NEW t, Fate(s), Wound(s, t), s.result # "none" PROVE Fate(t)
<1>1. Always(t)
  BY WoundAlways DEF Fate
<1>2. Open(t) /\ Settled(t) /\ Dropped(t)
  BY DEF Wound, Fate, Open, Settled, Dropped
<1> QED BY <1>1, <1>2 DEF Fate

(* Winding up that leaves the channel and the idle source alone.         *)
Calm(s, t) ==
  /\ Wound(s, t)
  /\ t.channel = s.channel
  /\ t.closing = s.closing
  /\ t.idle = s.idle
  /\ t.tried_handlers_before_approval = s.tried_handlers_before_approval

(* It keeps the fate of an operation that runs, too.                     *)
LEMMA CalmFate ==
  ASSUME NEW s, NEW t, Fate(s), Calm(s, t) PROVE Fate(t)
<1>1. Always(t)
  BY WoundAlways DEF Fate, Calm
<1>2. Open(t)
  BY DEF Fate, Calm, Wound, Fixed, Open, PresentedToUser, Requested, Entries, IsInternal
<1>3. Settled(t) /\ Dropped(t)
  BY DEF Fate, Calm, Wound, Settled, Dropped
<1> QED BY <1>1, <1>2, <1>3 DEF Fate

(* Two calm functions in turn are calm.                                  *)
LEMMA CalmTrans ==
  ASSUME NEW s, NEW t, NEW u, Calm(s, t), Calm(t, u) PROVE Calm(s, u)
  BY WoundTrans DEF Calm

(* An early return is calm.                                              *)
LEMMA CalmSelf ==
  ASSUME NEW s, IsCdo(s) PROVE Calm(s, s)
  BY WoundSelf DEF Calm

(* An assignment to a loose field is calm.                               *)
LEMMA CalmExcept ==
  ASSUME NEW s, IsCdo(s), NEW f \in Loose, NEW v
  PROVE  Calm(s, [s EXCEPT ![f] = v])
<1>1. Wound(s, [s EXCEPT ![f] = v])
  BY WoundExcept
<1> QED BY <1>1 DEF Calm, IsCdo, Fields, Loose

(* check_finished is calm while there is no outcome: Finished is not     *)
(* emitted.                                                              *)
LEMMA CalmCheckFinished ==
  ASSUME NEW s, IsCdo(s), s.result = "none" PROVE Calm(s, CheckFinished(s))
<1> DEFINE n == [s EXCEPT !.lost_channel = FALSE]
           e == Emit(n, "ChannelLost")
<1>1. Calm(s, n) /\ IsCdo(n) /\ n.result = "none"
  BY CalmExcept, LooseNames, WoundFixed DEF Calm, Wound
<1>2. e = [n EXCEPT !.signals = Append(n.signals, "ChannelLost")]
  <2> HIDE DEF n
  <2> QED BY <1>1 DEF Emit, IsCdo, Fields
<1>3. Calm(n, e) /\ e.result = "none"
  <2>1. Calm(n, e)
    <3> HIDE DEF n
    <3>1. Calm(n, [n EXCEPT !.signals = Append(n.signals, "ChannelLost")])
      BY <1>1, CalmExcept, LooseNames
    <3> HIDE DEF e
    <3> QED BY <1>2, <3>1
  <2> HIDE DEF e
  <2> QED BY <1>1, <2>1 DEF Calm, Wound
<1>4. CheckFinished(s) \in {s, e, ActuallyFinish(s), ActuallyFinish(e)}
      /\ (e.result = "none" => CheckFinished(s) \in {s, e})
  BY DEF CheckFinished
<1> HIDE DEF n, e
<1> QED BY <1>1, <1>3, <1>4, CalmSelf, CalmTrans

(* check_finished keeps the fate of the channel.                         *)
LEMMA CheckFinishedFate ==
  ASSUME NEW s, IsCdo(s), Fate(s) PROVE Fate(CheckFinished(s))
  BY CalmCheckFinished, CalmFate, WoundCheckFinished, WoundFate

(* An empty queue has no entries.                                        *)
LEMMA NoEntries ==
  ASSUME NEW s, s.approvals = <<>> PROVE Entries(s) = {}
  BY DEF Entries

(* finish keeps what always holds.                                       *)
LEMMA FinishAlways ==
  ASSUME NEW s, Typed(s), Always(s), NEW r \in {"NotYours", "Lost", "Failed"}
  PROVE  Always(Finish(s, r))
<1> DEFINE t == Finish(s, r)
<1>1. Fixed(s, t)
  BY TypedIsCdo, FixedFinish
<1>2. Entries(t) \in {Entries(s), {}}
  BY FinishFields, NoEntries DEF Entries
<1>3. /\ t.trying_handler = s.trying_handler /\ t.handling = s.handling
      /\ t.deciding = s.deciding
      /\ s.tried_handlers_before_approval => t.tried_handlers_before_approval
      /\ t.idle # s.idle => ~s.tried_handlers_before_approval /\ t.tried_handlers_before_approval
  BY FinishFields
<1> HIDE DEF t
<1>4. Always(t)
  BY <1>1, <1>2, <1>3 DEF Always, Fixed, IsInternal
<1> QED BY <1>4 DEF t

(* It settles the fate of a channel that someone owns, or that is        *)
(* closing or gone, when no handler is tried: every caller of finish has *)
(* to see to that.                                                       *)
LEMMA FinishFate ==
  ASSUME NEW s, Typed(s), Always(s), NEW r \in {"NotYours", "Lost", "Failed"},
         s.handled_by # None \/ s.closing \/ ~s.channel,
         s.trying_handler = None \/ ~s.channel
  PROVE  Fate(Finish(s, r)) /\ Finish(s, r).result # "none"
<1> DEFINE t == Finish(s, r)
<1>1. t.result # "none"
  BY FinishFields
<1>2. Always(t)
  BY FinishAlways
<1>3. Settled(t) /\ Dropped(t)
  BY FinishFields DEF Settled, Dropped
<1> HIDE DEF t
<1>4. Open(t)
  BY <1>1 DEF Open
<1> QED BY <1>1, <1>2, <1>3, <1>4 DEF Fate, t

(* Who has been recorded as the owner of the channel stays its owner.    *)
Owned(s, t) == s.handled_by # None => t.handled_by = s.handled_by

(* A lost channel is an outcome.                                         *)
LEMMA LoseChannelFate ==
  ASSUME NEW s, Typed(s), Fate(s)
  PROVE  LET t == LoseChannel(s)
         IN /\ Fate(t) /\ t.result # "none" /\ t.handled_by = s.handled_by
            /\ t.trying_handler = s.trying_handler
<1> DEFINE d == DropChannel(s)
           t == Finish(d, "Lost")
<1>1. LoseChannel(s) = t
  BY DEF LoseChannel
<1>2. Wound(s, d) /\ Typed(d) /\ ~d.channel
  BY TypedIsCdo, WoundDropChannel, TypedDropChannel
<1> HIDE DEF d
<1>3. Always(d)
  BY <1>2, WoundAlways DEF Fate
<1>4. Fate(t) /\ t.result # "none"
  BY <1>2, <1>3, FinishFate
<1>5. t.handled_by = s.handled_by /\ t.trying_handler = s.trying_handler
  <2>1. d.handled_by = s.handled_by /\ d.trying_handler = s.trying_handler
    BY <1>2 DEF Wound
  <2>2. t.handled_by = d.handled_by /\ t.trying_handler = d.trying_handler
    BY <1>2, FinishFields
  <2> QED BY <2>1, <2>2
<1> QED BY <1>1, <1>4, <1>5

(* A request to close the channel keeps its fate.                        *)
LEMMA ClosingFate ==
  ASSUME NEW s, IsCdo(s), Fate(s) PROVE Fate([s EXCEPT !.closing = TRUE])
<1> DEFINE t == [s EXCEPT !.closing = TRUE]
<1>1. Wound(s, t)
  BY WoundClosing
<1>2. t.closing /\ \A f \in Fields \ {"closing"} : t[f] = s[f]
  BY DEF IsCdo, Fields
<1>3. IsInternal(t) = IsInternal(s) /\ Entries(t) = Entries(s)
  <2>1. t.possible_handlers = s.possible_handlers /\ t.approvals = s.approvals
    BY <1>2 DEF Fields
  <2> QED BY <2>1 DEF IsInternal, Entries
<1> HIDE DEF t
<1>4. Always(t)
  BY <1>1, WoundAlways DEF Fate
<1>5. Open(t)
  BY <1>2, <1>3 DEF Fate, Open, PresentedToUser, Requested, Fields
<1>6. Settled(t) /\ Dropped(t)
  BY <1>2 DEF Fate, Settled, Dropped, Fields
<1>7. Fate(t)
  BY <1>4, <1>5, <1>6 DEF Fate
<1> QED BY <1>7 DEF t

(* A plugin that terminates the channel ends the operation, unless the   *)
(* channel is gone already.                                              *)
LEMMA TerminateChannelsFate ==
  ASSUME NEW s, Typed(s), Fate(s)
  PROVE  LET t == TerminateChannels(s)
         IN /\ Fate(t) /\ t.handled_by = s.handled_by
            /\ t.trying_handler = s.trying_handler
            /\ t = s \/ t.result # "none"
<1> DEFINE c == [s EXCEPT !.closing = TRUE]
<1>1. TerminateChannels(s) \in {s, LoseChannel(c)}
  BY DEF TerminateChannels
<1>2. Fate(c) /\ Typed(c)
  BY TypedIsCdo, ClosingFate, TypedFlag
<1>3. c.handled_by = s.handled_by /\ c.trying_handler = s.trying_handler
  BY TypedIsCdo DEF IsCdo, Fields
<1> HIDE DEF c
<1> QED BY <1>1, <1>2, <1>3, LoseChannelFate

(* When no handler is left the operation is over and the channel closing *)
(* or gone, even while one is recorded as tried.                         *)
LEMMA CloseAsUndispatchableEnds ==
  ASSUME NEW s, Typed(s), Always(s)
  PROVE  LET t == CloseAsUndispatchable(s)
         IN /\ Always(t) /\ t.result # "none" /\ (t.closing \/ ~t.channel)
            /\ t.handled_by = s.handled_by /\ t.trying_handler = s.trying_handler
            /\ t.handling = s.handling /\ t.deciding = s.deciding
<1> DEFINE f == Finish(s, "Failed")
           e == TakeError(f, "OTHER")
           c == [e EXCEPT !.closing = TRUE]
<1>1. CloseAsUndispatchable(s) = IF f.channel THEN c ELSE f
  BY DEF CloseAsUndispatchable
<1>2. /\ Always(f) /\ f.result # "none" /\ f.handled_by = s.handled_by
      /\ f.trying_handler = s.trying_handler
      /\ f.handling = s.handling /\ f.deciding = s.deciding
  BY FinishAlways, FinishFields
<1>3. IsCdo(f)
  BY TypedFinish, TypedIsCdo
<1> HIDE DEF f
<1>4. Wound(f, e) /\ IsCdo(e)
  BY <1>3, WoundTakeError, WoundFixed
<1> HIDE DEF e
<1>5. Wound(f, c) /\ c.closing
  <2>1. Wound(e, c)
    BY <1>4, WoundClosing
  <2>2. c.closing
    BY <1>4 DEF IsCdo, Fields
  <2> HIDE DEF c
  <2> QED BY <1>4, <2>1, <2>2, WoundTrans
<1> HIDE DEF c
<1>6. /\ Always(c) /\ c.result # "none" /\ c.handled_by = s.handled_by
      /\ c.trying_handler = s.trying_handler
      /\ c.handling = s.handling /\ c.deciding = s.deciding
  BY <1>2, <1>5, WoundAlways DEF Wound
<1> QED BY <1>1, <1>2, <1>5, <1>6

(* When none is tried, that settles its fate.                            *)
LEMMA CloseAsUndispatchableFate ==
  ASSUME NEW s, Typed(s), Always(s), s.trying_handler = None
  PROVE  LET t == CloseAsUndispatchable(s)
         IN Fate(t) /\ t.result # "none" /\ t.handled_by = s.handled_by
<1> DEFINE t == CloseAsUndispatchable(s)
<1>1. /\ Always(t) /\ t.result # "none" /\ (t.closing \/ ~t.channel)
      /\ t.handled_by = s.handled_by /\ t.trying_handler = None
  BY CloseAsUndispatchableEnds
<1> HIDE DEF t
<1> QED BY <1>1 DEF Fate, Open, Settled, Dropped, t

(* What handle_channels writes.                                          *)
LEMMA HandleChannelsFields ==
  ASSUME NEW s, IsCdo(s)
  PROVE  LET t == HandleChannels(s)
         IN /\ Others(s, t, {"handling", "status", "criticals", "leaked"})
            /\ t.handling = IF s.channel THEN s.trying_handler ELSE s.handling
<1> DEFINE v == s.criticals \cup {"handle_channels"}
           i == [s EXCEPT !.handling = s.trying_handler, !.status = "HANDLER_INVOKED"]
           l == [s EXCEPT !.criticals = v, !.leaked = TRUE]
<1>1. HandleChannels(s) = IF s.channel THEN i ELSE l
  BY DEF HandleChannels, Report, IsCdo, Fields
<1> HIDE DEF v
<1>2. /\ Others(s, i, {"handling", "status", "criticals", "leaked"})
      /\ Others(s, l, {"handling", "status", "criticals", "leaked"})
      /\ i.handling = s.trying_handler /\ l.handling = s.handling
  BY DEF IsCdo, Fields, Others
<1> QED BY <1>1, <1>2

(* What try_handler writes: the handler is called at once, unless        *)
(* plugins decide first.                                                 *)
LEMMA TryHandlerFields ==
  ASSUME NEW s, IsCdo(s), NEW h
  PROVE  LET t == TryHandler(s, h)
         IN /\ Others(s, t, {"trying_handler", "handling", "status", "criticals",
                             "leaked", "deciding"})
            /\ t.trying_handler = h
            /\ t.handling = IF Plugin = {} /\ s.channel THEN h ELSE s.handling
            /\ t.deciding = IF Plugin = {} THEN s.deciding ELSE Plugin
<1> DEFINE t == [s EXCEPT !.trying_handler = h]
           d == [t EXCEPT !.deciding = Plugin]
           X == {"trying_handler", "handling", "status", "criticals", "leaked", "deciding"}
<1>1. TryHandler(s, h) = IF Plugin = {} THEN HandleChannels(t) ELSE d
  BY DEF TryHandler
<1>2. IsCdo(t) /\ t.trying_handler = h /\ Others(s, t, {"trying_handler"})
  BY DEF IsCdo, Fields, Others
<1>3. /\ t.channel = s.channel /\ t.handling = s.handling /\ t.deciding = s.deciding
      /\ d.trying_handler = h /\ d.handling = s.handling /\ d.deciding = Plugin
      /\ Others(s, d, X)
  BY DEF IsCdo, Fields, Others
<1> HIDE DEF t, d
<1> DEFINE c == HandleChannels(t)
<1>4. /\ Others(t, c, {"handling", "status", "criticals", "leaked"})
      /\ c.handling = IF t.channel THEN t.trying_handler ELSE t.handling
  BY <1>2, HandleChannelsFields
<1> HIDE DEF c
<1>5. c.trying_handler = t.trying_handler /\ c.deciding = t.deciding
  BY <1>4, FieldNames DEF Others
<1>6. Others(s, c, X)
  BY <1>2, <1>4 DEF Others
<1> HIDE DEF X
<1> QED BY <1>1, <1>2, <1>3, <1>4, <1>5, <1>6 DEF c, X

(* A handler may be tried: it bypasses approval or the user has given    *)
(* its word.                                                             *)
Invited(s, h) ==
  h \notin BypassApproval \cup {None} /\ s.needs_approval =>
    \E a \in Entries(s) :
      \/ a.type \in {"HANDLE_WITH", "REQUESTED"}
      \/ a.type = "NO_APPROVERS" /\ s.invoked_approvers_if_needed

(* Trying a handler that may be tried keeps the fate open.               *)
LEMMA TryHandlerFate ==
  ASSUME NEW s, Typed(s), Fate(s), s.result = "none", s.trying_handler = None,
         ~IsInternal(s), NEW h \in Handler, Invited(s, h)
  PROVE  LET t == TryHandler(s, h)
         IN Fate(t) /\ t.handled_by = s.handled_by /\ t.trying_handler # None
<1> DEFINE t == TryHandler(s, h)
<1>1. Fixed(s, t)
  BY TypedIsCdo, FixedTryHandler
<1>2. /\ Others(s, t, {"trying_handler", "handling", "status", "criticals",
                       "leaked", "deciding"})
      /\ t.trying_handler = h
      /\ t.handling = IF Plugin = {} /\ s.channel THEN h ELSE s.handling
      /\ t.deciding = IF Plugin = {} THEN s.deciding ELSE Plugin
  BY TypedIsCdo, TryHandlerFields
<1> HIDE DEF t
<1>3. /\ t.result = s.result /\ t.approvals = s.approvals /\ t.channel = s.channel
      /\ t.handled_by = s.handled_by /\ t.idle = s.idle /\ t.closing = s.closing
      /\ t.tried_handlers_before_approval = s.tried_handlers_before_approval
      /\ t.invoked_approvers_if_needed = s.invoked_approvers_if_needed
  BY <1>2 DEF Others, Fields
<1>4. IsInternal(t) = IsInternal(s) /\ Entries(t) = Entries(s)
  BY <1>1, <1>3 DEF Fixed, IsInternal, Entries
<1>5. s.channel /\ s.handling = None /\ s.deciding = {} /\ h # None
  BY NamesAssumption DEF Fate, Always, Open
<1>6. Always(t)
  BY <1>1, <1>2, <1>3, <1>4, <1>5 DEF Fate, Always, Fixed
<1>7. Open(t)
  <2>1. PresentedToUser(t)
    BY <1>1, <1>2, <1>3, <1>4 DEF Fate, Open, PresentedToUser, Invited, Fixed
  <2>2. Requested(t)
    BY <1>1, <1>3, <1>4 DEF Fate, Open, Requested, Fixed
  <2>3. t.handling # None \/ t.deciding # {}
    BY <1>2, <1>5
  <2> QED BY <1>1, <1>3, <1>4, <2>1, <2>2, <2>3 DEF Fate, Open, Fixed
<1>8. Settled(t) /\ Dropped(t)
  BY <1>3 DEF Settled, Dropped
<1> QED BY <1>2, <1>3, <1>5, <1>6, <1>7, <1>8 DEF Fate, t

(* Without its head a queue has no new entries.                          *)
LEMMA TailEntries ==
  ASSUME NEW s, Typed(s), s.approvals # <<>>, NEW t, t.approvals = Tail(s.approvals)
  PROVE  Entries(t) \subseteq Entries(s)
<1>1. s.approvals \in Seq(Approval)
  BY TypedFields
<1>2. \A i \in DOMAIN Tail(s.approvals) :
        i + 1 \in DOMAIN s.approvals /\ Tail(s.approvals)[i] = s.approvals[i + 1]
  BY <1>1
<1> QED BY <1>2 DEF Entries

(* The head is an entry.                                                 *)
LEMMA HeadEntry ==
  ASSUME NEW s, Typed(s), s.approvals # <<>>
  PROVE  Head0(s) \in Entries(s)
<1>1. s.approvals \in Seq(Approval)
  BY TypedFields
<1>2. 1 \in DOMAIN s.approvals
  BY <1>1
<1> QED BY <1>2 DEF Entries, Head0

(* Fewer entries keep what always holds.                                 *)
LEMMA FewerEntriesAlways ==
  ASSUME NEW s, Always(s), NEW t, Entries(t) \subseteq Entries(s),
         Others(s, t, {"approvals", "reply"})
  PROVE  Always(t)
<1>1. /\ t.trying_handler = s.trying_handler /\ t.handling = s.handling
      /\ t.deciding = s.deciding /\ t.idle = s.idle /\ t.adding = s.adding
      /\ t.tried_handlers_before_approval = s.tried_handlers_before_approval
      /\ t.criticals = s.criticals /\ t.ado_pending = s.ado_pending
      /\ t.possible_handlers = s.possible_handlers
  BY DEF Others, Fields
<1> QED BY <1>1 DEF Always, IsInternal

(* Refusing the HandleWith at the head keeps the fate.                   *)
LEMMA RejectHeadFate ==
  ASSUME NEW s, Typed(s), Fate(s), s.approvals # <<>>, s.trying_handler = None
  PROVE  LET t == RejectHead(s) IN Fate(t) /\ t.handled_by = s.handled_by
<1> DEFINE q == Tail(s.approvals)
           v == [s.reply EXCEPT ![Head0(s).caller] = "error"]
           t == [s EXCEPT !.approvals = q, !.reply = v]
<1>1. RejectHead(s) = t
  BY TypedIsCdo DEF RejectHead, IsCdo, Fields
<1> HIDE DEF q, v
<1>2. Others(s, t, {"approvals", "reply"}) /\ t.approvals = q
  BY TypedIsCdo DEF IsCdo, Fields, Others
<1> HIDE DEF t
<1>3. Entries(t) \subseteq Entries(s)
  BY <1>2, TailEntries DEF q
<1>4. Always(t)
  BY <1>2, <1>3, FewerEntriesAlways DEF Fate
<1>5. /\ t.trying_handler = s.trying_handler /\ t.handling = s.handling
      /\ t.deciding = s.deciding /\ t.idle = s.idle /\ t.adding = s.adding
      /\ t.tried_handlers_before_approval = s.tried_handlers_before_approval
      /\ t.criticals = s.criticals /\ t.accepted_by_an_approver = s.accepted_by_an_approver
      /\ t.possible_handlers = s.possible_handlers /\ t.result = s.result
      /\ t.needs_approval = s.needs_approval /\ t.handled_by = s.handled_by
      /\ t.channel = s.channel /\ t.closing = s.closing
      /\ t.invoked_approvers_if_needed = s.invoked_approvers_if_needed
  BY <1>2 DEF Others, Fields
<1>6. Open(t)
  BY <1>3, <1>5 DEF Fate, Open, PresentedToUser, Requested, IsInternal
<1>7. Settled(t) /\ Dropped(t)
  BY <1>5 DEF Fate, Settled, Dropped
<1> QED BY <1>1, <1>4, <1>5, <1>6, <1>7 DEF Fate

(* Granting the claim at the head gives the channel to its caller, which *)
(* is an outcome.                                                        *)
LEMMA AcceptClaimFate ==
  ASSUME NEW s, Typed(s), Fate(s), HeadIs(s, "CLAIM"), s.trying_handler = None,
         s.result = "none", ~IsInternal(s), NEW fresh \in BOOLEAN
  PROVE  LET t == AcceptClaim(s, fresh)
         IN Fate(t) /\ t.result # "none" /\ Owned(s, t)
<1> DEFINE caller == Head0(s).caller
           p == [s EXCEPT !.approvals = Tail(s.approvals),
                          !.reply = [s.reply EXCEPT ![caller] = "ok"]]
           h == IF p.channel THEN SetChannelHandledBy(p, caller) ELSE p
           f == Finish(h, "NotYours")
           v == f.idle /\ ~fresh
           t == [f EXCEPT !.idle = v]
<1>1. AcceptClaim(s, fresh) = t
  BY TypedIsCdo DEF AcceptClaim, IsCdo, Fields
<1>2. s.approvals # <<>> /\ Head0(s).type = "CLAIM"
  BY DEF HeadIs
<1>3. caller # None /\ caller \in Handler \cup Caller \cup {None, Internal}
  BY <1>2, HeadEntry, TypedHead DEF Fate, Always
<1>4. Typed(p)
  BY <1>2, TypedAnswerHead
<1>5. Others(s, p, {"approvals", "reply"}) /\ p.approvals = Tail(s.approvals)
  <2> DEFINE q == Tail(s.approvals)
             r == [s.reply EXCEPT ![caller] = "ok"]
             x == [s EXCEPT !.approvals = q, !.reply = r]
  <2> HIDE DEF q, r
  <2>1. Others(s, x, {"approvals", "reply"}) /\ x.approvals = q
    BY TypedIsCdo DEF IsCdo, Fields, Others
  <2> QED BY <2>1 DEF x, q, r
<1> HIDE DEF p, caller
<1>6. Always(p) /\ p.trying_handler = None
  <2>1. Entries(p) \subseteq Entries(s)
    BY <1>2, <1>5, TailEntries
  <2>2. Always(p)
    BY <1>5, <2>1, FewerEntriesAlways DEF Fate
  <2> QED BY <1>5, <2>2 DEF Others, Fields
<1>7. /\ Typed(h) /\ Always(h) /\ h.trying_handler = None
      /\ h.handled_by # None \/ ~h.channel
  <2> DEFINE w == IF p.status = "FAILED" THEN p.status ELSE "DISPATCHED"
             g == [p EXCEPT !.handled_by = caller, !.status = w]
  <2>1. Typed(SetChannelHandledBy(p, caller))
    BY <1>3, <1>4, TypedSetChannelHandledBy
  <2>2. SetChannelHandledBy(p, caller) = g
    BY <1>4, TypedIsCdo DEF SetChannelHandledBy, IsCdo, Fields
  <2> HIDE DEF w
  <2>3. Others(p, g, {"handled_by", "status"}) /\ g.handled_by = caller
    BY <1>4, TypedIsCdo DEF IsCdo, Fields, Others
  <2> HIDE DEF g
  <2>4. Always(g) /\ g.trying_handler = None
    <3>1. /\ g.trying_handler = p.trying_handler /\ g.handling = p.handling
          /\ g.deciding = p.deciding /\ g.idle = p.idle /\ g.adding = p.adding
          /\ g.tried_handlers_before_approval = p.tried_handlers_before_approval
          /\ g.criticals = p.criticals /\ g.ado_pending = p.ado_pending
          /\ g.possible_handlers = p.possible_handlers /\ g.approvals = p.approvals
      BY <2>3 DEF Others, Fields
    <3> QED BY <1>6, <3>1 DEF Always, Entries, IsInternal
  <2> QED BY <1>3, <1>4, <1>6, <2>1, <2>2, <2>3, <2>4
<1> HIDE DEF h
<1>8. Fate(f) /\ f.result # "none" /\ Typed(f)
  BY <1>7, FinishFate, TypedFinish
<1> HIDE DEF f
<1>9. Others(f, t, {"idle"}) /\ (t.idle => f.idle)
  <2>1. t.idle = v
    <3> HIDE DEF v
    <3> QED BY <1>8, TypedIsCdo DEF IsCdo, Fields
  <2>2. v => f.idle
    OBVIOUS
  <2>3. Others(f, t, {"idle"})
    <3> HIDE DEF v
    <3> QED BY <1>8, TypedIsCdo DEF IsCdo, Fields, Others
  <2> HIDE DEF v, t
  <2> QED BY <2>1, <2>2, <2>3
<1> HIDE DEF t
<1>10. Fate(t) /\ t.result # "none"
  <2>1. /\ t.trying_handler = f.trying_handler /\ t.handling = f.handling
        /\ t.deciding = f.deciding /\ t.adding = f.adding /\ t.result = f.result
        /\ t.tried_handlers_before_approval = f.tried_handlers_before_approval
        /\ t.criticals = f.criticals /\ t.ado_pending = f.ado_pending
        /\ t.possible_handlers = f.possible_handlers /\ t.approvals = f.approvals
        /\ t.handled_by = f.handled_by /\ t.channel = f.channel /\ t.closing = f.closing
    BY <1>9 DEF Others, Fields
  <2>2. Always(t)
    BY <1>8, <1>9, <2>1 DEF Fate, Always, IsInternal, Entries
  <2> QED BY <1>8, <2>1, <2>2 DEF Fate, Open, Settled, Dropped
<1>11. Owned(s, t)
  BY DEF Fate, Open, Owned
<1> QED BY <1>1, <1>10, <1>11

(* The operation goes on: it is over, or a handler is tried, or the idle *)
(* source will go on with it.                                            *)
Decides(s, t) == t.result # "none" \/ t.trying_handler # None \/ t.idle

(* Looking for the next handler tries one that may be tried, or refuses  *)
(* the head of the queue, or finds none left.                            *)
LEMMA TryNextHandlerFate ==
  ASSUME NEW s, Typed(s), Fate(s), registry \subseteq Handler, s.result = "none",
         s.trying_handler = None, ~IsInternal(s), ~HeadIs(s, "CLAIM"),
         s.invoked_approvers_if_needed \/ ~s.tried_handlers_before_approval,
         NEW ranOut, Fate(ranOut), ranOut.handled_by = s.handled_by
  PROVE  LET t == TryNextHandler(s, ranOut)
         IN /\ Fate(t) /\ t.handled_by = s.handled_by
            /\ \/ t.trying_handler # None
               \/ HeadIs(s, "HANDLE_WITH")
               \/ t = ranOut
<1>1. s.approvals # <<>> => Head0(s) \in Entries(s) /\ Head0(s).type \in ApprovalType
  BY HeadEntry, TypedHead
<1>2. CASE PreferredIsUsable(s)
  <2>1. PreferredHandler(s) \in Handler /\ PreferredHandler(s) # None
    BY <1>2, NamesAssumption DEF PreferredIsUsable
  <2>2. ~HandleWithIsGone(s)
    BY <1>2 DEF PreferredIsUsable, HandleWithIsGone
  <2>3. TryNextHandler(s, ranOut) = TryHandler(s, PreferredHandler(s))
    BY <1>2, <2>2 DEF TryNextHandler
  <2>4. Head0(s) \in Entries(s) /\ Head0(s).type \in {"HANDLE_WITH", "REQUESTED"}
    <3>1. s.approvals # <<>> /\ Head0(s).client_bus_name # None
      BY <2>1 DEF PreferredHandler
    <3>2. Head0(s).type \notin {"CLAIM", "NO_APPROVERS"}
      BY <1>1, <3>1 DEF Fate, Always
    <3> QED BY <1>1, <3>1, <3>2 DEF ApprovalType
  <2>5. Invited(s, PreferredHandler(s))
    BY <2>4 DEF Invited
  <2> QED BY <2>1, <2>3, <2>5, TryHandlerFate
<1>3. CASE ~PreferredIsUsable(s) /\ HandleWithIsGone(s)
  <2>1. s.approvals # <<>> /\ HeadIs(s, "HANDLE_WITH")
    BY <1>3 DEF HandleWithIsGone, HeadIs
  <2>2. TryNextHandler(s, ranOut) = RejectHead(s)
    BY <1>3 DEF TryNextHandler
  <2> QED BY <2>1, <2>2, RejectHeadFate
<1>4. CASE ~PreferredIsUsable(s) /\ ~HandleWithIsGone(s) /\ Candidates(s) # {}
  <2> DEFINE h == Best(s, Candidates(s))
  <2>1. h \in Handler
    BY <1>4, BestCandidate
  <2>2. TryNextHandler(s, ranOut) = TryHandler(s, h)
    BY <1>4 DEF TryNextHandler
  <2>3. IsApproved(s) \/ h \in BypassApproval
    <3>1. Candidates(s) \subseteq DOMAIN s.possible_handlers
      BY DEF Candidates, Existing
    <3>2. PICK i \in Candidates(s) : h = s.possible_handlers[i]
      BY <1>4, <3>1, BestIsListed
    <3> QED BY <3>2 DEF Candidates
  <2> HIDE DEF h
  <2>4. Invited(s, h)
    <3> SUFFICES ASSUME h \notin BypassApproval, s.needs_approval
                 PROVE  \E a \in Entries(s) :
                          \/ a.type \in {"HANDLE_WITH", "REQUESTED"}
                          \/ a.type = "NO_APPROVERS" /\ s.invoked_approvers_if_needed
      BY DEF Invited
    <3>1. s.approvals # <<>>
      BY <2>3 DEF IsApproved
    <3>2. Head0(s).type # "CLAIM"
      BY <3>1 DEF HeadIs
    <3>3. CASE Head0(s).type = "NO_APPROVERS"
      <4>1. s.tried_handlers_before_approval
        BY <1>1, <3>1, <3>3 DEF Fate, Open, PresentedToUser
      <4> QED BY <1>1, <3>1, <3>3, <4>1
    <3> QED BY <1>1, <3>1, <3>2, <3>3 DEF ApprovalType
  <2> QED BY <2>1, <2>2, <2>4, TryHandlerFate
<1>5. CASE ~PreferredIsUsable(s) /\ ~HandleWithIsGone(s) /\ Candidates(s) = {}
  <2>1. TryNextHandler(s, ranOut) = ranOut
    BY <1>5 DEF TryNextHandler
  <2> QED BY <2>1
<1> QED BY <1>2, <1>3, <1>4, <1>5

(* A HandleWith at the head runs the handlers without the approvers, who *)
(* need not be asked any more.                                           *)
LEMMA InsistFate ==
  ASSUME NEW s, Typed(s), Fate(s), HeadIs(s, "HANDLE_WITH"), s.trying_handler = None,
         NEW v \in BOOLEAN, v => s.idle
  PROVE  LET t == [s EXCEPT !.invoked_approvers_if_needed = TRUE, !.idle = v]
         IN /\ Fate(t) /\ Typed(t)
            /\ Others(s, t, {"invoked_approvers_if_needed", "idle"})
            /\ t.invoked_approvers_if_needed
<1> DEFINE t == [s EXCEPT !.invoked_approvers_if_needed = TRUE, !.idle = v]
<1>1. Typed(t)
  BY TypedFlag
<1>2. /\ Others(s, t, {"invoked_approvers_if_needed", "idle"})
      /\ t.invoked_approvers_if_needed /\ t.idle = v
  BY TypedIsCdo DEF IsCdo, Fields, Others
<1> HIDE DEF t
<1>3. /\ t.trying_handler = s.trying_handler /\ t.handling = s.handling
      /\ t.deciding = s.deciding /\ t.adding = s.adding /\ t.result = s.result
      /\ t.tried_handlers_before_approval = s.tried_handlers_before_approval
      /\ t.criticals = s.criticals /\ t.ado_pending = s.ado_pending
      /\ t.possible_handlers = s.possible_handlers /\ t.approvals = s.approvals
      /\ t.handled_by = s.handled_by /\ t.channel = s.channel /\ t.closing = s.closing
      /\ t.accepted_by_an_approver = s.accepted_by_an_approver
      /\ t.needs_approval = s.needs_approval
  BY <1>2 DEF Others, Fields
<1>4. Entries(t) = Entries(s) /\ IsInternal(t) = IsInternal(s)
  BY <1>3 DEF Entries, IsInternal
<1>5. Always(t)
  BY <1>2, <1>3, <1>4 DEF Fate, Always
<1>6. Open(t)
  BY <1>2, <1>3, <1>4 DEF Fate, Open, PresentedToUser, Requested
<1>7. Settled(t) /\ Dropped(t)
  BY <1>3 DEF Fate, Settled, Dropped
<1> QED BY <1>1, <1>2, <1>5, <1>6, <1>7 DEF Fate, t

(* Attaching the idle source keeps the fate.                             *)
LEMMA WaitForIdleFate ==
  ASSUME NEW s, Typed(s), Fate(s), s.trying_handler = None, ~s.tried_handlers_before_approval
  PROVE  LET t == [s EXCEPT !.tried_handlers_before_approval = TRUE, !.idle = TRUE]
         IN /\ Fate(t) /\ Typed(t) /\ t.idle
            /\ Others(s, t, {"tried_handlers_before_approval", "idle"})
<1> DEFINE t == [s EXCEPT !.tried_handlers_before_approval = TRUE, !.idle = TRUE]
<1>1. Typed(t)
  BY TypedFlag
<1>2. /\ Others(s, t, {"tried_handlers_before_approval", "idle"})
      /\ t.idle /\ t.tried_handlers_before_approval
  BY TypedIsCdo DEF IsCdo, Fields, Others
<1> HIDE DEF t
<1>3. /\ t.trying_handler = s.trying_handler /\ t.handling = s.handling
      /\ t.deciding = s.deciding /\ t.adding = s.adding /\ t.result = s.result
      /\ t.criticals = s.criticals /\ t.ado_pending = s.ado_pending
      /\ t.possible_handlers = s.possible_handlers /\ t.approvals = s.approvals
      /\ t.handled_by = s.handled_by /\ t.channel = s.channel /\ t.closing = s.closing
      /\ t.accepted_by_an_approver = s.accepted_by_an_approver
      /\ t.needs_approval = s.needs_approval
  BY <1>2 DEF Others, Fields
<1>4. Entries(t) = Entries(s) /\ IsInternal(t) = IsInternal(s)
  BY <1>3 DEF Entries, IsInternal
<1>5. Always(t)
  BY <1>2, <1>3, <1>4 DEF Fate, Always
<1>6. Open(t)
  BY <1>2, <1>3, <1>4 DEF Fate, Open, PresentedToUser, Requested
<1>7. Settled(t) /\ Dropped(t)
  BY <1>3 DEF Fate, Settled, Dropped
<1> QED BY <1>1, <1>2, <1>5, <1>6, <1>7 DEF Fate, t

(* The internal handler owns its channel at once.                        *)
LEMMA InternalFate ==
  ASSUME NEW s, IsCdo(s), Fate(s), IsInternal(s), s.result = "none"
  PROVE  LET t == [s EXCEPT !.handled_by = Internal]
         IN Fate(t) /\ Owned(s, t)
<1> DEFINE t == [s EXCEPT !.handled_by = Internal]
<1>1. Others(s, t, {"handled_by"}) /\ t.handled_by = Internal
  BY DEF IsCdo, Fields, Others
<1> HIDE DEF t
<1>2. /\ t.trying_handler = s.trying_handler /\ t.handling = s.handling
      /\ t.deciding = s.deciding /\ t.adding = s.adding /\ t.result = s.result
      /\ t.tried_handlers_before_approval = s.tried_handlers_before_approval
      /\ t.criticals = s.criticals /\ t.ado_pending = s.ado_pending
      /\ t.possible_handlers = s.possible_handlers /\ t.approvals = s.approvals
      /\ t.channel = s.channel /\ t.closing = s.closing /\ t.idle = s.idle
      /\ t.accepted_by_an_approver = s.accepted_by_an_approver
      /\ t.invoked_approvers_if_needed = s.invoked_approvers_if_needed
      /\ t.needs_approval = s.needs_approval
  BY <1>1 DEF Others, Fields
<1>3. Entries(t) = Entries(s) /\ IsInternal(t) = IsInternal(s)
  BY <1>2 DEF Entries, IsInternal
<1>4. Always(t)
  BY <1>2, <1>3 DEF Fate, Always
<1>5. Open(t)
  BY <1>1, <1>2, <1>3 DEF Fate, Open, PresentedToUser, Requested
<1>6. Settled(t) /\ Dropped(t)
  BY <1>2 DEF Settled, Dropped
<1>7. Owned(s, t)
  BY <1>1 DEF Fate, Open, Owned
<1> QED BY <1>4, <1>5, <1>6, <1>7 DEF Fate, t

(* Acting on the head of the queue keeps the fate, takes the channel     *)
(* from nobody, and decides an operation that needs no approval.         *)
LEMMA ProceedFate ==
  ASSUME NEW s, Typed(s), Fate(s), registry \subseteq Handler, s.result = "none",
         s.trying_handler = None, NEW fresh \in BOOLEAN
  PROVE  LET t == Proceed(s, fresh)
         IN /\ Fate(t) /\ Owned(s, t)
            /\ ~s.needs_approval /\ ~IsInternal(s) => Decides(s, t)
<1> DEFINE v == s.idle /\ ~fresh
           h == [s EXCEPT !.invoked_approvers_if_needed = TRUE, !.idle = v]
           t == IF HeadIs(s, "HANDLE_WITH") THEN h ELSE s
           g == [t EXCEPT !.tried_handlers_before_approval = TRUE, !.idle = TRUE]
           c == CloseAsUndispatchable(t)
           r == Proceed(s, fresh)
<1>1. CASE IsInternal(s)
  <2>1. r \in {s, [s EXCEPT !.handled_by = Internal]}
    BY <1>1 DEF Proceed
  <2> HIDE DEF r
  <2> QED BY <1>1, <2>1, InternalFate, TypedIsCdo DEF Owned, r
<1>2. CASE ~IsInternal(s) /\ s.possible_handlers = <<>>
  <2>1. r = CloseAsUndispatchable(s)
    BY <1>2 DEF Proceed
  <2>2. /\ Fate(CloseAsUndispatchable(s)) /\ CloseAsUndispatchable(s).result # "none"
        /\ CloseAsUndispatchable(s).handled_by = s.handled_by
    BY CloseAsUndispatchableFate DEF Fate
  <2> HIDE DEF r
  <2> QED BY <2>1, <2>2 DEF Owned, Decides, r
<1>3. CASE ~IsInternal(s) /\ s.possible_handlers # <<>> /\ HeadIs(s, "CLAIM")
  <2>1. r = AcceptClaim(s, fresh)
    BY <1>3 DEF Proceed
  <2>2. /\ Fate(AcceptClaim(s, fresh)) /\ AcceptClaim(s, fresh).result # "none"
        /\ Owned(s, AcceptClaim(s, fresh))
    BY <1>3, AcceptClaimFate
  <2> HIDE DEF r
  <2> QED BY <2>1, <2>2 DEF Decides, r
<1>4. CASE ~IsInternal(s) /\ s.possible_handlers # <<>> /\ ~HeadIs(s, "CLAIM")
  <2>1. v \in BOOLEAN /\ (v => s.idle)
    OBVIOUS
  <2>2. r = IF t.invoked_approvers_if_needed /\ IsApproved(t)
            THEN TryNextHandler(t, c)
            ELSE IF ~t.invoked_approvers_if_needed /\ ~t.tried_handlers_before_approval
            THEN TryNextHandler(t, g)
            ELSE t
    <3>1. h = [s EXCEPT !.invoked_approvers_if_needed = TRUE, !.idle = @ /\ ~fresh]
      BY TypedIsCdo DEF IsCdo, Fields
    <3> HIDE DEF h, v
    <3> QED BY <1>4, <3>1 DEF Proceed
  <2> HIDE DEF r, v
  <2>3. HeadIs(s, "HANDLE_WITH") =>
          /\ Fate(h) /\ Typed(h) /\ h.invoked_approvers_if_needed
          /\ Others(s, h, {"invoked_approvers_if_needed", "idle"})
    BY <2>1, InsistFate
  <2> HIDE DEF h
  <2>4. Others(s, s, {"invoked_approvers_if_needed", "idle"})
    BY DEF Others
  <2>5. /\ Fate(t) /\ Typed(t) /\ Others(s, t, {"invoked_approvers_if_needed", "idle"})
        /\ t = s \/ HeadIs(s, "HANDLE_WITH")
    BY <2>3, <2>4
  <2> HIDE DEF t
  <2>6. /\ t.result = "none" /\ t.trying_handler = None /\ t.approvals = s.approvals
        /\ t.possible_handlers = s.possible_handlers /\ t.handled_by = s.handled_by
        /\ t.needs_approval = s.needs_approval
    BY <2>5 DEF Others, Fields
  <2>7. ~IsInternal(t) /\ ~HeadIs(t, "CLAIM") /\ (HeadIs(t, "HANDLE_WITH") = HeadIs(s, "HANDLE_WITH"))
    BY <1>4, <2>6 DEF IsInternal, HeadIs, Head0
  <2>8. ~s.needs_approval => ~HeadIs(s, "HANDLE_WITH") /\ t = s
    <3>1. s.approvals # <<>> => Head0(s) \in Entries(s)
      BY HeadEntry
    <3> QED BY <2>5, <3>1 DEF Fate, Open, Requested, HeadIs
  <2>9. Fate(c) /\ c.result # "none" /\ c.handled_by = t.handled_by
    BY <2>5, <2>6, CloseAsUndispatchableFate DEF Fate
  <2> HIDE DEF c
  <2>10. CASE t.invoked_approvers_if_needed /\ IsApproved(t)
    <3>1. r = TryNextHandler(t, c)
      BY <2>2, <2>10
    <3>2. LET x == TryNextHandler(t, c)
          IN /\ Fate(x) /\ x.handled_by = t.handled_by
             /\ x.trying_handler # None \/ HeadIs(t, "HANDLE_WITH") \/ x = c
      BY <2>5, <2>6, <2>7, <2>9, <2>10, TryNextHandlerFate
    <3> QED BY <2>6, <2>7, <2>8, <2>9, <3>1, <3>2 DEF Owned, Decides, r
  <2>11. CASE ~(t.invoked_approvers_if_needed /\ IsApproved(t))
              /\ ~t.invoked_approvers_if_needed /\ ~t.tried_handlers_before_approval
    <3>1. r = TryNextHandler(t, g)
      BY <2>2, <2>11
    <3>2. /\ Fate(g) /\ g.idle
          /\ Others(t, g, {"tried_handlers_before_approval", "idle"})
      BY <2>5, <2>6, <2>11, WaitForIdleFate
    <3> HIDE DEF g
    <3>3. g.handled_by = t.handled_by
      BY <3>2 DEF Others, Fields
    <3>4. LET x == TryNextHandler(t, g)
          IN /\ Fate(x) /\ x.handled_by = t.handled_by
             /\ x.trying_handler # None \/ HeadIs(t, "HANDLE_WITH") \/ x = g
      BY <2>5, <2>6, <2>7, <3>2, <3>3, <2>11, TryNextHandlerFate
    <3> QED BY <2>6, <2>7, <2>8, <3>1, <3>2, <3>4 DEF Owned, Decides, r
  <2>12. CASE ~(t.invoked_approvers_if_needed /\ IsApproved(t))
              /\ ~(~t.invoked_approvers_if_needed /\ ~t.tried_handlers_before_approval)
    <3>1. r = t
      BY <2>2, <2>12
    <3>2. ~s.needs_approval => t.idle
      BY <2>5, <2>6, <2>8, <2>12 DEF Fate, Open, Requested, IsApproved
    <3> QED BY <2>5, <2>6, <3>1, <3>2 DEF Owned, Decides, r
  <2> QED BY <2>10, <2>11, <2>12
<1> QED BY <1>1, <1>2, <1>3, <1>4

(* What was due after the observers keeps the fate.                      *)
LEMMA PostObserverActionsFate ==
  ASSUME NEW s, Typed(s), Fate(s)
  PROVE  LET t == PostObserverActions(s)
         IN Fate(t) /\ t.handled_by = s.handled_by
<1> DEFINE u == IF WillTerminate(s) THEN TerminateChannels(s) ELSE s
           d == [u EXCEPT !.did_post_observer_actions = TRUE]
<1>1. PostObserverActions(s) \in {s, d}
  BY DEF PostObserverActions
<1>2. Fate(u) /\ u.handled_by = s.handled_by /\ IsCdo(u)
  BY TerminateChannelsFate, TypedTerminateChannels, TypedIsCdo
<1> HIDE DEF u
<1>3. Calm(u, d)
  BY <1>2, CalmExcept, LooseNames
<1> HIDE DEF d
<1>4. Fate(d) /\ d.handled_by = s.handled_by
  BY <1>2, <1>3, CalmFate DEF Calm, Wound
<1> QED BY <1>1, <1>4

(* So does attaching the idle source.                                    *)
LEMMA ScheduleApproversFate ==
  ASSUME NEW s, Typed(s), Fate(s)
  PROVE  LET t == ScheduleApprovers(s)
         IN Fate(t) /\ t.handled_by = s.handled_by
<1> DEFINE t == [s EXCEPT !.tried_handlers_before_approval = TRUE, !.idle = TRUE]
<1>1. /\ ScheduleApprovers(s) \in {s, t}
      /\ s.tried_handlers_before_approval => ScheduleApprovers(s) = s
  BY DEF ScheduleApprovers
<1>2. Others(s, t, {"tried_handlers_before_approval", "idle"})
      /\ t.tried_handlers_before_approval /\ t.idle
  BY TypedIsCdo DEF IsCdo, Fields, Others
<1> HIDE DEF t
<1>3. /\ t.trying_handler = s.trying_handler /\ t.handling = s.handling
      /\ t.deciding = s.deciding /\ t.adding = s.adding /\ t.result = s.result
      /\ t.criticals = s.criticals /\ t.ado_pending = s.ado_pending
      /\ t.possible_handlers = s.possible_handlers /\ t.approvals = s.approvals
      /\ t.handled_by = s.handled_by /\ t.channel = s.channel /\ t.closing = s.closing
      /\ t.accepted_by_an_approver = s.accepted_by_an_approver
      /\ t.invoked_approvers_if_needed = s.invoked_approvers_if_needed
      /\ t.needs_approval = s.needs_approval
  BY <1>2 DEF Others, Fields
<1>4. Entries(t) = Entries(s) /\ IsInternal(t) = IsInternal(s)
  BY <1>3 DEF Entries, IsInternal
<1>5. ~s.tried_handlers_before_approval => Fate(t)
  <2> SUFFICES ASSUME ~s.tried_handlers_before_approval PROVE Fate(t)
    OBVIOUS
  <2>1. Always(t)
    BY <1>2, <1>3, <1>4 DEF Fate, Always
  <2>2. Open(t)
    BY <1>2, <1>3, <1>4 DEF Fate, Open, PresentedToUser, Requested
  <2>3. Settled(t) /\ Dropped(t)
    BY <1>3 DEF Fate, Settled, Dropped
  <2> QED BY <2>1, <2>2, <2>3 DEF Fate
<1> QED BY <1>1, <1>3, <1>5

(* An operation that needs no approval has something to wait for until   *)
(* it is over: an observer, a plugin, a handler or the idle source.      *)
Awake(s) ==
  s.result = "none" /\ s.invoked_observers_if_needed /\ ~s.needs_approval
  /\ ~s.observe_only /\ ~IsInternal(s) =>
    s.observing # {} \/ s.plugins_pending > 0 \/ s.trying_handler # None \/ s.idle

(* The check of the locks keeps the fate, takes the channel from nobody, *)
(* and leaves no request asleep: it is what every handler of an event    *)
(* calls last.                                                           *)
LEMMA CheckClientLocksFate ==
  ASSUME NEW s, Typed(s), Fate(s), ObserverLocks(s), registry \subseteq Handler
  PROVE  LET t == CheckClientLocks(s) IN Fate(t) /\ Owned(s, t) /\ Awake(t)
<1> DEFINE a == PostObserverActions(s)
           b == ScheduleApprovers(a)
           fresh == b.idle /\ ~a.idle
           t == CheckClientLocks(s)
<1>1. t = IF ~s.invoked_observers_if_needed \/ s.plugins_pending > 0 THEN s
          ELSE IF Locked(b) THEN b ELSE Proceed(b, fresh)
  BY DEF CheckClientLocks
<1>2. fresh \in BOOLEAN
  OBVIOUS
<1>3. Typed(a) /\ Fate(a) /\ a.handled_by = s.handled_by
  BY TypedPostObserverActions, PostObserverActionsFate
<1> HIDE DEF a, fresh
<1>4. Typed(b) /\ Fate(b) /\ b.handled_by = s.handled_by
  BY <1>3, TypedScheduleApprovers, ScheduleApproversFate
<1>5. Fixed(s, b)
  <2>1. Fixed(s, a) /\ Fixed(a, b)
    BY <1>3, TypedIsCdo, FixedPostObserverActions, WoundScheduleApprovers, WoundFixed DEF a
  <2> QED BY <2>1, FixedTrans
<1> HIDE DEF b
<1>6. CASE ~s.invoked_observers_if_needed \/ s.plugins_pending > 0
  BY <1>1, <1>6 DEF Owned, Awake
<1>7. CASE ~(~s.invoked_observers_if_needed \/ s.plugins_pending > 0) /\ Locked(b)
  <2>1. t = b
    BY <1>1, <1>7
  <2>2. b.observers_pending > 0 => b.observing # {}
    <3>1. b.observers_pending = Cardinality(b.observing)
      BY <1>5, FixedObserverLocks DEF ObserverLocks
    <3>2. Cardinality({}) = 0
      BY FS_EmptySet
    <3> QED BY <3>1, <3>2
  <2>3. b.result = "none" /\ ~b.needs_approval => ~(b.ado_pending > 0)
    <3>1. b.result = "none" /\ ~b.needs_approval => b.adding = {} /\ b.ado_pending = Cardinality(b.adding)
      BY <1>4 DEF Fate, Always, Open, Requested
    <3>2. Cardinality({}) = 0
      BY FS_EmptySet
    <3> QED BY <3>1, <3>2
  <2>4. Awake(b)
    BY <1>7, <2>2, <2>3 DEF Locked, Awake
  <2> QED BY <1>4, <2>1, <2>4 DEF Owned
<1>8. CASE ~(~s.invoked_observers_if_needed \/ s.plugins_pending > 0) /\ ~Locked(b)
  <2>1. t = Proceed(b, fresh)
    BY <1>1, <1>8
  <2>2. b.result = "none" /\ b.trying_handler = None
    BY <1>8 DEF Locked
  <2>3. Fate(t) /\ Owned(b, t) /\ (~b.needs_approval /\ ~IsInternal(b) => Decides(b, t))
    <3> HIDE DEF t
    <3> QED BY <1>2, <1>4, <2>1, <2>2, ProceedFate
  <2>4. Fixed(b, t)
    <3> HIDE DEF t
    <3> QED BY <1>4, <2>1, TypedIsCdo, FixedProceed
  <2> HIDE DEF t
  <2>5. IsInternal(t) = IsInternal(b) /\ t.needs_approval = b.needs_approval
    BY <2>4 DEF Fixed, IsInternal
  <2>6. Awake(t)
    BY <2>3, <2>5 DEF Awake, Decides
  <2> QED BY <1>4, <2>3, <2>6 DEF Owned, t
<1> QED BY <1>6, <1>7, <1>8

(* Plugins look at a Claim only of an operation that needs approval:     *)
(* others are not exported to the bus.                                   *)
ClaimsInv(s) == \A c \in Caller : Pending(s, c) => s.needs_approval

(* The invariant between two statements: everything but Awake, which the *)
(* check of the locks re-establishes.                                    *)
Ready(s) ==
  Typed(s) /\ ObserverLocks(s) /\ Fate(s) /\ QueueInv(s) /\ ClaimsInv(s)

(* A step that keeps the invariant, takes the channel from nobody and    *)
(* changes no reply.                                                     *)
Moves(s, t) == Ready(t) /\ Owned(s, t) /\ Answered(s, t)

(* Two such steps in turn are one.                                       *)
LEMMA MovesTrans ==
  ASSUME NEW s, NEW t, NEW u, Moves(s, t), Moves(t, u) PROVE Moves(s, u)
<1>1. Owned(s, u)
  BY DEF Moves, Owned
<1> QED BY <1>1, AnsweredTrans DEF Moves

(* Doing nothing is one.                                                 *)
LEMMA MovesSelf ==
  ASSUME NEW s, Ready(s) PROVE Moves(s, s)
  BY DEF Moves, Owned, Answered

(* Internal functions touch no claim.                                    *)
LEMMA FixedClaims ==
  ASSUME NEW s, NEW t, ClaimsInv(s), Fixed(s, t) PROVE ClaimsInv(t)
  BY DEF ClaimsInv, Fixed, Pending

(* A function that leaves the fixed fields alone and keeps the types,    *)
(* the fate and the queue is such a step.                                *)
LEMMA FixedMoves ==
  ASSUME NEW s, NEW t, Ready(s), Typed(t), Fixed(s, t), Fate(t), Owned(s, t), KeepsQueue(s, t)
  PROVE  Moves(s, t)
  BY FixedClaims, FixedObserverLocks DEF Ready, Moves, KeepsQueue

(* The fields that the fate of the channel does not depend on.           *)
Aside ==
  {"failed_handlers", "successful_handler", "lost_channel", "invoked_observers_if_needed",
   "observers_pending", "delay_approver_observers_pending", "handler_unsuitable",
   "cancelled", "plugins_pending", "did_post_observer_actions", "after_observers",
   "status", "error", "invalidated", "observing", "leaked", "asked", "signals"}

(* Writing them keeps the fate.                                          *)
LEMMA AsideFate ==
  ASSUME NEW s, NEW t, Fate(s), Others(s, t, Aside)
  PROVE  Fate(t) /\ t.handled_by = s.handled_by
<1>1. /\ t.trying_handler = s.trying_handler /\ t.handling = s.handling
      /\ t.deciding = s.deciding /\ t.adding = s.adding /\ t.result = s.result
      /\ t.tried_handlers_before_approval = s.tried_handlers_before_approval
      /\ t.criticals = s.criticals /\ t.ado_pending = s.ado_pending
      /\ t.possible_handlers = s.possible_handlers /\ t.approvals = s.approvals
      /\ t.channel = s.channel /\ t.closing = s.closing /\ t.idle = s.idle
      /\ t.accepted_by_an_approver = s.accepted_by_an_approver
      /\ t.invoked_approvers_if_needed = s.invoked_approvers_if_needed
      /\ t.needs_approval = s.needs_approval /\ t.handled_by = s.handled_by
  BY DEF Others, Fields, Aside
<1>2. Entries(t) = Entries(s) /\ IsInternal(t) = IsInternal(s)
  BY <1>1 DEF Entries, IsInternal
<1>3. Always(t)
  BY <1>1, <1>2 DEF Fate, Always
<1>4. Open(t)
  BY <1>1, <1>2 DEF Fate, Open, PresentedToUser, Requested
<1>5. Settled(t) /\ Dropped(t)
  BY <1>1 DEF Fate, Settled, Dropped
<1> QED BY <1>1, <1>3, <1>4, <1>5 DEF Fate

(* It is such a step when the observers' locks still count.              *)
LEMMA AsideMoves ==
  ASSUME NEW s, NEW t, Ready(s), Typed(t), ObserverLocks(t), Others(s, t, Aside)
  PROVE  Moves(s, t)
<1>1. t.approvals = s.approvals /\ t.reply = s.reply /\ t.claims = s.claims
      /\ t.needs_approval = s.needs_approval
  BY DEF Others, Fields, Aside
<1>2. KeepsQueue(s, t)
  BY <1>1, SameKeeps DEF SameQueue, Ready
<1>3. ClaimsInv(t)
  BY <1>1 DEF Ready, ClaimsInv, Pending
<1>4. Fate(t) /\ Owned(s, t)
  BY AsideFate DEF Owned, Ready
<1> QED BY <1>2, <1>3, <1>4 DEF Moves, Ready, KeepsQueue

(* check_finished is such a step.                                        *)
LEMMA CheckFinishedMoves ==
  ASSUME NEW s, Ready(s) PROVE Moves(s, CheckFinished(s))
<1> DEFINE t == CheckFinished(s)
<1>1. Typed(t) /\ Fate(t) /\ Wound(s, t)
  BY TypedIsCdo, TypedCheckFinished, CheckFinishedFate, WoundCheckFinished DEF Ready
<1> HIDE DEF t
<1>2. KeepsQueue(s, t)
  BY <1>1, WoundKeeps DEF Ready
<1>3. Moves(s, t)
  BY <1>1, <1>2, FixedMoves DEF Wound, Owned
<1> QED BY <1>3 DEF t

(* So is the check of the locks, after which the operation is awake.     *)
LEMMA CheckClientLocksMoves ==
  ASSUME NEW s, Ready(s), registry \subseteq Handler
  PROVE  Moves(s, CheckClientLocks(s)) /\ Awake(CheckClientLocks(s))
<1> DEFINE t == CheckClientLocks(s)
<1>1. Typed(t) /\ Fate(t) /\ Owned(s, t) /\ Awake(t)
  BY TypedCheckClientLocks, CheckClientLocksFate DEF Ready
<1>2. Fixed(s, t) /\ KeepsQueue(s, t)
  BY TypedIsCdo, FixedCheckClientLocks, CheckClientLocksKeeps DEF Ready
<1> HIDE DEF t
<1>3. Moves(s, t)
  BY <1>1, <1>2, FixedMoves
<1> QED BY <1>1, <1>3 DEF t

(* So is the loss of the channel.                                        *)
LEMMA LoseChannelMoves ==
  ASSUME NEW s, Ready(s)
  PROVE  Moves(s, LoseChannel(s)) /\ LoseChannel(s).result # "none"
<1> DEFINE t == LoseChannel(s)
<1>1. Typed(t) /\ Fate(t) /\ t.handled_by = s.handled_by /\ t.result # "none"
  BY TypedLoseChannel, LoseChannelFate DEF Ready
<1>2. Fixed(s, t) /\ KeepsQueue(s, t)
  BY TypedIsCdo, FixedLoseChannel, LoseChannelKeeps DEF Ready
<1> HIDE DEF t
<1>3. Moves(s, t)
  BY <1>1, <1>2, FixedMoves DEF Owned
<1> QED BY <1>1, <1>3 DEF t

(* So is a plugin that terminates the channel.                           *)
LEMMA TerminateChannelsMoves ==
  ASSUME NEW s, Ready(s)
  PROVE  LET t == TerminateChannels(s)
         IN Moves(s, t) /\ (t = s \/ t.result # "none")
<1> DEFINE t == TerminateChannels(s)
<1>1. Typed(t) /\ Fate(t) /\ t.handled_by = s.handled_by /\ (t = s \/ t.result # "none")
  BY TypedTerminateChannels, TerminateChannelsFate DEF Ready
<1>2. Fixed(s, t) /\ KeepsQueue(s, t)
  BY TypedIsCdo, FixedTerminateChannels, TerminateChannelsKeeps DEF Ready
<1> HIDE DEF t
<1>3. Moves(s, t)
  BY <1>1, <1>2, FixedMoves DEF Owned
<1> QED BY <1>1, <1>3 DEF t

(* The invariant of the operation's record, between two events.          *)
Inv(s) == Ready(s) /\ Awake(s)

(* A step followed by the check of the locks leads to the invariant.     *)
LEMMA CheckedMoves ==
  ASSUME NEW s, NEW t, Moves(s, t), registry \subseteq Handler
  PROVE  /\ Moves(s, CheckClientLocks(t)) /\ Inv(CheckClientLocks(t))
<1>1. Moves(t, CheckClientLocks(t)) /\ Awake(CheckClientLocks(t))
  BY CheckClientLocksMoves DEF Moves
<1>2. Moves(s, CheckClientLocks(t))
  BY <1>1, MovesTrans
<1> QED BY <1>1, <1>2 DEF Moves, Inv

(* _mcd_dispatch_operation_run_clients, with whatever the plugins do     *)
(* meanwhile.                                                            *)
LEMMA RunClientsMoves ==
  ASSUME Inv(cdo), registry \subseteq Handler,
         NEW observers \in SUBSET Observer, NEW delaying \in SUBSET Plugin,
         NEW now \in BOOLEAN, NEW later \in PluginAction,
         RunClients(observers, delaying, now, later)
  PROVE  Moves(cdo, cdo') /\ Inv(cdo') /\ registry' = registry
<1> DEFINE called == IF CanBypassObservers(cdo) THEN {} ELSE observers
           n == Cardinality(called)
           m == Cardinality(called \cap DelayApprovers)
           k == Cardinality(delaying)
           a == [cdo EXCEPT !.observing = called]
           o == [a EXCEPT !.observers_pending = n, !.delay_approver_observers_pending = m]
           p == [o EXCEPT !.plugins_pending = k, !.after_observers = later]
           t == IF now THEN TerminateChannels(p) ELSE p
           u == [t EXCEPT !.invoked_observers_if_needed = TRUE]
<1>1. cdo' = CheckClientLocks(CheckFinished(u)) /\ registry' = registry
  <2>1. o = [cdo EXCEPT !.observing = called, !.observers_pending = n,
                        !.delay_approver_observers_pending = m]
    <3> HIDE DEF called, n, m
    <3> QED BY TypedIsCdo DEF Inv, Ready, IsCdo, Fields
  <2> HIDE DEF o
  <2> QED BY <2>1 DEF RunClients
<1>2. called \in SUBSET Observer
  OBVIOUS
<1> HIDE DEF called
<1>3. n \in Nat /\ m \in Nat /\ k \in Nat
  <2>1. IsFiniteSet(called) /\ n \in Nat
    BY <1>2, ClientsAssumption, SubsetCardinality
  <2>2. m \in Nat
    BY <2>1, SubsetCardinality
  <2>3. k \in Nat
    BY ClientsAssumption, SubsetCardinality
  <2> QED BY <2>1, <2>2, <2>3
<1>4. Ready(cdo) /\ Typed(cdo)
  BY DEF Inv, Ready
<1>5. Typed(a) /\ a.observing = called /\ Others(cdo, a, Aside)
  <2>1. called \in FieldType.observing
    BY <1>2, FieldTypes
  <2>2. Typed(a)
    BY <1>4, <2>1, TypedExcept, FieldNames
  <2> QED BY <1>4, <2>2, TypedIsCdo DEF IsCdo, Fields, Others, Aside
<1> HIDE DEF a
<1>6. Typed(o) /\ ObserverLocks(o) /\ Others(a, o, Aside)
  <2>1. n \in FieldType.observers_pending /\ m \in FieldType.delay_approver_observers_pending
    BY <1>3, FieldTypes
  <2>2. o.observing = called /\ o.observers_pending = n
        /\ o.delay_approver_observers_pending = m /\ Others(a, o, Aside)
    <3> HIDE DEF n, m
    <3>1. IsCdo(a)
      BY <1>5, TypedIsCdo
    <3>2. o.observing = a.observing /\ o.observers_pending = n
          /\ o.delay_approver_observers_pending = m
      BY <3>1 DEF IsCdo, Fields
    <3>3. Others(a, o, Aside)
      BY <3>1 DEF IsCdo, Others, Aside
    <3> QED BY <1>5, <3>2, <3>3
  <2>3. ObserverLocks(o)
    <3> HIDE DEF o
    <3> QED BY <2>2 DEF ObserverLocks
  <2> HIDE DEF n, m
  <2>4. Typed(o)
    BY <1>5, <2>1, TypedExcept2, FieldNames
  <2> QED BY <2>2, <2>3, <2>4
<1> HIDE DEF o, n, m
<1>7. Typed(p) /\ ObserverLocks(p) /\ Others(o, p, Aside)
  <2>1. k \in FieldType.plugins_pending /\ later \in FieldType.after_observers
    BY <1>3, FieldTypes
  <2> HIDE DEF k
  <2>2. Typed(p)
    BY <1>6, <2>1, TypedExcept2, FieldNames
  <2>3. /\ p.observing = o.observing /\ p.observers_pending = o.observers_pending
        /\ p.delay_approver_observers_pending = o.delay_approver_observers_pending
        /\ Others(o, p, Aside)
    <3>1. IsCdo(o)
      BY <1>6, TypedIsCdo
    <3>2. /\ p.observing = o.observing /\ p.observers_pending = o.observers_pending
          /\ p.delay_approver_observers_pending = o.delay_approver_observers_pending
      BY <3>1 DEF IsCdo, Fields
    <3>3. Others(o, p, Aside)
      BY <3>1 DEF IsCdo, Others, Aside
    <3> QED BY <3>2, <3>3
  <2> HIDE DEF p
  <2> QED BY <1>6, <2>2, <2>3 DEF ObserverLocks
<1> HIDE DEF p, k
<1>8. Moves(cdo, p)
  <2>1. Others(cdo, p, Aside)
    BY <1>5, <1>6, <1>7 DEF Others
  <2> QED BY <1>4, <1>7, <2>1, AsideMoves
<1>9. Moves(cdo, t)
  BY <1>8, TerminateChannelsMoves, MovesTrans, MovesSelf DEF Moves
<1> HIDE DEF t
<1>10. Moves(t, u)
  <2>1. Typed(t) /\ Ready(t) /\ ObserverLocks(t)
    BY <1>9 DEF Moves, Ready
  <2>2. Typed(u)
    BY <2>1, TypedFlag
  <2>3. /\ u.observing = t.observing /\ u.observers_pending = t.observers_pending
        /\ u.delay_approver_observers_pending = t.delay_approver_observers_pending
        /\ Others(t, u, Aside)
    BY <2>1, TypedIsCdo DEF IsCdo, Fields, Others, Aside
  <2> HIDE DEF u
  <2>4. ObserverLocks(u)
    BY <2>1, <2>3 DEF ObserverLocks
  <2> QED BY <2>1, <2>2, <2>3, <2>4, AsideMoves
<1> HIDE DEF u
<1>11. Moves(u, CheckFinished(u))
  BY <1>10, CheckFinishedMoves DEF Moves
<1>12. Moves(cdo, CheckFinished(u))
  BY <1>9, <1>10, <1>11, MovesTrans
<1> QED BY <1>1, <1>12, CheckedMoves

(* All the fields but the queue, the claims, the owner and the           *)
(* observers' locks.                                                     *)
Controls ==
  Fields \ {"approvals", "reply", "claims", "needs_approval", "handled_by",
            "observing", "observers_pending", "delay_approver_observers_pending"}

(* A step that writes only these has its types and the fate to keep.     *)
LEMMA ControlsMoves ==
  ASSUME NEW s, NEW t, Ready(s), Typed(t), Fate(t), Others(s, t, Controls)
  PROVE  Moves(s, t)
<1>1. t.approvals = s.approvals /\ t.reply = s.reply /\ t.claims = s.claims
      /\ t.needs_approval = s.needs_approval /\ t.handled_by = s.handled_by
      /\ t.observing = s.observing /\ t.observers_pending = s.observers_pending
      /\ t.delay_approver_observers_pending = s.delay_approver_observers_pending
  BY FieldNames DEF Others, Controls
<1>2. KeepsQueue(s, t)
  BY <1>1, SameKeeps DEF SameQueue, Ready
<1>3. ClaimsInv(t)
  BY <1>1 DEF Ready, ClaimsInv, Pending
<1>4. Owned(s, t) /\ ObserverLocks(t)
  BY <1>1 DEF Owned, Ready, ObserverLocks
<1> QED BY <1>2, <1>3, <1>4 DEF Moves, Ready, KeepsQueue

(* observe_channels_cb: an observer returns.                             *)
LEMMA ObserverReturnsMoves ==
  ASSUME Inv(cdo), registry \subseteq Handler, NEW o, ObserverReturns(o)
  PROVE  Moves(cdo, cdo') /\ Inv(cdo') /\ registry' = registry
<1> DEFINE d == ObserverLeft(cdo, o)
<1>1. o \in cdo.observing /\ registry' = registry
  BY DEF ObserverReturns
<1>2. cdo' = CheckClientLocks(CheckFinished(d))
  BY DEF ObserverReturns, DecObserversPending, ObserverLeft
<1>3. Ready(cdo) /\ Typed(cdo) /\ ObserverLocks(cdo)
  BY DEF Inv, Ready
<1>4. /\ Typed(d) /\ ObserverLocks(d)
      /\ Others(cdo, d, {"observing", "observers_pending", "delay_approver_observers_pending"})
  BY <1>1, <1>3, ObserverLeftFields
<1> HIDE DEF d
<1>5. Others(cdo, d, Aside)
  BY <1>4 DEF Others, Aside
<1>6. Moves(cdo, d)
  BY <1>3, <1>4, <1>5, AsideMoves
<1>7. Moves(cdo, CheckFinished(d))
  BY <1>6, CheckFinishedMoves, MovesTrans DEF Moves
<1> QED BY <1>1, <1>2, <1>7, CheckedMoves

(* An approval that joins the queue is a new entry.                      *)
LEMMA AppendEntries ==
  ASSUME NEW s, Typed(s), NEW a \in Approval, NEW t, t.approvals = Append(s.approvals, a)
  PROVE  Entries(t) = Entries(s) \cup {a}
<1> DEFINE q == s.approvals
           p == Append(q, a)
<1>1. q \in Seq(Approval)
  BY TypedFields
<1>2. /\ DOMAIN q = 1 .. Len(q) /\ Len(q) \in Nat
      /\ DOMAIN p = 1 .. Len(q) + 1
      /\ \A i \in 1 .. Len(q) : p[i] = q[i]
      /\ p[Len(q) + 1] = a
  BY <1>1
<1>3. DOMAIN p = DOMAIN q \cup {Len(q) + 1}
  BY <1>2
<1> HIDE DEF q, p
<1>4. {p[i] : i \in DOMAIN p} = {q[i] : i \in DOMAIN q} \cup {a}
  BY <1>2, <1>3
<1> QED BY <1>4 DEF Entries, q, p

(* An approval that may join the queue: an answer for it is due exactly  *)
(* if a call of the bus brought it, that no approver is left may be said *)
(* only when all have returned, and a request is not exported.           *)
Welcome(s, a) ==
  /\ a.type \in {"CLAIM", "NO_APPROVERS"} => a.client_bus_name = None
  /\ a.type \in {"CLAIM", "HANDLE_WITH"} <=> a.caller # None
  /\ s.result = "none" /\ a.type = "NO_APPROVERS" =>
       s.tried_handlers_before_approval /\ ~s.accepted_by_an_approver /\ s.adding = {}
  /\ s.result = "none" /\ ~s.needs_approval => a.type = "REQUESTED"

(* An approval that may join the queue keeps the fate.                   *)
LEMMA AppendFate ==
  ASSUME NEW s, Typed(s), Fate(s), NEW a \in Approval, Welcome(s, a),
         NEW t, t.approvals = Append(s.approvals, a),
         Others(s, t, {"approvals", "reply", "asked", "claims"})
  PROVE  Fate(t) /\ t.handled_by = s.handled_by
<1>1. /\ t.trying_handler = s.trying_handler /\ t.handling = s.handling
      /\ t.deciding = s.deciding /\ t.adding = s.adding /\ t.result = s.result
      /\ t.tried_handlers_before_approval = s.tried_handlers_before_approval
      /\ t.criticals = s.criticals /\ t.ado_pending = s.ado_pending
      /\ t.possible_handlers = s.possible_handlers
      /\ t.channel = s.channel /\ t.closing = s.closing /\ t.idle = s.idle
      /\ t.accepted_by_an_approver = s.accepted_by_an_approver
      /\ t.invoked_approvers_if_needed = s.invoked_approvers_if_needed
      /\ t.needs_approval = s.needs_approval /\ t.handled_by = s.handled_by
  BY DEF Others, Fields
<1>2. Entries(t) = Entries(s) \cup {a}
  BY AppendEntries
<1>3. IsInternal(t) = IsInternal(s)
  BY <1>1 DEF IsInternal
<1>4. Always(t)
  BY <1>1, <1>2, <1>3 DEF Fate, Always, Welcome
<1>5. Open(t)
  <2> SUFFICES ASSUME s.result = "none" PROVE Open(t)
    BY <1>1 DEF Open
  <2>1. PresentedToUser(t)
    <3>1. PresentedToUser(s)
      BY DEF Fate, Open
    <3>2. ASSUME t.trying_handler \notin BypassApproval \cup {None}, t.needs_approval
          PROVE  \E b \in Entries(t) :
                   \/ b.type \in {"HANDLE_WITH", "REQUESTED"}
                   \/ b.type = "NO_APPROVERS" /\ t.invoked_approvers_if_needed
      BY <1>1, <1>2, <3>1, <3>2 DEF PresentedToUser
    <3>3. ASSUME NEW b \in Entries(t), b.type = "NO_APPROVERS"
          PROVE  /\ t.tried_handlers_before_approval
                 /\ ~t.accepted_by_an_approver
                 /\ t.adding = {}
      BY <1>1, <1>2, <3>1, <3>3 DEF PresentedToUser, Welcome
    <3> QED BY <3>2, <3>3 DEF PresentedToUser
  <2>2. Requested(t)
    BY <1>1, <1>2 DEF Fate, Open, Requested, Welcome
  <2> QED BY <1>1, <1>3, <2>1, <2>2 DEF Fate, Open
<1>6. Settled(t) /\ Dropped(t)
  BY <1>1 DEF Fate, Settled, Dropped
<1> QED BY <1>1, <1>4, <1>5, <1>6 DEF Fate

(* One that no call brought keeps the queue.                             *)
LEMMA AppendKeeps ==
  ASSUME NEW s, Typed(s), QueueInv(s), NEW a \in Approval, a.caller = None,
         NEW t, t.approvals = Append(s.approvals, a), t.reply = s.reply, t.claims = s.claims
  PROVE  KeepsQueue(s, t)
<1> DEFINE q == s.approvals
           p == t.approvals
<1>1. q \in Seq(Approval)
  BY TypedFields
<1>2. /\ DOMAIN q = 1 .. Len(q) /\ Len(q) \in Nat
      /\ DOMAIN p = 1 .. Len(q) + 1
      /\ \A i \in 1 .. Len(q) : p[i] = q[i]
      /\ p[Len(q) + 1] = a
  BY <1>1
<1>3. DOMAIN p = DOMAIN q \cup {Len(q) + 1} /\ \A i \in DOMAIN q : p[i] = q[i]
  BY <1>2
<1>4. \A c : Pending(t, c) <=> Pending(s, c)
  BY DEF Pending
<1>5. \A c \in Caller : Queued(s, c) => Queued(t, c)
  BY <1>3 DEF Queued
<1>6. QueueInv(t)
  <2>1. \A i \in DOMAIN t.approvals : t.approvals[i].caller # None =>
          /\ t.reply[t.approvals[i].caller] = "waiting"
          /\ ~Pending(t, t.approvals[i].caller)
    BY <1>2, <1>3, <1>4 DEF QueueInv
  <2>2. \A i, j \in DOMAIN t.approvals :
          i # j /\ t.approvals[i].caller = t.approvals[j].caller => t.approvals[i].caller = None
    BY <1>2, <1>3 DEF QueueInv
  <2>3. \A c \in Caller : Pending(t, c) => t.reply[c] \in {"waiting", "error"}
    BY <1>4 DEF QueueInv
  <2>4. \A c \in Caller : t.reply[c] = "waiting" => Queued(t, c) \/ Pending(t, c)
    BY <1>4, <1>5 DEF QueueInv
  <2> QED BY <2>1, <2>2, <2>3, <2>4 DEF QueueInv
<1>7. Answered(s, t)
  BY DEF Answered
<1> QED BY <1>6, <1>7 DEF KeepsQueue

(* A call that is new joins the queue and waits.                         *)
LEMMA CallKeeps ==
  ASSUME NEW s, Typed(s), QueueInv(s), NEW a \in Approval, NEW c \in Caller, a.caller = c,
         NEW t, t.approvals = Append(s.approvals, a),
         \A d \in Caller : t.reply[d] = IF d = c THEN "waiting" ELSE s.reply[d],
         s.reply[c] \notin {"ok", "error"}, ~Queued(s, c), ~Pending(t, c),
         \A d \in Caller : d # c => (Pending(t, d) <=> Pending(s, d))
  PROVE  KeepsQueue(s, t)
<1> DEFINE q == s.approvals
           p == t.approvals
<1>1. q \in Seq(Approval)
  BY TypedFields
<1>2. /\ DOMAIN q = 1 .. Len(q) /\ Len(q) \in Nat
      /\ DOMAIN p = 1 .. Len(q) + 1
      /\ \A i \in 1 .. Len(q) : p[i] = q[i]
      /\ p[Len(q) + 1] = a
  BY <1>1
<1>3. DOMAIN p = DOMAIN q \cup {Len(q) + 1} /\ \A i \in DOMAIN q : p[i] = q[i]
  BY <1>2
<1>4. \A i \in DOMAIN q : q[i].caller # c /\ q[i].caller \in Caller \cup {None}
  <2>1. \A i \in DOMAIN q : q[i] \in Approval
    BY <1>1
  <2>2. \A b \in Approval : b.caller \in Caller \cup {None}
    BY DEF Approval
  <2> QED BY <2>1, <2>2 DEF Queued
<1>5. \A d \in Caller : Queued(s, d) => Queued(t, d)
  BY <1>3 DEF Queued
<1>6. Queued(t, c)
  BY <1>2, <1>3 DEF Queued
<1>7. QueueInv(t)
  <2>1. \A i \in DOMAIN t.approvals : t.approvals[i].caller # None =>
          /\ t.reply[t.approvals[i].caller] = "waiting"
          /\ ~Pending(t, t.approvals[i].caller)
    <3> SUFFICES ASSUME NEW i \in DOMAIN p, p[i].caller # None
                 PROVE  t.reply[p[i].caller] = "waiting" /\ ~Pending(t, p[i].caller)
      OBVIOUS
    <3>1. CASE i \in DOMAIN q
      <4>1. p[i].caller = q[i].caller /\ q[i].caller \in Caller /\ q[i].caller # c
        BY <1>3, <1>4, <3>1
      <4> QED BY <3>1, <4>1 DEF QueueInv
    <3>2. CASE i = Len(q) + 1
      BY <1>2, <3>2
    <3> QED BY <1>3, <3>1, <3>2
  <2>2. \A i, j \in DOMAIN t.approvals :
          i # j /\ t.approvals[i].caller = t.approvals[j].caller => t.approvals[i].caller = None
    BY <1>2, <1>3, <1>4 DEF QueueInv
  <2>3. \A d \in Caller : Pending(t, d) => t.reply[d] \in {"waiting", "error"}
    BY DEF QueueInv
  <2>4. \A d \in Caller : t.reply[d] = "waiting" => Queued(t, d) \/ Pending(t, d)
    BY <1>5, <1>6 DEF QueueInv
  <2> QED BY <2>1, <2>2, <2>3, <2>4 DEF QueueInv
<1>8. Answered(s, t)
  BY DEF Answered
<1> QED BY <1>7, <1>8 DEF KeepsQueue

(* The approvers' lock is released once.                                 *)
Released(k) == [k EXCEPT !.ado_pending = k.ado_pending - 1]

(* When the last approver has returned and none took the operation, the  *)
(* entry that says so joins the queue.                                   *)
LEMMA NoApproversMoves ==
  ASSUME NEW s, Ready(s), s.ado_pending = 0, ~s.accepted_by_an_approver,
         s.result = "none" => s.tried_handlers_before_approval /\ s.needs_approval
  PROVE  Moves(s, [s EXCEPT !.approvals = Append(s.approvals, NoApprovers)])
<1> DEFINE q == Append(s.approvals, NoApprovers)
           t == [s EXCEPT !.approvals = q]
<1>1. Typed(s) /\ Fate(s) /\ QueueInv(s)
  BY DEF Ready
<1>2. Typed(t)
  BY <1>1, TypedAppend, NoApproversType
<1> HIDE DEF q
<1>3. t.approvals = q /\ Others(s, t, {"approvals"})
  BY <1>1, TypedIsCdo DEF IsCdo, Fields, Others
<1> HIDE DEF t
<1>4. /\ t.reply = s.reply /\ t.claims = s.claims /\ t.observing = s.observing
      /\ t.observers_pending = s.observers_pending
      /\ t.delay_approver_observers_pending = s.delay_approver_observers_pending
      /\ t.needs_approval = s.needs_approval
  BY <1>3 DEF Others, Fields
<1>5. s.result = "none" => s.adding = {}
  <2> SUFFICES ASSUME s.result = "none" PROVE s.adding = {}
    OBVIOUS
  <2>1. Cardinality(s.adding) = 0
    BY <1>1 DEF Fate, Always, Open
  <2>2. IsFiniteSet(s.adding)
    BY <1>1, TypedFields, ClientsAssumption, FS_Subset
  <2> QED BY <2>1, <2>2, FS_EmptySet
<1>6. Welcome(s, NoApprovers) /\ NoApprovers.caller = None
  BY <1>5 DEF Welcome, NoApprovers
<1>7. Fate(t) /\ t.handled_by = s.handled_by
  BY <1>1, <1>3, <1>6, AppendFate, NoApproversType DEF q, Others
<1>8. KeepsQueue(s, t)
  BY <1>1, <1>3, <1>4, <1>6, AppendKeeps, NoApproversType DEF q
<1>9. Moves(s, t)
  BY <1>2, <1>4, <1>7, <1>8 DEF Moves, Ready, KeepsQueue, Owned, ObserverLocks, ClaimsInv, Pending
<1> QED BY <1>9 DEF t, q

(* _mcd_dispatch_operation_dec_ado_pending: the lock is released, or its *)
(* misuse reported, and the locks are checked.                           *)
LEMMA ApproverReleased ==
  ASSUME NEW s, NEW k, Typed(k), k.ado_pending # 0, Moves(s, Released(k)),
         k.result = "none" => k.tried_handlers_before_approval /\ k.needs_approval
  PROVE  \E g :
           /\ DecAdoPending(k) = CheckClientLocks(g) /\ Moves(s, g)
           /\ Others(CheckFinished(Released(k)), g, {"approvals"})
           /\ g.approvals \in {k.approvals, Append(k.approvals, NoApprovers)}
<1> DEFINE d == Released(k)
           f == CheckFinished(d)
           q == Append(f.approvals, NoApprovers)
           g == [f EXCEPT !.approvals = q]
<1>1. d = [k EXCEPT !.ado_pending = @ - 1]
  BY TypedIsCdo DEF Released, IsCdo, Fields
<1>2. /\ d.result = k.result /\ d.needs_approval = k.needs_approval
      /\ d.tried_handlers_before_approval = k.tried_handlers_before_approval
      /\ d.approvals = k.approvals
  BY TypedIsCdo DEF Released, IsCdo, Fields
<1>3. Moves(s, d) /\ Ready(d) /\ IsCdo(d)
  BY TypedIsCdo DEF Moves, Ready
<1> HIDE DEF d
<1>4. Wound(d, f) /\ Moves(d, f) /\ IsCdo(f)
  BY <1>3, WoundCheckFinished, CheckFinishedMoves, WoundFixed
<1>5. DecAdoPending(k) = CheckClientLocks(
         IF f.ado_pending = 0 /\ ~f.accepted_by_an_approver THEN g ELSE f)
  <2>1. g = [f EXCEPT !.approvals = Append(@, NoApprovers)]
    <3> HIDE DEF f
    <3> QED BY <1>4 DEF IsCdo, Fields
  <2> HIDE DEF g
  <2> QED BY <1>1, <2>1 DEF DecAdoPending
<1>6. q = Append(k.approvals, NoApprovers) /\ f.approvals = k.approvals
  BY <1>2, <1>4 DEF Wound
<1> HIDE DEF f
<1>7. f.result = "none" => f.tried_handlers_before_approval /\ f.needs_approval
  BY <1>2, <1>4 DEF Wound, Fixed
<1>8. Ready(f) /\ Moves(s, f)
  BY <1>3, <1>4, MovesTrans DEF Moves
<1>9. f.ado_pending = 0 /\ ~f.accepted_by_an_approver => Moves(s, g)
  BY <1>7, <1>8, NoApproversMoves, MovesTrans
<1>10. g.approvals = q /\ Others(f, g, {"approvals"})
  <2> HIDE DEF q
  <2> QED BY <1>4 DEF IsCdo, Fields, Others
<1>11. Others(f, f, {"approvals"})
  BY DEF Others
<1> HIDE DEF g, q
<1>12. CASE f.ado_pending = 0 /\ ~f.accepted_by_an_approver
  BY <1>5, <1>6, <1>9, <1>10, <1>12 DEF f, d
<1>13. CASE ~(f.ado_pending = 0 /\ ~f.accepted_by_an_approver)
  BY <1>5, <1>6, <1>8, <1>11, <1>13 DEF f, d
<1> QED BY <1>12, <1>13

(* Either it was not taken, which is reported, or the locks are checked. *)
LEMMA DecAdoPendingMoves ==
  ASSUME registry \subseteq Handler, NEW s, NEW k, Typed(k),
         k.ado_pending = 0 =>
           Moves(s, Report(k, "dec_ado_pending")) /\ k.result # "none",
         k.ado_pending # 0 =>
           /\ Moves(s, Released(k))
           /\ k.result = "none" => k.tried_handlers_before_approval /\ k.needs_approval
  PROVE  Moves(s, DecAdoPending(k)) /\ Inv(DecAdoPending(k))
<1> DEFINE r == Report(k, "dec_ado_pending")
<1>1. CASE k.ado_pending = 0
  <2>1. DecAdoPending(k) = r
    BY <1>1 DEF DecAdoPending
  <2>2. r.result = k.result
    BY TypedIsCdo DEF Report, IsCdo, Fields
  <2>3. Moves(s, r) /\ r.result # "none"
    BY <1>1, <2>2
  <2> HIDE DEF r
  <2> QED BY <2>1, <2>3 DEF Inv, Moves, Awake
<1>2. CASE k.ado_pending # 0
  <2>1. PICK g : DecAdoPending(k) = CheckClientLocks(g) /\ Moves(s, g)
    BY <1>2, ApproverReleased
  <2> QED BY <2>1, CheckedMoves
<1> QED BY <1>1, <1>2

(* Approvers asked and counted keep the fate.                            *)
LEMMA AskedFate ==
  ASSUME NEW s, Typed(s), Fate(s), s.tried_handlers_before_approval, ~s.idle,
         s.needs_approval, s.approvals = <<>>,
         NEW t, Others(s, t, {"ado_pending", "adding", "criticals"}),
         s.result = "none" => t.criticals = s.criticals /\ t.ado_pending = Cardinality(t.adding),
         s.result # "none" => "inc_ado_pending" \in t.criticals
  PROVE  Fate(t)
<1>1. /\ t.trying_handler = s.trying_handler /\ t.handling = s.handling
      /\ t.deciding = s.deciding /\ t.result = s.result
      /\ t.tried_handlers_before_approval = s.tried_handlers_before_approval
      /\ t.possible_handlers = s.possible_handlers /\ t.approvals = s.approvals
      /\ t.channel = s.channel /\ t.closing = s.closing /\ t.idle = s.idle
      /\ t.accepted_by_an_approver = s.accepted_by_an_approver
      /\ t.invoked_approvers_if_needed = s.invoked_approvers_if_needed
      /\ t.needs_approval = s.needs_approval /\ t.handled_by = s.handled_by
  BY DEF Others, Fields
<1>2. Entries(t) = {} /\ Entries(s) = {}
  BY <1>1, NoEntries
<1>3. IsInternal(t) = IsInternal(s)
  BY <1>1 DEF IsInternal
<1>4. s.result # "none" => t.criticals \cap Misuse # {}
  BY DEF Misuse
<1>5. Always(t)
  BY <1>1, <1>2, <1>3, <1>4 DEF Fate, Always
<1>6. Open(t)
  BY <1>1, <1>2, <1>3 DEF Fate, Open, PresentedToUser, Requested
<1>7. Settled(t) /\ Dropped(t)
  BY <1>1 DEF Fate, Settled, Dropped
<1> QED BY <1>5, <1>6, <1>7 DEF Fate

(* _mcd_dispatch_operation_inc_ado_pending: the lock is taken, unless    *)
(* the operation is over, which is reported.                             *)
LEMMA IncAdoPendingFields ==
  ASSUME NEW s, Typed(s), NEW n \in Nat
  PROVE  LET t == IncAdoPending(s, n)
         IN /\ Typed(t)
            /\ Others(s, t, {"ado_pending", "criticals"})
            /\ s.result = "none" =>
                 t.ado_pending = s.ado_pending + n /\ t.criticals = s.criticals
            /\ s.result # "none" =>
                 /\ n # 0 => "inc_ado_pending" \in t.criticals
                 /\ s.criticals \subseteq t.criticals
<1> DEFINE m == s.ado_pending + n
           v == s.criticals \cup {"inc_ado_pending"}
           a == [s EXCEPT !.ado_pending = m]
           b == [s EXCEPT !.criticals = v]
           t == IncAdoPending(s, n)
<1>1. t = IF n = 0 THEN s ELSE IF s.result # "none" THEN b ELSE a
  BY TypedIsCdo DEF IncAdoPending, Report, IsCdo, Fields
<1>2. n = 0 => m = s.ado_pending
  BY TypedFields
<1>3. Typed(t)
  BY TypedIncAdoPending
<1> HIDE DEF m
<1>4. Others(s, a, {"ado_pending", "criticals"}) /\ a.ado_pending = m /\ a.criticals = s.criticals
  BY TypedIsCdo DEF IsCdo, Fields, Others
<1>5. "inc_ado_pending" \in v /\ s.criticals \subseteq v
  OBVIOUS
<1> HIDE DEF v
<1>6. Others(s, b, {"ado_pending", "criticals"}) /\ b.criticals = v
  BY TypedIsCdo DEF IsCdo, Fields, Others
<1>7. Others(s, s, {"ado_pending", "criticals"})
  BY DEF Others
<1> HIDE DEF t, a, b
<1>8. CASE n = 0
  BY <1>1, <1>2, <1>3, <1>7, <1>8 DEF m, t
<1>9. CASE n # 0
  BY <1>1, <1>3, <1>4, <1>5, <1>6, <1>9 DEF m, t
<1> QED BY <1>8, <1>9

(* _mcd_dispatch_operation_run_approvers, with its own lock taken and    *)
(* released around the calls.                                            *)
LEMMA ApproversCalled ==
  ASSUME NEW approvers \in SUBSET Approver,
         NEW s, Ready(s), s.tried_handlers_before_approval, ~s.idle, s.adding = {},
         s.needs_approval, s.approvals = <<>>
  PROVE  \E k :
           /\ RunApprovers(s, approvers) = DecAdoPending(k)
           /\ Typed(k) /\ Others(s, k, {"ado_pending", "adding", "criticals"})
           /\ k.ado_pending = 0 =>
                Moves(s, Report(k, "dec_ado_pending")) /\ k.result # "none"
           /\ k.ado_pending # 0 =>
                /\ Moves(s, Released(k))
                /\ k.result = "none" => k.tried_handlers_before_approval /\ k.needs_approval
<1> DEFINE called == IF s.channel THEN approvers ELSE {}
           n == Cardinality(called)
           i == IncAdoPending(s, 1)
           j == IncAdoPending(i, n)
           v == j.adding \cup called
           k == [j EXCEPT !.adding = v]
           d == Released(k)
           r == Report(k, "dec_ado_pending")
<1>1. called \in SUBSET Approver
  OBVIOUS
<1>2. Typed(s) /\ Fate(s)
  BY DEF Ready
<1> HIDE DEF called
<1>3. n \in Nat
  BY <1>1, ClientsAssumption, SubsetCardinality
<1>4. /\ Typed(i) /\ Others(s, i, {"ado_pending", "criticals"})
      /\ s.result = "none" => i.ado_pending = s.ado_pending + 1 /\ i.criticals = s.criticals
      /\ s.result # "none" => "inc_ado_pending" \in i.criticals
  BY <1>2, IncAdoPendingFields
<1> HIDE DEF i
<1>5. /\ Typed(j) /\ Others(i, j, {"ado_pending", "criticals"})
      /\ i.result = "none" => j.ado_pending = i.ado_pending + n /\ j.criticals = i.criticals
      /\ i.result # "none" => i.criticals \subseteq j.criticals
  BY <1>3, <1>4, IncAdoPendingFields
<1>6. RunApprovers(s, approvers) = DecAdoPending(k)
  <2>1. RunApprovers(s, approvers) = DecAdoPending([j EXCEPT !.adding = @ \cup called])
    BY DEF RunApprovers, i, called
  <2> HIDE DEF j
  <2>2. k = [j EXCEPT !.adding = @ \cup called]
    BY <1>5, TypedIsCdo DEF IsCdo, Fields
  <2> HIDE DEF k
  <2> QED BY <2>1, <2>2
<1> HIDE DEF j
<1>7. i.result = s.result /\ j.adding = s.adding /\ Others(s, j, {"ado_pending", "criticals"})
  BY <1>4, <1>5 DEF Others, Fields
<1>8. v = called /\ v \in FieldType.adding
  BY <1>1, <1>7, FieldTypes
<1> HIDE DEF v
<1>9. Typed(k)
  BY <1>5, <1>8, TypedExcept, FieldNames
<1>10. /\ k.adding = called /\ Others(j, k, {"adding"})
       /\ k.ado_pending = j.ado_pending /\ k.criticals = j.criticals
  <2>1. IsCdo(j)
    BY <1>5, TypedIsCdo
  <2>2. k.adding = v /\ k.ado_pending = j.ado_pending /\ k.criticals = j.criticals
    BY <2>1 DEF IsCdo, Fields
  <2>3. Others(j, k, {"adding"})
    BY <2>1 DEF IsCdo, Others
  <2> QED BY <1>8, <2>2, <2>3
<1> HIDE DEF k
<1>11. Others(s, k, {"ado_pending", "adding", "criticals"})
  BY <1>7, <1>10 DEF Others
<1>12. /\ k.result = s.result /\ k.needs_approval = s.needs_approval
       /\ k.tried_handlers_before_approval = s.tried_handlers_before_approval
  BY <1>11 DEF Others, Fields
<1>13. s.result # "none" => "inc_ado_pending" \in k.criticals
  BY <1>4, <1>5, <1>7, <1>10
<1>14. s.result = "none" => k.ado_pending = n + 1 /\ k.criticals = s.criticals
  <2> SUFFICES ASSUME s.result = "none" PROVE k.ado_pending = n + 1 /\ k.criticals = s.criticals
    OBVIOUS
  <2>1. s.ado_pending = 0
    <3>1. s.ado_pending = Cardinality(s.adding)
      BY <1>2 DEF Fate, Always, Open
    <3> QED BY <3>1, FS_EmptySet
  <2> QED BY <1>3, <1>4, <1>5, <1>7, <1>10, <2>1
<1>15. ASSUME k.ado_pending = 0 PROVE Moves(s, r) /\ k.result # "none"
  <2>1. s.result # "none" /\ k.result # "none"
    BY <1>3, <1>12, <1>14, <1>15
  <2>2. Typed(r)
    BY <1>9, TypedReport DEF Critical
  <2>3. Others(k, r, {"criticals"}) /\ k.criticals \subseteq r.criticals
    <3> DEFINE w == k.criticals \cup {"dec_ado_pending"}
               x == [k EXCEPT !.criticals = w]
    <3>1. r = x
      BY <1>9, TypedIsCdo DEF Report, IsCdo, Fields
    <3>2. k.criticals \subseteq w
      OBVIOUS
    <3> HIDE DEF w
    <3>3. Others(k, x, {"criticals"}) /\ x.criticals = w
      BY <1>9, TypedIsCdo DEF IsCdo, Fields, Others
    <3> HIDE DEF x, r
    <3> QED BY <3>1, <3>2, <3>3
  <2> HIDE DEF r
  <2>4. Others(s, r, {"ado_pending", "adding", "criticals"})
    BY <1>11, <2>3 DEF Others
  <2>5. Fate(r)
    BY <1>2, <1>13, <2>1, <2>3, <2>4, AskedFate
  <2>6. Others(s, r, Controls)
    BY <2>4 DEF Others, Controls, Fields
  <2> QED BY <2>1, <2>2, <2>5, <2>6, ControlsMoves
<1>16. ASSUME k.ado_pending # 0 PROVE Moves(s, d)
  <2> DEFINE m == k.ado_pending - 1
             x == [k EXCEPT !.ado_pending = m]
  <2>1. d = x
    BY DEF Released
  <2>2. m \in FieldType.ado_pending
    BY <1>9, <1>16, TypedFields, FieldTypes
  <2>3. s.result = "none" => m = n
    BY <1>3, <1>14
  <2> HIDE DEF m
  <2>4. Typed(x)
    BY <1>9, <2>2, TypedExcept, FieldNames
  <2>5. Others(k, x, {"ado_pending"}) /\ x.ado_pending = m
    BY <1>9, TypedIsCdo DEF IsCdo, Fields, Others
  <2> HIDE DEF x
  <2>6. x.criticals = k.criticals /\ x.adding = k.adding
    BY <2>5 DEF Others, Fields
  <2>7. Others(s, x, {"ado_pending", "adding", "criticals"})
    BY <1>11, <2>5 DEF Others
  <2>8. Fate(x)
    BY <1>2, <1>10, <1>13, <1>14, <2>3, <2>5, <2>6, <2>7, AskedFate
  <2>9. Others(s, x, Controls)
    BY <2>7 DEF Others, Controls, Fields
  <2> QED BY <2>1, <2>4, <2>8, <2>9, ControlsMoves
<1> HIDE DEF d, r
<1>17. /\ k.ado_pending = 0 => Moves(s, Report(k, "dec_ado_pending")) /\ k.result # "none"
       /\ k.ado_pending # 0 => Moves(s, Released(k))
  BY <1>15, <1>16 DEF d, r
<1> QED BY <1>6, <1>9, <1>11, <1>12, <1>17

LEMMA RunApproversMoves ==
  ASSUME registry \subseteq Handler, NEW approvers \in SUBSET Approver,
         NEW s, Ready(s), s.tried_handlers_before_approval, ~s.idle, s.adding = {},
         s.needs_approval, s.approvals = <<>>
  PROVE  Moves(s, RunApprovers(s, approvers))
<1> DEFINE t == RunApprovers(s, approvers)
<1>1. PICK k : /\ t = DecAdoPending(k)
               /\ Typed(k)
               /\ k.ado_pending = 0 =>
                    Moves(s, Report(k, "dec_ado_pending")) /\ k.result # "none"
               /\ k.ado_pending # 0 =>
                    /\ Moves(s, Released(k))
                    /\ k.result = "none" => k.tried_handlers_before_approval /\ k.needs_approval
  BY ApproversCalled
<1> HIDE DEF t
<1>2. Moves(s, DecAdoPending(k))
  BY <1>1, DecAdoPendingMoves
<1> QED BY <1>1, <1>2 DEF t

===========================================================================
