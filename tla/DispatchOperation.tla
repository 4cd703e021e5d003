------------------------- MODULE DispatchOperation -------------------------
(***************************************************************************)
(* One channel dispatch operation (CDO): the McdDispatchOperation object,  *)
(* the McdChannel it dispatches, the D-Bus calls it makes to Observers,    *)
(* Approvers and Handlers, and the HandleWith and Claim calls it receives. *)
(*                                                                         *)
(* Mission Control is single-threaded: every action below is one callback  *)
(* run to completion by the main loop, with everything it calls.  What     *)
(* interleaves is the order in which replies, incoming calls, signals,     *)
(* plugin callbacks and the idle source are dispatched.                    *)
(*                                                                         *)
(* The object is the record cdo.  A C function f(self) that changes it is  *)
(* an operator F(s) giving the record after the call, so an action is the  *)
(* composition of the functions its callback runs.  The functions call     *)
(* each other recursively through the Finished and abort signals; once     *)
(* "result" is set the inner calls do much less, and the operators named   *)
(* ...Finished(s) are those inner calls.                                   *)
(*                                                                         *)
(* A definition named Mut... is a plausible bug in the definition after    *)
(* it; nothing uses it, the README says which property each one breaks.    *)
(***************************************************************************)
EXTENDS Naturals, Sequences, FiniteSets

CONSTANTS
  Handler,          \* well-known names of Handler clients
  Observer,         \* Observer clients
  Approver,         \* Approver clients
  Plugin,           \* McpDispatchOperationPolicy plugins
  HandleWithCaller, \* D-Bus callers of HandleWith or HandleWithTime, once each
  ClaimCaller,      \* D-Bus callers of Claim, once each
  BypassApproval,   \* handlers with BypassApproval = TRUE
  BypassObservers,  \* handlers with BypassObservers = TRUE
  DelayApprovers,   \* observers with DelayApprovers = TRUE
  HandlerLists,     \* the possible-handlers lists the dispatcher may compute
  MaxRequests,      \* bound: channel requests satisfied by the same channel
  None,             \* NULL, for handlers and callers
  Internal,         \* CDO_INTERNAL_HANDLER, Mission Control itself
  BadName           \* a HandleWith argument that is not a client bus name

Caller == HandleWithCaller \cup ClaimCaller

ASSUME ClientsAssumption ==
  /\ BypassApproval \subseteq Handler
  /\ BypassObservers \subseteq Handler
  /\ DelayApprovers \subseteq Observer
  /\ IsFiniteSet(Observer) /\ IsFiniteSet(Approver) /\ IsFiniteSet(Plugin)
  /\ MaxRequests \in Nat

ASSUME NamesAssumption ==
  /\ None \notin Handler \cup Caller \cup {Internal, BadName}
  /\ Internal \notin Handler \cup Caller \cup {BadName}
  /\ BadName \notin Handler \cup Caller
  /\ Handler \cap Caller = {}
  /\ HandleWithCaller \cap ClaimCaller = {}

(* The handlers of a list are sorted best first, and handlers that bypass  *)
(* approval are better than the others.                                    *)
ASSUME HandlerListsAssumption ==
  \A l \in HandlerLists :
    /\ l \in Seq(Handler) /\ l # <<>>
    /\ \A i, j \in 1 .. Len(l) :
         i < j /\ l[j] \in BypassApproval => l[i] \in BypassApproval

VARIABLES
  cdo,        \* the dispatch operation, its channel and its D-Bus traffic
  registry    \* handlers the client registry knows at the moment

vars == <<cdo, registry>>

-----------------------------------------------------------------------------
(* Values                                                                  *)

ApprovalType == {"REQUESTED", "HANDLE_WITH", "CLAIM", "NO_APPROVERS"}

Approval == [type : ApprovalType,
             client_bus_name : Handler \cup {None},
             caller : Caller \cup {None}]

PluginAction == {"NONE", "CLOSE", "LEAVE", "DESTROY"}

Severity == [NONE |-> 0, CLOSE |-> 1, LEAVE |-> 2, DESTROY |-> 3]

Result == {"none", "NotYours", "Lost", "Failed"}

ChannelStatus ==
  {"UNDISPATCHED", "DISPATCHING", "HANDLER_INVOKED", "DISPATCHED",
   "FAILED", "ABORTED"}

ChannelError == {"none", "CANCELLED", "OTHER"}

(* The g_return_if_fail, g_assert and NULL dereferences that the code      *)
(* would report, recorded instead of being assumed away.                   *)
Critical == {"inc_ado_pending", "dec_ado_pending", "handle_channels",
             "lose_channel"}

CdoType ==
  [ \* McdDispatchOperationPrivate
    needs_approval : BOOLEAN, observe_only : BOOLEAN,
    possible_handlers : Seq(Handler \cup {Internal}),
    failed_handlers : SUBSET Handler,
    result : Result,
    approvals : Seq(Approval),
    successful_handler : Handler \cup {None},
    channel : BOOLEAN, lost_channel : BOOLEAN,
    accepted_by_an_approver : BOOLEAN,
    invoked_observers_if_needed : BOOLEAN,
    invoked_approvers_if_needed : BOOLEAN,
    observers_pending : Nat,
    delay_approver_observers_pending : Nat,
    ado_pending : Nat,
    handler_unsuitable : BOOLEAN,
    cancelled : BOOLEAN,
    trying_handler : Handler \cup {None},
    tried_handlers_before_approval : BOOLEAN,
    plugins_pending : Nat,
    did_post_observer_actions : BOOLEAN,
    after_observers : PluginAction,
    \* the McdChannel
    status : ChannelStatus, error : ChannelError,
    invalidated : BOOLEAN, closing : BOOLEAN,
    handled_by : Handler \cup Caller \cup {None, Internal},
    \* calls in flight, sources attached to the main loop
    observing : SUBSET Observer, adding : SUBSET Approver,
    handling : Handler \cup {None}, deciding : SUBSET Plugin,
    claims : [ClaimCaller -> SUBSET Plugin], idle : BOOLEAN, leaked : BOOLEAN,
    \* what the outside has seen
    asked : [HandleWithCaller -> Handler \cup {None, BadName}],
    reply : [Caller -> {"uncalled", "waiting", "ok", "error"}],
    signals : Seq({"ChannelLost", "Finished"}),
    criticals : SUBSET Critical ]

-----------------------------------------------------------------------------
(* Predicates of the code                                                  *)

MutIgnoreApproverLock(s) == s.invoked_observers_if_needed /\ s.observers_pending = 0

MaySignalFinished(s) ==
  /\ s.invoked_observers_if_needed
  /\ s.observers_pending = 0
  /\ s.ado_pending = 0

IsInternal(s) == s.possible_handlers = <<Internal>>

IsApproved(s) == ~s.needs_approval \/ s.approvals # <<>>

WillTerminate(s) == s.after_observers # "NONE"

HasError(s) == s.error # "none" \/ s.invalidated

(* The positions of the possible handlers that are still registered; the   *)
(* best of them decides whether approval and observers are bypassed, even  *)
(* when it has failed already.                                             *)
Existing(s) == {i \in DOMAIN s.possible_handlers : s.possible_handlers[i] \in registry}

Best(s, I) == s.possible_handlers[CHOOSE i \in I : \A j \in I : i <= j]

MutNobodyBypasses(s) == IsInternal(s) \/ s.possible_handlers = <<>>

CanBypassApproval(s) ==
  \/ IsInternal(s)
  \/ s.possible_handlers = <<>>
  \/ Existing(s) # {} /\ Best(s, Existing(s)) \in BypassApproval

CanBypassObservers(s) ==
  Existing(s) # {} /\ Best(s, Existing(s)) \in BypassObservers

(* The object is finalized, and leaves D-Bus, with its last reference.  It *)
(* is referenced by the dispatcher's operations list until Finished, and   *)
(* by every call, source, delay and claim in flight.                       *)
Alive(s) ==
  \/ s.needs_approval /\ \A i \in DOMAIN s.signals : s.signals[i] # "Finished"
  \/ s.observing # {} \/ s.adding # {} \/ s.deciding # {}
  \/ s.handling # None
  \/ \E c \in ClaimCaller : s.claims[c] # {}
  \/ s.plugins_pending > 0 \/ s.idle \/ s.leaked

(* lose_channel dereferences the channel's error, which may be NULL.       *)
Crashed == "lose_channel" \in cdo.criticals

-----------------------------------------------------------------------------
(* The McdChannel                                                          *)

Report(s, critical) == [s EXCEPT !.criticals = @ \cup {critical}]

Emit(s, signal) == [s EXCEPT !.signals = Append(@, signal)]

(* mcd_channel_abort, up to the emission of "abort"                        *)
AbortChannel(s) ==
  [s EXCEPT !.status = "ABORTED",
            !.error = IF s.status \in {"DISPATCHING", "HANDLER_INVOKED"}
                      THEN "OTHER" ELSE @]

(* mcd_channel_take_error; FAILED is only left for ABORTED                 *)
TakeError(s, e) ==
  [s EXCEPT !.error = e,
            !.status = "FAILED"]

(* mcd_dispatch_operation_set_channel_handled_by                           *)
SetChannelHandledBy(s, who) ==
  [s EXCEPT !.handled_by = who,
            !.status = IF @ = "FAILED" THEN @ ELSE "DISPATCHED"]

-----------------------------------------------------------------------------
(* Losing the channel and finishing                                        *)

(* The approver event of check_client_locks                                *)
ScheduleApprovers(s) ==
  IF /\ ~s.tried_handlers_before_approval
     /\ ~CanBypassApproval(s)
     /\ s.delay_approver_observers_pending = 0
     /\ s.channel
     /\ ~WillTerminate(s)
  THEN [s EXCEPT !.tried_handlers_before_approval = TRUE, !.idle = TRUE]
  ELSE s

(* channel_aborted_cb and lose_channel, without the finish that ends them  *)
DropChannel(s) ==
  LET b == AbortChannel(s)
      a == [b EXCEPT !.channel = FALSE,
                     !.cancelled = @ \/ b.error = "CANCELLED"]
  IN CASE ~HasError(a) -> Report(a, "lose_channel")
       [] HasError(a) /\ ~MaySignalFinished(a) -> [a EXCEPT !.lost_channel = TRUE]
       [] OTHER -> Emit(a, "ChannelLost")

PostObserverActionsFinished(s) ==
  IF s.observers_pending = 0 /\ ~s.did_post_observer_actions
  THEN [(IF WillTerminate(s) /\ s.channel
         THEN DropChannel([s EXCEPT !.closing = TRUE]) ELSE s)
          EXCEPT !.did_post_observer_actions = TRUE]
  ELSE s

(* check_client_locks when result is set                                   *)
CheckClientLocksFinished(s) ==
  IF ~s.invoked_observers_if_needed \/ s.plugins_pending > 0
  THEN s
  ELSE ScheduleApprovers(PostObserverActionsFinished(s))

ActuallyFinish(s) == CheckClientLocksFinished(Emit(s, "Finished"))

(* The answer finish gives to each queued HandleWith and Claim             *)
MutAnyHandlerWillDo(s, a) ==
  IF a.type = "HANDLE_WITH" /\ s.successful_handler # None THEN "ok" ELSE "error"

FinalReply(s, a) ==
  IF /\ a.type = "HANDLE_WITH"
     /\ s.successful_handler # None
     /\ a.client_bus_name \in {None, s.successful_handler}
  THEN "ok" ELSE "error"

QueuedCalls(s) == {a \in {s.approvals[i] : i \in DOMAIN s.approvals} : a.caller # None}

ReplyToQueue(s) ==
  [s EXCEPT
    !.approvals = <<>>,
    !.reply = [c \in Caller |->
      IF \E a \in QueuedCalls(s) : a.caller = c
      THEN FinalReply(s, CHOOSE a \in QueuedCalls(s) : a.caller = c)
      ELSE s.reply[c]]]

Finish(s, result) ==
  IF s.result # "none" THEN s
  ELSE LET f == ReplyToQueue([s EXCEPT !.result = result])
       IN IF MaySignalFinished(f) THEN ActuallyFinish(f) ELSE f

LoseChannel(s) == Finish(DropChannel(s), "Lost")

(* forget_channels, and with a D-Bus call leave_, close_, destroy_channels *)
TerminateChannels(s) ==
  IF s.channel THEN LoseChannel([s EXCEPT !.closing = TRUE]) ELSE s

CheckFinished(s) ==
  IF ~MaySignalFinished(s) THEN s
  ELSE LET l == IF s.lost_channel
                THEN Emit([s EXCEPT !.lost_channel = FALSE], "ChannelLost")
                ELSE s
       IN IF l.result # "none" THEN ActuallyFinish(l) ELSE l

CloseAsUndispatchable(s) ==
  LET f == Finish(s, "Failed")
  IN IF f.channel THEN [TakeError(f, "OTHER") EXCEPT !.closing = TRUE] ELSE f

-----------------------------------------------------------------------------
(* Choosing and trying a handler                                           *)

Head0(s) == s.approvals[1]

HeadIs(s, type) == s.approvals # <<>> /\ Head0(s).type = type

PreferredHandler(s) ==
  IF s.approvals = <<>> THEN None ELSE Head0(s).client_bus_name

(* HandleWith insists on its handler even when that has failed before, for *)
(* a request the preferred handler is advisory.                            *)
PreferredIsUsable(s) ==
  /\ PreferredHandler(s) \in registry
  /\ HeadIs(s, "HANDLE_WITH") \/ PreferredHandler(s) \notin s.failed_handlers

HandleWithIsGone(s) ==
  /\ HeadIs(s, "HANDLE_WITH")
  /\ PreferredHandler(s) # None
  /\ PreferredHandler(s) \notin registry

MutNoApprovalNeeded(s) ==
  {i \in Existing(s) : s.possible_handlers[i] \notin s.failed_handlers}

Candidates(s) ==
  {i \in Existing(s) :
     /\ s.possible_handlers[i] \notin s.failed_handlers
     /\ IsApproved(s) \/ s.possible_handlers[i] \in BypassApproval}

MutRejectSilently(s) == [s EXCEPT !.approvals = Tail(@)]

RejectHead(s) ==
  [s EXCEPT !.approvals = Tail(@), !.reply[Head0(s).caller] = "error"]

(* mcd_dispatch_operation_handle_channels, once no plugin objects.  With   *)
(* no channel _mcd_client_proxy_handle_channels returns at once: nobody    *)
(* will ever call back, and the reference passed to it is never dropped.   *)
HandleChannels(s) ==
  IF s.channel
  THEN [s EXCEPT !.handling = s.trying_handler, !.status = "HANDLER_INVOKED"]
  ELSE [Report(s, "handle_channels") EXCEPT !.leaked = TRUE]

TryHandler(s, h) ==
  LET t == [s EXCEPT !.trying_handler = h]
  IN IF Plugin = {} THEN HandleChannels(t) ELSE [t EXCEPT !.deciding = Plugin]

(* try_next_handler, with what its caller does when it returns FALSE       *)
TryNextHandler(s, ranOut) ==
  CASE PreferredIsUsable(s)  -> TryHandler(s, PreferredHandler(s))
    [] HandleWithIsGone(s)   -> RejectHead(s)
    [] ~PreferredIsUsable(s) /\ ~HandleWithIsGone(s) /\ Candidates(s) # {} ->
         TryHandler(s, Best(s, Candidates(s)))
    [] OTHER -> ranOut

-----------------------------------------------------------------------------
(* check_client_locks                                                      *)

PostObserverActions(s) ==
  IF s.observers_pending = 0 /\ ~s.did_post_observer_actions
  THEN [(IF WillTerminate(s) THEN TerminateChannels(s) ELSE s)
          EXCEPT !.did_post_observer_actions = TRUE]
  ELSE s

MutHandlerIsNoLock(s) ==
  s.observers_pending > 0 \/ s.ado_pending > 0 \/ s.result # "none" \/ s.observe_only

Locked(s) ==
  \/ s.observers_pending > 0
  \/ s.ado_pending > 0
  \/ s.trying_handler # None
  \/ s.result # "none"
  \/ s.observe_only

MutApproversStayScheduled(s, fresh) ==
  LET caller == Head0(s).caller
      p == [s EXCEPT !.approvals = Tail(@), !.reply[caller] = "ok"]
  IN Finish(IF p.channel THEN SetChannelHandledBy(p, caller) ELSE p, "NotYours")

AcceptClaim(s, fresh) ==
  LET caller == Head0(s).caller
      p == [s EXCEPT !.approvals = Tail(@), !.reply[caller] = "ok"]
      h == IF p.channel THEN SetChannelHandledBy(p, caller) ELSE p
  IN [Finish(h, "NotYours") EXCEPT !.idle = @ /\ ~fresh]

(* fresh: the approvers' idle source was attached by this very call, which *)
(* still holds its identifier and can cancel it                            *)
Proceed(s, fresh) ==
  CASE IsInternal(s) ->
         IF s.channel THEN [s EXCEPT !.handled_by = Internal] ELSE s
    [] ~IsInternal(s) /\ s.possible_handlers = <<>> -> CloseAsUndispatchable(s)
    [] ~IsInternal(s) /\ s.possible_handlers # <<>> /\ HeadIs(s, "CLAIM") ->
         AcceptClaim(s, fresh)
    [] OTHER ->
         LET t == IF HeadIs(s, "HANDLE_WITH")
                  THEN [s EXCEPT !.invoked_approvers_if_needed = TRUE,
                                 !.idle = @ /\ ~fresh]
                  ELSE s
         IN CASE t.invoked_approvers_if_needed /\ IsApproved(t) ->
                   TryNextHandler(t, CloseAsUndispatchable(t))
              [] ~t.invoked_approvers_if_needed /\ ~t.tried_handlers_before_approval ->
                   TryNextHandler(t, [t EXCEPT !.tried_handlers_before_approval = TRUE,
                                               !.idle = TRUE])
              [] OTHER -> t

CheckClientLocks(s) ==
  IF ~s.invoked_observers_if_needed \/ s.plugins_pending > 0
  THEN s
  ELSE LET a == PostObserverActions(s)
           b == ScheduleApprovers(a)
       IN IF Locked(b) THEN b ELSE Proceed(b, b.idle /\ ~a.idle)

-----------------------------------------------------------------------------
(* The client locks                                                        *)

MutOnlyCheckFinished(s, o) ==
  CheckFinished(
    [s EXCEPT !.observers_pending = @ - 1,
              !.delay_approver_observers_pending =
                 IF o \in DelayApprovers THEN @ - 1 ELSE @])

DecObserversPending(s, o) ==
  CheckClientLocks(CheckFinished(
    [s EXCEPT !.observers_pending = @ - 1,
              !.delay_approver_observers_pending =
                 IF o \in DelayApprovers THEN @ - 1 ELSE @]))

IncAdoPending(s, n) ==
  CASE n = 0 -> s
    [] n # 0 /\ s.result # "none" -> Report(s, "inc_ado_pending")
    [] OTHER -> [s EXCEPT !.ado_pending = @ + n]

NoApprovers == [type |-> "NO_APPROVERS", client_bus_name |-> None, caller |-> None]

DecAdoPending(s) ==
  IF s.ado_pending = 0 THEN Report(s, "dec_ado_pending")
  ELSE LET f == CheckFinished([s EXCEPT !.ado_pending = @ - 1])
       IN CheckClientLocks(
            IF f.ado_pending = 0 /\ ~f.accepted_by_an_approver
            THEN [f EXCEPT !.approvals = Append(@, NoApprovers)]
            ELSE f)

(* run_approvers; approvers is the set whose filter matches the channel    *)
MutKeepTemporaryLock(s, approvers) ==
  LET called == IF s.channel THEN approvers ELSE {}
      i == IncAdoPending(IncAdoPending(s, 1), Cardinality(called))
  IN [i EXCEPT !.adding = @ \cup called]

RunApprovers(s, approvers) ==
  LET called == IF s.channel THEN approvers ELSE {}
      i == IncAdoPending(IncAdoPending(s, 1), Cardinality(called))
  IN DecAdoPending([i EXCEPT !.adding = @ \cup called])

(* The queue without the positions in gone, in the same order              *)
Without(q, gone) ==
  LET left == DOMAIN q \ gone
      nth(n) == CHOOSE i \in left : Cardinality({j \in left : j < i}) = n - 1
  IN [n \in 1 .. Cardinality(left) |-> q[nth(n)]]

InsistsOn(a, h) == a.type = "HANDLE_WITH" /\ a.client_bus_name = h

(* set_handler_failed *)
SetHandlerFailed(s, h) ==
  LET f == [s EXCEPT
              !.failed_handlers = @ \cup {h},
              !.approvals = Without(@, {i \in DOMAIN @ : InsistsOn(@[i], h)}),
              !.reply = [c \in Caller |->
                 IF \E a \in QueuedCalls(s) : InsistsOn(a, h) /\ a.caller = c
                 THEN "error" ELSE s.reply[c]]]
  IN IF \A i \in DOMAIN f.possible_handlers : f.possible_handlers[i] \in f.failed_handlers
     THEN CloseAsUndispatchable(f) ELSE f

(* handle_channels_cb with an error, and with success                      *)
HandlerFailed(s) ==
  CheckClientLocks([SetHandlerFailed(s, s.trying_handler) EXCEPT !.trying_handler = None])

MutLeaveWithoutOwner(s) ==
  LET h == s.trying_handler
      c == IF s.channel /\ h \in registry THEN SetChannelHandledBy(s, h) ELSE s
      f == Finish([c EXCEPT !.successful_handler = h], "NotYours")
  IN CheckClientLocks([f EXCEPT !.trying_handler = None])

HandlerSucceeded(s) ==
  LET h == s.trying_handler
      c == CASE ~s.channel -> s
             [] s.channel /\ h \notin registry -> [s EXCEPT !.closing = TRUE]
             [] OTHER -> SetChannelHandledBy(s, h)
      f == Finish([c EXCEPT !.successful_handler = h], "NotYours")
  IN CheckClientLocks([f EXCEPT !.trying_handler = None])

-----------------------------------------------------------------------------
(* Initial states: what _mcd_dispatcher_add_channel constructs             *)

Created(needs, observe, handlers, preferred) ==
  [ needs_approval |-> needs, observe_only |-> observe,
    possible_handlers |-> handlers,
    failed_handlers |-> {},
    result |-> "none",
    approvals |-> IF preferred = None THEN <<>>
                  ELSE << [type |-> "REQUESTED", client_bus_name |-> preferred,
                           caller |-> None] >>,
    successful_handler |-> None,
    channel |-> TRUE, lost_channel |-> FALSE,
    accepted_by_an_approver |-> FALSE,
    invoked_observers_if_needed |-> FALSE,
    invoked_approvers_if_needed |-> FALSE,
    observers_pending |-> 0,
    delay_approver_observers_pending |-> 0,
    ado_pending |-> 0,
    handler_unsuitable |-> FALSE,
    cancelled |-> FALSE,
    trying_handler |-> None,
    tried_handlers_before_approval |-> FALSE,
    plugins_pending |-> 0,
    did_post_observer_actions |-> FALSE,
    after_observers |-> "NONE",
    status |-> IF observe THEN "UNDISPATCHED" ELSE "DISPATCHING",
    error |-> "none",
    invalidated |-> FALSE, closing |-> FALSE,
    handled_by |-> None,
    observing |-> {}, adding |-> {},
    handling |-> None, deciding |-> {},
    claims |-> [c \in ClaimCaller |-> {}], idle |-> FALSE, leaked |-> FALSE,
    asked |-> [c \in HandleWithCaller |-> None],
    reply |-> [c \in Caller |-> "uncalled"],
    signals |-> <<>>,
    criticals |-> {} ]

(* An incoming channel needs approval; a requested one may have a          *)
(* preferred handler; one requested behind MC's back is only observed; and *)
(* MC handles the channels of its own internal requests itself.            *)
Init ==
  \/ \E l \in HandlerLists \cup {<<>>}, r \in SUBSET Handler :
       /\ \A i \in DOMAIN l : l[i] \in r
       /\ registry = r
       /\ \/ cdo = Created(TRUE, FALSE, l, None)
          \/ \E p \in Handler \cup {None} : cdo = Created(FALSE, FALSE, l, p)
  \/ /\ registry \in SUBSET Handler
     /\ cdo \in {Created(FALSE, TRUE, <<>>, None),
                 Created(FALSE, FALSE, <<Internal>>, None)}

-----------------------------------------------------------------------------
(* Actions                                                                 *)

Running == cdo.invoked_observers_if_needed /\ ~Crashed

(* The approvers' idle source has a higher priority than everything else.  *)
(* Other sources are dispatched before it only when they were ready in the *)
(* main-loop iteration that attached it.  The bus connection dispatches a  *)
(* single message per iteration, so it takes a policy plugin, which has    *)
(* sources of its own, for two callbacks to be ready together.             *)
NotPreempted == cdo.idle => Plugin # {}

(* run_clients, in the callback that made the CDO: observers are those     *)
(* whose filter matches the channel; among the policy plugins, delaying    *)
(* ones start a delay, and some may ask to terminate the channel at once   *)
(* (now) or once the observers have replied (later).                       *)
RunClients(observers, delaying, now, later) ==
  /\ ~cdo.invoked_observers_if_needed /\ ~Crashed
  /\ Plugin = {} => ~now /\ later = "NONE"
  /\ LET called == IF CanBypassObservers(cdo) THEN {} ELSE observers
         o == [cdo EXCEPT !.observing = called,
                          !.observers_pending = Cardinality(called),
                          !.delay_approver_observers_pending =
                             Cardinality(called \cap DelayApprovers)]
         p == [o EXCEPT !.plugins_pending = Cardinality(delaying),
                        !.after_observers = later]
         t == IF now THEN TerminateChannels(p) ELSE p
     IN cdo' = CheckClientLocks(CheckFinished(
                 [t EXCEPT !.invoked_observers_if_needed = TRUE]))
  /\ UNCHANGED registry

ObserverReturns(o) ==
  /\ Running /\ NotPreempted
  /\ o \in cdo.observing
  /\ cdo' = DecObserversPending([cdo EXCEPT !.observing = @ \ {o}], o)
  /\ UNCHANGED registry

IdleRunApprovers(approvers) ==
  /\ Running
  /\ cdo.idle
  /\ LET s == [cdo EXCEPT !.idle = FALSE]
         r == IF s.needs_approval /\ ~IsApproved(s)
              THEN RunApprovers(s, approvers) ELSE s
     IN cdo' = CheckClientLocks([r EXCEPT !.invoked_approvers_if_needed = TRUE])
  /\ UNCHANGED registry

ApproverReturns(a, accepted) ==
  /\ Running /\ NotPreempted
  /\ a \in cdo.adding
  /\ cdo' = DecAdoPending([cdo EXCEPT !.adding = @ \ {a},
                                      !.accepted_by_an_approver = @ \/ accepted])
  /\ UNCHANGED registry

(* The CDO is on D-Bus only if it needs approval, for as long as it lives. *)
Callable(c) ==
  /\ Running /\ NotPreempted
  /\ cdo.needs_approval
  /\ Alive(cdo)
  /\ cdo.reply[c] = "uncalled"

HandleWith(c, name) ==
  /\ Callable(c)
  /\ LET s == [cdo EXCEPT !.asked[c] = name]
     IN cdo' = IF s.result # "none" \/ s.approvals # <<>> \/ name = BadName
               THEN [s EXCEPT !.reply[c] = "error"]
               ELSE CheckClientLocks(
                      [s EXCEPT !.reply[c] = "waiting",
                                !.approvals = Append(@, [type |-> "HANDLE_WITH",
                                                         client_bus_name |-> name,
                                                         caller |-> c])])
  /\ UNCHANGED registry

(* claim_attempt_resolve, when no plugin refused                           *)
ResolveClaim(s, c) ==
  CheckClientLocks(
    [s EXCEPT !.approvals = Append(@, [type |-> "CLAIM",
                                       client_bus_name |-> None,
                                       caller |-> c])])

Claim(c) ==
  /\ Callable(c)
  /\ LET w == [cdo EXCEPT !.reply[c] = "waiting"]
     IN cdo' = CASE cdo.result # "none" -> [cdo EXCEPT !.reply[c] = "error"]
                 [] cdo.result = "none" /\ Plugin = {} -> ResolveClaim(w, c)
                 [] OTHER -> [w EXCEPT !.claims[c] = Plugin]
  /\ UNCHANGED registry

ClaimSuitability(c, p, suitable) ==
  /\ Running
  /\ p \in cdo.claims[c]
  /\ LET s == [cdo EXCEPT !.claims[c] = @ \ {p},
                          !.reply[c] = IF suitable THEN @ ELSE "error"]
     IN cdo' = IF s.claims[c] = {} /\ s.reply[c] = "waiting"
               THEN ResolveClaim(s, c) ELSE s
  /\ UNCHANGED registry

(* add_channel_request: another request is satisfied by the same channel,  *)
(* which is still being dispatched, and pre-approves it                    *)
Approve(preferred) ==
  /\ Running /\ NotPreempted
  /\ cdo.needs_approval /\ cdo.channel /\ Alive(cdo)
  /\ cdo.status = "DISPATCHING"
  /\ Cardinality({i \in DOMAIN cdo.approvals : cdo.approvals[i].type = "REQUESTED"})
       < MaxRequests
  /\ cdo' = CheckClientLocks(
              [cdo EXCEPT !.approvals = Append(@, [type |-> "REQUESTED",
                                                   client_bus_name |-> preferred,
                                                   caller |-> None])])
  /\ UNCHANGED registry

HandlerDecision(p, suitable) ==
  /\ Running
  /\ p \in cdo.deciding
  /\ LET s == [cdo EXCEPT !.deciding = @ \ {p},
                          !.handler_unsuitable = @ \/ ~suitable]
     IN cdo' = CASE s.deciding # {} -> s
                 [] s.deciding = {} /\ s.handler_unsuitable ->
                      HandlerFailed([s EXCEPT !.handler_unsuitable = FALSE])
                 [] OTHER -> HandleChannels(s)
  /\ UNCHANGED registry

HandleChannelsReturns(success) ==
  /\ Running /\ NotPreempted
  /\ cdo.handling # None
  /\ LET s == [cdo EXCEPT !.handling = None]
     IN cdo' = IF success THEN HandlerSucceeded(s) ELSE HandlerFailed(s)
  /\ UNCHANGED registry

MutEndDelaySilently ==
  /\ Running
  /\ cdo.plugins_pending > 0
  /\ cdo' = [cdo EXCEPT !.plugins_pending = @ - 1]
  /\ UNCHANGED registry

EndPluginDelay ==
  /\ Running
  /\ cdo.plugins_pending > 0
  /\ cdo' = CheckClientLocks([cdo EXCEPT !.plugins_pending = @ - 1])
  /\ UNCHANGED registry

(* A policy plugin may use its McpDispatchOperation while MC waits for it. *)
PluginIsWorking ==
  \/ cdo.plugins_pending > 0
  \/ cdo.deciding # {}
  \/ \E c \in ClaimCaller : cdo.claims[c] # {}

PluginStartsDelay ==
  /\ Running /\ PluginIsWorking
  /\ cdo.plugins_pending < Cardinality(Plugin)
  /\ cdo' = [cdo EXCEPT !.plugins_pending = @ + 1]
  /\ UNCHANGED registry

PluginTerminatesNow ==
  /\ Running /\ PluginIsWorking
  /\ cdo.channel
  /\ cdo' = TerminateChannels(cdo)
  /\ UNCHANGED registry

PluginTerminatesLater(action) ==
  /\ Running /\ PluginIsWorking
  /\ Severity[cdo.after_observers] < Severity[action]
  /\ cdo' = [cdo EXCEPT !.after_observers = action]
  /\ UNCHANGED registry

(* The TpChannel is invalidated: closed, or the connection is gone.        *)
ChannelInvalidated ==
  /\ Running /\ NotPreempted
  /\ Alive(cdo) /\ cdo.channel
  /\ cdo' = LoseChannel([cdo EXCEPT !.invalidated = TRUE])
  /\ UNCHANGED registry

(* The McdConnection is aborted, for example because the account was       *)
(* removed, and aborts its channels, which are still valid.                *)
ConnectionAborted ==
  /\ Running /\ NotPreempted
  /\ Alive(cdo) /\ cdo.channel
  /\ cdo' = LoseChannel(cdo)
  /\ UNCHANGED registry

(* The channel's own request is cancelled.  HANDLER_INVOKED makes it       *)
(* uncancellable.                                                          *)
RequestCancelled ==
  /\ Running /\ NotPreempted
  /\ Alive(cdo) /\ cdo.channel
  /\ ~cdo.needs_approval
  /\ cdo.status = "DISPATCHING"
  /\ cdo' = LoseChannel([TakeError(cdo, "CANCELLED") EXCEPT !.closing = TRUE])
  /\ UNCHANGED registry

HandlerVanishes(h) ==
  /\ Running /\ NotPreempted
  /\ h \in registry
  /\ registry' = registry \ {h}
  /\ UNCHANGED cdo

HandlerAppears(h) ==
  /\ Running /\ NotPreempted
  /\ h \notin registry
  /\ registry' = registry \cup {h}
  /\ UNCHANGED cdo

Next ==
  \/ \E observers \in SUBSET Observer, delaying \in SUBSET Plugin,
        now \in BOOLEAN, later \in PluginAction :
          RunClients(observers, delaying, now, later)
  \/ \E o \in Observer : ObserverReturns(o)
  \/ \E approvers \in SUBSET Approver : IdleRunApprovers(approvers)
  \/ \E a \in Approver, accepted \in BOOLEAN : ApproverReturns(a, accepted)
  \/ \E c \in HandleWithCaller, name \in Handler \cup {None, BadName} : HandleWith(c, name)
  \/ \E c \in ClaimCaller : Claim(c)
  \/ \E c \in ClaimCaller, p \in Plugin, suitable \in BOOLEAN :
       ClaimSuitability(c, p, suitable)
  \/ \E preferred \in Handler \cup {None} : Approve(preferred)
  \/ \E p \in Plugin, suitable \in BOOLEAN : HandlerDecision(p, suitable)
  \/ \E success \in BOOLEAN : HandleChannelsReturns(success)
  \/ EndPluginDelay
  \/ PluginStartsDelay
  \/ PluginTerminatesNow
  \/ \E action \in PluginAction : PluginTerminatesLater(action)
  \/ ChannelInvalidated
  \/ ConnectionAborted
  \/ RequestCancelled
  \/ \E h \in Handler : HandlerVanishes(h) \/ HandlerAppears(h)

(* Weak fairness.  Each conjunct is WF_vars(A), with the enabling          *)
(* condition of A in place of ENABLED <<A>>_vars, which is slow to         *)
(* evaluate.  Every call MC makes is answered, by the client or by the     *)
(* bus: the calls have the default timeout, and a client that leaves the   *)
(* bus is an error.  Plugins must end their delays and complete their      *)
(* decisions, and the main loop dispatches every source that stays ready.  *)
Fairness ==
  /\ \/ []<>(cdo.invoked_observers_if_needed \/ Crashed)
     \/ []<><<\E observers \in SUBSET Observer, delaying \in SUBSET Plugin,
                 now \in BOOLEAN, later \in PluginAction :
                   RunClients(observers, delaying, now, later)>>_vars
  /\ \A o \in Observer :
       \/ []<>~(Running /\ NotPreempted /\ o \in cdo.observing)
       \/ []<><<ObserverReturns(o)>>_vars
  /\ \A a \in Approver :
       \/ []<>~(Running /\ NotPreempted /\ a \in cdo.adding)
       \/ []<><<\E accepted \in BOOLEAN : ApproverReturns(a, accepted)>>_vars
  /\ \/ []<>~(Running /\ NotPreempted /\ cdo.handling # None)
     \/ []<><<\E success \in BOOLEAN : HandleChannelsReturns(success)>>_vars
  /\ \/ []<>~(Running /\ cdo.idle)
     \/ []<><<\E approvers \in SUBSET Approver : IdleRunApprovers(approvers)>>_vars
  /\ \/ []<>~(Running /\ cdo.plugins_pending > 0)
     \/ []<><<EndPluginDelay>>_vars
  /\ \A p \in Plugin :
       \/ []<>~(Running /\ p \in cdo.deciding)
       \/ []<><<\E suitable \in BOOLEAN : HandlerDecision(p, suitable)>>_vars
  /\ \A p \in Plugin, c \in ClaimCaller :
       \/ []<>~(Running /\ p \in cdo.claims[c])
       \/ []<><<\E suitable \in BOOLEAN : ClaimSuitability(c, p, suitable)>>_vars

Spec == Init /\ [][Next]_vars

FairSpec == Spec /\ Fairness

-----------------------------------------------------------------------------
(* Properties                                                              *)

TypeOK == cdo \in CdoType /\ registry \in SUBSET Handler

(* The client locks are never negative and count exactly the               *)
(* ObserveChannels and AddDispatchOperation calls in flight (inc_ and      *)
(* dec_observers_pending, inc_ and dec_ado_pending): were one too high the *)
(* CDO would never finish, were one too low it would finish under a        *)
(* client's feet.                                                          *)
LocksMatchCalls ==
  /\ TypeOK
  /\ cdo.observers_pending = Cardinality(cdo.observing)
  /\ cdo.delay_approver_observers_pending
       = Cardinality(cdo.observing \cap DelayApprovers)
  /\ cdo.ado_pending = Cardinality(cdo.adding)

(* may_signal_finished: ChannelLost and Finished, the destructive signals, *)
(* are never emitted while an Observer or an Approver has not returned;    *)
(* and whichever of lose_channel, finish and check_finished emits them,    *)
(* each is emitted once at most, Finished last.                            *)
QuietSignals ==
  [][cdo'.signals # cdo.signals =>
       /\ cdo'.observing = {} /\ cdo'.adding = {}
       /\ cdo'.signals \in {<<"ChannelLost">>, <<"Finished">>, <<"ChannelLost", "Finished">>}]_vars

(* The dispatch operation, without plugins, does what ChannelDispatch      *)
(* promises: one owner or a closed channel, decided once, with a truthful  *)
(* answer to everybody who waits at that moment.                           *)
Promised ==
  INSTANCE ChannelDispatch WITH
    owner <- cdo.handled_by,
    closed <- cdo.closing \/ ~cdo.channel,
    decided <- cdo.result # "none",
    asked <- cdo.asked,
    answer <- cdo.reply

ImplementsChannelDispatch == Promised!Spec

(* What a caller or an owner was told is final: neither a handler nor a    *)
(* claimer ever takes over a channel from another one, and HandleWith and  *)
(* Claim are answered once, although finish, set_handler_failed,           *)
(* try_next_handler, check_client_locks and the claim attempts all answer  *)
(* from the same queue.                                                    *)
OutcomesAreFinal ==
  [][/\ cdo.handled_by # None => cdo'.handled_by = cdo.handled_by
     /\ \A c \in Caller :
          cdo.reply[c] \in {"ok", "error"} => cdo'.reply[c] = cdo.reply[c]]_vars

(* Once the result is known and no callback is due, an open channel was    *)
(* given to somebody or MC closed it: none is left behind in the           *)
(* connection with no process responsible for it.                          *)
NoChannelLeftBehind ==
  cdo.result # "none" =>
    cdo.handled_by # None \/ cdo.closing \/ ~cdo.channel

(* The assertions of the code: approval_free's "we should have replied to  *)
(* the method call by now" (when the last reference is dropped no caller   *)
(* waits for an answer), and those of inc_ and dec_ado_pending, that       *)
(* approvers are only asked about a channel whose fate is still open.      *)
AssertionsHold ==
  /\ cdo.invoked_observers_if_needed /\ ~Alive(cdo) =>
       \A c \in Caller : cdo.reply[c] # "waiting"
  /\ cdo.criticals \cap {"inc_ado_pending", "dec_ado_pending"} = {}

(* The user's approval: a channel that somebody accepted to present to the *)
(* user, as an Approver, is given to a handler that does not bypass        *)
(* approval only after a HandleWith or a request by the user.              *)
UserApproved ==
  (/\ cdo.trying_handler \notin BypassApproval \cup {None}
   /\ cdo.needs_approval
   /\ cdo.result = "none") =>
     \/ ~cdo.accepted_by_an_approver /\ cdo.invoked_approvers_if_needed /\ cdo.ado_pending = 0
     \/ \E i \in DOMAIN cdo.approvals :
          cdo.approvals[i].type \in {"HANDLE_WITH", "REQUESTED"}

(* No call, source, delay or decision that would wake the CDO is due.      *)
Quiescent ==
  /\ cdo.invoked_observers_if_needed
  /\ cdo.observing = {} /\ cdo.adding = {} /\ cdo.deciding = {}
  /\ cdo.handling = None /\ cdo.plugins_pending = 0 /\ ~cdo.idle
  /\ \A c \in ClaimCaller : cdo.claims[c] = {}

(* A requested channel cannot stall: when nothing is due any more it has   *)
(* been given to a handler, lost or closed.                                *)
RequestedNeverStalls ==
  Quiescent /\ ~cdo.needs_approval /\ ~cdo.observe_only =>
    cdo.result # "none" \/ IsInternal(cdo)

(* Handlers that bypass approval come first: Approvers are only asked when *)
(* no registered one is left that could take the channel without them.     *)
BypassersFirst ==
  [][cdo.adding = {} /\ cdo'.adding # {} =>
       \A i \in DOMAIN cdo.possible_handlers :
         cdo.possible_handlers[i] \in BypassApproval \cap registry =>
           cdo.possible_handlers[i] \in cdo.failed_handlers]_vars

(* Every HandleWith that was accepted into the queue is answered in the    *)
(* end: by the handler's success or failure, by the handler's absence, or  *)
(* because the CDO finished in another way.                                *)
HandleWithAnswered ==
  \A c \in HandleWithCaller :
    cdo.reply[c] = "waiting" ~> cdo.reply[c] # "waiting" \/ Crashed

(* A dispatch comes to an end: a requested channel is dispatched or its    *)
(* request fails, and once the clients have returned a result is announced *)
(* by Finished.                                                            *)
DispatchEnds ==
  /\ ~cdo.needs_approval /\ ~cdo.observe_only
       ~> cdo.result # "none" \/ cdo.handled_by # None
  /\ cdo.result # "none" ~>
       (\E i \in DOMAIN cdo.signals : cdo.signals[i] = "Finished") \/ Crashed

=============================================================================
