--------------------------- MODULE HandlerSelection ---------------------------
(* Which handler: how the filters of clients are read from .client files    *)
(* and from D-Bus and compared with channels (mcd-client.c), the order of   *)
(* the possible handlers (client-registry.c), the handler that is told of a *)
(* request before there is a channel (request.c), the ones that are tried   *)
(* when there is one (mcd-dispatch-operation.c), and the one that gets a    *)
(* handled channel again when it is requested or presented once more        *)
(* (mcd-dispatcher.c), while clients come and go.                           *)
(*                                                                          *)
(* One channel, dispatched for a request or with the approval of the user.  *)
(* Property values keep their D-Bus types; numbers have 2 * Bits bits, the  *)
(* guint and gint of parse_client_filter has Bits.  A definition named      *)
(* Mut... is a plausible bug in the definition after it.                    *)
EXTENDS Integers, Sequences, FiniteSetsExt, Functions, SequencesExt

CONSTANTS
  HashOrder,     \* the names of clients, as the hash table iterates them
  Descriptions,  \* what a client says of itself
  Channels,      \* immutable properties of channels
  Requests,      \* requested properties
  Process,       \* unique names
  Bits,          \* the width of int
  None

Client == ToSet(HashOrder)

Unsigned == {"y", "q", "u", "t"}
Signed   == {"n", "i", "x"}
Numbers  == Unsigned \cup Signed

(* Of the properties of a channel, and of the conditions of a filter.       *)
Typed(v) ==
  /\ v.type \in Numbers \cup {"b", "s", "o", "d"}
  /\ v.type \in Numbers => v.value \in Int
  /\ v.type = "b" => v.value \in BOOLEAN

ASSUME SelectionAssumption ==
  /\ Bits \in Nat \ {0} /\ HashOrder \in Seq(Client)
  /\ None \notin Client \cup Process \cup Descriptions \cup Channels
  /\ \A d \in Descriptions :
       /\ d.process \in Process /\ d.is_handler \in BOOLEAN /\ d.bypass \in BOOLEAN
       /\ d.from \in {"file", "bus"}
       /\ \A w \in d.filters : IsFiniteSet(DOMAIN w) /\ \A k \in DOMAIN w : Typed(w[k])
       /\ IsFiniteSet(d.filters)
  /\ \A props \in Channels :
       /\ \A k \in DOMAIN props : Typed(props[k])
       /\ "Requested" \in DOMAIN props /\ props["Requested"].type = "b"

VARIABLES
  clients,    \* the registered clients, as they described themselves
  request,    \* the McdRequest that waits for a channel
  channel,    \* properties of the channel
  operation,  \* its dispatch operation
  handled_by, \* its entry in the McdHandlerMap
  invoked     \* the last HandleChannels, and why it was called

vars == <<clients, request, channel, operation, handled_by, invoked>>

-----------------------------------------------------------------------------
(* Filters                                                                  *)

(* What is left of a number in an int.                                      *)
ToGuint(n) == n % 2^Bits
ToGint(n)  == IF ToGuint(n) < 2^(Bits - 1) THEN ToGuint(n) ELSE ToGuint(n) - 2^Bits

(* parse_client_filter: conditions of an unknown type are skipped.          *)
ParseClientFilter(w) ==
  [k \in {k \in DOMAIN w : w[k].type # "d"} |->
     CASE w[k].type \in {"q", "u", "t"}      -> [type |-> "t", value |-> ToGuint(w[k].value)]
       [] w[k].type \in {"y", "n", "i", "x"} -> [type |-> "x", value |-> ToGint(w[k].value)]
       [] OTHER                              -> w[k]]

(* _mcd_client_proxy_set_filters: a filter with such a condition is dropped,*)
(* numbers are widened.                                                     *)
ReadFilter(w) ==
  [k \in DOMAIN w |->
     CASE w[k].type \in Unsigned -> [type |-> "t", value |-> w[k].value]
       [] w[k].type \in Signed   -> [type |-> "x", value |-> w[k].value]
       [] OTHER                  -> w[k]]

SetFilters(filters) ==
  {ReadFilter(w) : w \in {w \in filters : \A k \in DOMAIN w : w[k].type # "d"}}

(* A list in the code, of which only the best match counts.                 *)
HandlerFilters(d) ==
  IF d.from = "bus" THEN SetFilters(d.filters)
  ELSE {ParseClientFilter(w) : w \in d.filters}

(* _mcd_client_match_property: numbers match whatever their width.          *)
MatchProperty(props, k, v) ==
  /\ k \in DOMAIN props
  /\ \/ v.type \in {"b", "s", "o"} /\ props[k].type = v.type
     \/ v.type \in Numbers /\ props[k].type \in Numbers
  /\ props[k].value = v.value

(* A mutant: Requested is not looked at before there is a channel.          *)
MutIgnoreRequested(props, filter, assume_requested) ==
  \A k \in DOMAIN filter :
    (assume_requested /\ k = "Requested") \/ MatchProperty(props, k, filter[k])

(* The loop over one filter in _mcd_client_match_filters.                   *)
FilterMatched(props, filter, assume_requested) ==
  \A k \in DOMAIN filter :
    IF assume_requested /\ k = "Requested"
    THEN filter[k].type = "b" /\ filter[k].value
    ELSE MatchProperty(props, k, filter[k])

(* _mcd_client_match_filters: the best of the filters, and 0 without one.   *)
MatchFilters(props, filters, assume_requested) ==
  Max({0} \cup {Cardinality(DOMAIN filter) + 1 :
                   filter \in {f \in filters : FilterMatched(props, f, assume_requested)}})

-----------------------------------------------------------------------------
(* Possible handlers                                                        *)

Position(c) == CHOOSE i \in DOMAIN HashOrder : HashOrder[i] = c

(* A mutant: the more specific filter wins over BypassApproval.             *)
MutQualityFirst(a, b) ==
  \/ a.quality > b.quality
  \/ a.quality = b.quality /\ a.bypass /\ ~b.bypass
  \/ a.quality = b.quality /\ a.bypass = b.bypass /\ Position(a.client) < Position(b.client)

(* possible_handler_cmp, prepended, sorted and reversed                     *)
Precedes(a, b) ==
  \/ a.bypass /\ ~b.bypass
  \/ a.bypass = b.bypass /\ a.quality > b.quality
  \/ a.bypass = b.bypass /\ a.quality = b.quality /\ Position(a.client) < Position(b.client)

Sorted(handlers) ==
  CHOOSE list \in Bijection(1..Cardinality(handlers), handlers) :
    \A i, j \in DOMAIN list : i < j => Precedes(list[i], list[j])

Registered == {c \in Client : clients[c] # None}

(* How well a client suits the channel, or the request if there is only     *)
(* that so far (props is None); and the clients that do.                    *)
Quality(c, request_props, props) ==
  IF props = None THEN MatchFilters(request_props, HandlerFilters(clients[c]), TRUE)
  ELSE MatchFilters(props, HandlerFilters(clients[c]), FALSE)

PossibleHandlers(request_props, props, must_have_unique_name) ==
  {[client |-> c, bypass |-> clients[c].bypass, quality |-> Quality(c, request_props, props)] :
     c \in {c \in Registered :
              /\ must_have_unique_name \in {None, clients[c].process}
              /\ clients[c].is_handler
              /\ Quality(c, request_props, props) > 0}}

(* Whom a request prefers is assumed to be suitable, if there is nobody     *)
(* else.                                                                    *)
Fallback(preferred) == IF preferred \in Registered THEN <<preferred>> ELSE <<>>

(* _mcd_client_registry_list_possible_handlers, most preferred first.       *)
ListPossibleHandlers(preferred, request_props, props, must_have_unique_name) ==
  LET handlers == PossibleHandlers(request_props, props, must_have_unique_name)
      sorted == Sorted(handlers)
  IN  IF handlers = {} THEN Fallback(preferred) ELSE [i \in DOMAIN sorted |-> sorted[i].client]

First(list) == IF list = <<>> THEN None ELSE Head(list)

(* guess_request_handler                                                    *)
GuessRequestHandler(r) ==
  IF r.preferred \in Registered THEN r.preferred
  ELSE First(ListPossibleHandlers(r.preferred, r.props, None, None))

(* A mutant: any process will do.                                           *)
MutAnyProcess(r) ==
  IF handled_by.client \in Registered THEN handled_by.client
  ELSE First(ListPossibleHandlers(r.preferred, r.props, channel, None))

(* _mcd_dispatcher_lookup_handler                                           *)
LookupHandler(r) ==
  IF handled_by.client \in Registered THEN handled_by.client
  ELSE First(ListPossibleHandlers(r.preferred, r.props, channel, handled_by.process))

-----------------------------------------------------------------------------
(* Initial state and actions                                                *)

NoRequest == [props |-> None, preferred |-> None, predicted |-> None]
NoOperation == [possible |-> <<>>, failed |-> {}]
Nobody == [process |-> None, client |-> None]
Nothing == [client |-> None, why |-> "none"]

Init ==
  /\ clients \in [Client -> Descriptions \cup {None}]
  /\ request = NoRequest /\ channel = None /\ operation = NoOperation
  /\ handled_by = Nobody /\ invoked = Nothing

(* A name is taken, and its owner introspected; it is released.  predicted  *)
(* is the client that was told, as long as it is the same.                  *)
Registers(c) ==
  /\ c \notin Registered
  /\ \E d \in Descriptions : clients' = [clients EXCEPT ![c] = d]
  /\ invoked' = Nothing
  /\ UNCHANGED <<request, channel, operation, handled_by>>

Leaves(c) ==
  /\ c \in Registered
  /\ clients' = [clients EXCEPT ![c] = None]
  /\ request' = [request EXCEPT !.predicted = IF @ = c THEN None ELSE @]
  /\ invoked' = Nothing
  /\ UNCHANGED <<channel, operation, handled_by>>

(* A request with Proceed: _mcd_request_predict_handler.                    *)
MakeRequest ==
  /\ request = NoRequest /\ channel = None
  /\ \E props \in Requests, preferred \in Client \cup {None} :
       LET r == [NoRequest EXCEPT !.props = props, !.preferred = preferred]
       IN  request' = [r EXCEPT !.predicted = GuessRequestHandler(r)]
  /\ invoked' = Nothing
  /\ UNCHANGED <<clients, channel, operation, handled_by>>

(* The properties asked for, and that it was requested.                     *)
Satisfies(props, r) ==
  /\ props["Requested"].value
  /\ \A k \in DOMAIN r.props : k \in DOMAIN props /\ props[k] = r.props[k]

(* _mcd_dispatcher_add_channel                                              *)
ChannelAppears ==
  /\ channel = None
  /\ \E props \in Channels :
       /\ IF request = NoRequest THEN ~props["Requested"].value ELSE Satisfies(props, request)
       /\ LET possible == ListPossibleHandlers(request.preferred, request.props, props, None)
          IN  /\ channel' = IF possible = <<>> THEN None ELSE props
              /\ request' = IF possible = <<>> THEN NoRequest ELSE request
              /\ operation' = [NoOperation EXCEPT !.possible = possible]
  /\ invoked' = Nothing
  /\ UNCHANGED <<clients, handled_by>>

(* _mcd_dispatch_operation_try_next_handler, of an approved operation       *)
NextHandler ==
  LET left == {i \in DOMAIN operation.possible :
                 operation.possible[i] \in Registered \ operation.failed}
  IN  IF request.preferred \in Registered \ operation.failed THEN request.preferred
      ELSE IF left = {} THEN None
      ELSE operation.possible[Min(left)]

Undispatchable ==
  channel' = None /\ request' = NoRequest /\ operation' = NoOperation

(* The handler accepts the channel or not; without one it is closed.        *)
TryNextHandler ==
  /\ operation # NoOperation
  /\ LET c == NextHandler IN
     \/ /\ c # None
        /\ invoked' = [client |-> c, why |-> "dispatch"]
        /\ \/ /\ handled_by' = [process |-> clients[c].process, client |-> c]
              /\ operation' = NoOperation
              /\ UNCHANGED <<request, channel>>
           \/ /\ operation' = [operation EXCEPT !.failed = @ \cup {c}]
              /\ UNCHANGED <<request, channel, handled_by>>
     \/ c = None /\ Undispatchable /\ invoked' = Nothing /\ UNCHANGED handled_by
  /\ UNCHANGED clients

(* An approver in process u claims the channel.                             *)
Claim(u) ==
  /\ operation # NoOperation
  /\ handled_by' = [process |-> u, client |-> None]
  /\ operation' = NoOperation /\ invoked' = Nothing
  /\ UNCHANGED <<clients, request, channel>>

(* The process that handles the channel exits, and MC closes the channel.   *)
HandlerExits ==
  /\ handled_by # Nobody
  /\ clients' = [c \in Client |->
       IF c \in Registered /\ clients[c].process = handled_by.process THEN None ELSE clients[c]]
  /\ handled_by' = Nobody /\ Undispatchable /\ invoked' = Nothing

(* _mcd_dispatcher_reinvoke_handler: EnsureChannel gets the channel again.  *)
Reinvoke ==
  /\ handled_by # Nobody
  /\ \E props \in Requests, preferred \in Client \cup {None} :
       LET r == [NoRequest EXCEPT !.props = props, !.preferred = preferred]
       IN  Satisfies([channel EXCEPT !["Requested"].value = TRUE], r)
           /\ invoked' = [client |-> LookupHandler(r), why |-> preferred]
  /\ UNCHANGED <<clients, request, channel, operation, handled_by>>

(* dispatcher_present_channel: for the request that created the channel.    *)
PresentChannel ==
  /\ handled_by # Nobody
  /\ invoked' = [client |-> LookupHandler(request), why |-> request.preferred]
  /\ UNCHANGED <<clients, request, channel, operation, handled_by>>

Next ==
  \/ \E c \in Client : Registers(c) \/ Leaves(c)
  \/ \E u \in Process : Claim(u)
  \/ MakeRequest \/ ChannelAppears \/ TryNextHandler \/ HandlerExits
  \/ Reinvoke \/ PresentChannel

Spec == Init /\ [][Next]_vars

-----------------------------------------------------------------------------
(* Properties                                                               *)

TypeOK ==
  /\ clients \in [Client -> Descriptions \cup {None}]
  /\ request.props \in Requests \cup {None}
  /\ {request.preferred, request.predicted, handled_by.client, invoked.client}
       \subseteq Client \cup {None}
  /\ channel \in Channels \cup {None} /\ handled_by.process \in Process \cup {None}
  /\ ToSet(operation.possible) \cup operation.failed \subseteq Client

(* What the client wrote, read as it stands.                                *)
Means(props, w) ==
  \A k \in DOMAIN w :
    /\ k \in DOMAIN props
    /\ props[k].type = w[k].type \/ {props[k].type, w[k].type} \subseteq Numbers
    /\ props[k].value = w[k].value

(* A client whose conditions MC can read: no unknown types, no numbers of   *)
(* more than Bits bits in a file.                                           *)
Readable(d) ==
  \A w \in d.filters : \A k \in DOMAIN w :
    /\ w[k].type # "d"
    /\ d.from = "file" =>
         /\ w[k].type \in {"q", "u", "t"} => ToGuint(w[k].value) = w[k].value
         /\ w[k].type \in {"y"} \cup Signed => ToGint(w[k].value) = w[k].value

FilterSizes(props, d) == {Cardinality(DOMAIN w) : w \in {w \in d.filters : Means(props, w)}}

(* Of two readable clients that want the channel, the one that bypasses     *)
(* approval, and else the one with the more specific filter, is asked       *)
(* first; those that want the channel are asked, and no others unless the   *)
(* request names them.                                                      *)
MostSpecificFirst ==
  [][channel = None /\ channel' # None =>
       LET list == operation'.possible
           Wants(c) == clients[c].is_handler /\ FilterSizes(channel', clients[c]) # {}
           known == {c \in Registered : Readable(clients[c])}
           Biggest(c) == Max(FilterSizes(channel', clients[c]))
       IN  /\ \A c \in known : Wants(c) => c \in ToSet(list)
           /\ \A c \in known \cap ToSet(list) : Wants(c) \/ list = <<request.preferred>>
           /\ \A i, j \in DOMAIN list :
                i < j /\ {list[i], list[j]} \subseteq known =>
                  LET a == list[i]  b == list[j] IN
                  IF clients[a].bypass = clients[b].bypass THEN Biggest(a) >= Biggest(b)
                  ELSE clients[a].bypass]_vars

(* The client that was told of the request, if it is still there when the   *)
(* channel comes, may get it.                                               *)
PredictedIsPossible ==
  [][channel = None /\ channel' # None /\ request.predicted # None =>
       LET p == request.predicted IN
       p \in ToSet(operation'.possible) \/ p = request.preferred]_vars

(* A channel that is handled is given again only to the process that        *)
(* handles it, to the name that it was given to, or to the client that the  *)
(* new request prefers; in any case to a client that is registered.         *)
RedispatchToHandler ==
  /\ TypeOK
  /\ invoked.client # None /\ invoked.why # "dispatch" =>
       /\ invoked.client \in Registered
       /\ \/ clients[invoked.client].process = handled_by.process
          \/ invoked.client \in {handled_by.client, invoked.why}

=============================================================================
