------------------------ MODULE MCDispatchOperation ------------------------
(* Small instances of DispatchOperation for TLC.                           *)
EXTENDS DispatchOperation

CONSTANTS h1, h2   \* two handlers; configurations may make h1 a bypassing one

(* One handler, or two of which the first is the better.                   *)
MCHandlerLists == {<<h1>>, <<h1, h2>>}

(* The same when only h1 bypasses approval: h2 may be the only one.        *)
MCBypassLists == {<<h1>>, <<h2>>, <<h1, h2>>}
=============================================================================
