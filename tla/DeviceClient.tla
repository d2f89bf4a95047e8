---------------------------- MODULE DeviceClient ----------------------------
(***************************************************************************)
(* The HTTP client in front of the REHAU controller                        *)
(* (apps/bridge/src/device/client.ts).  The controller serves one request  *)
(* at a time, so every call of the bridge is appended to one promise chain *)
(* and waits for all earlier ones.  A request that times out while waiting *)
(* for a connection or for response headers is repeated once, in place,    *)
(* with the chain still held.                                              *)
(*                                                                         *)
(* The head of `chain` is the request being served (its cool-down included)*)
(* and the rest are calls that wait.  What a request means, and what the   *)
(* code awaiting it does next, is up to the module that extends this one.  *)
(***************************************************************************)
EXTENDS Naturals, Sequences

VARIABLES
    chain,     \* the requests not settled yet, in the order of the calls
    retried    \* TRUE when the request being served is on its second attempt

clientVars == <<chain, retried>>

ClientInit ==
    /\ chain = <<>>
    /\ retried = FALSE

\* enqueue(): the call joins the end of the chain.
Enqueue(req) ==
    /\ chain' = Append(chain, req)
    /\ UNCHANGED retried

\* The request being served resolves or rejects.  Both let the next one run:
\* the chain continues from next.catch(() => undefined).
Settle ==
    /\ chain' = Tail(chain)
    /\ retried' = FALSE

\* The request settles and the code awaiting it makes its next call in the
\* same turn of the event loop: that call goes behind those already waiting.
SettleAndEnqueue(req) ==
    /\ chain' = Append(Tail(chain), req)
    /\ retried' = FALSE

\* Mutant of RetryInPlace: the second attempt goes behind the waiting calls.
RetryAtEnd ==
    /\ chain # <<>>
    /\ ~retried
    /\ retried' = TRUE
    /\ chain' = Append(Tail(chain), Head(chain))

\* A first attempt ran into a headers or connect timeout: one more attempt.
RetryInPlace ==
    /\ chain # <<>>
    /\ ~retried
    /\ retried' = TRUE
    /\ UNCHANGED chain
=============================================================================
