--------------------------- MODULE GatewayProcess ---------------------------
(***************************************************************************)
(* One process of the gateway from start to stop, and a request in it.     *)
(* The server (uvicorn) accepts requests while the lifespan is in its      *)
(* yield, stops accepting at the stop signal, and enters the lifespan's    *)
(* shutdown when the requests in flight have ended.                        *)
(***************************************************************************)
EXTENDS Lifespan, CompletionCall

vars == <<lifeVars, callVars>>

TypeOK == LifespanTypeOK /\ CallTypeOK

Init == LifespanInit /\ CallInit

\* A request begins in a process that serves and has a provider; without one
\* it is refused (503 no_provider_configured) and nothing happens.
Begin ==
  /\ phase = "serving"
  /\ "openai" \in owned
  /\ CountTokens \/ CountFails
  /\ UNCHANGED lifeVars

InFlight == step \notin {"new", "over"}

\* uvicorn's shutdown waits for the requests in flight.
Drained == ~InFlight

Shutdown ==
  /\ Drained
  /\ BeginClose
  /\ UNCHANGED callVars

\* A killed process takes its request with it.
Die ==
  /\ Kill
  /\ IF InFlight THEN CancelCall ELSE UNCHANGED callVars

Next ==
  \/ (Start \/ StopSignal \/ Unwind) /\ UNCHANGED callVars
  \/ Begin
  \/ (Continue \/ CancelCall) /\ UNCHANGED lifeVars
  \/ Shutdown
  \/ Die

Spec == Init /\ [][Next]_vars

\* Start-up runs on by itself, callbacks return (closing a client is bounded
\* by its own timeouts), and the handler's awaits end: every provider call is
\* under asyncio.timeout.  No signal, request or cancellation has to come.
FairSpec ==
  /\ Spec
  /\ WF_vars((Start \/ Unwind) /\ UNCHANGED callVars)
  /\ WF_vars(Continue /\ UNCHANGED lifeVars)
  /\ WF_vars(Shutdown)

-----------------------------------------------------------------------------
\* Shutdown closes the clients, all of them, and not before the requests that
\* use them have ended (main.py:341).
ClientsOutliveCalls == UnwindsCompletely /\ (InFlight => "openai" \in open)

\* A stop signal stops the process, whatever its request is doing and
\* whichever callback fails.
StopCompletes == phase = "draining" ~> phase = "stopped"
=============================================================================
