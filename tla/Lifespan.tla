------------------------------ MODULE Lifespan ------------------------------
(***************************************************************************)
(* Start-up and shutdown of one process: tracing, the Redis client and the *)
(* OpenAI client are constructed in this order and closed in the reverse   *)
(* one, by callbacks that an AsyncExitStack runs whether the process       *)
(* served, failed to start, or another callback raised.                    *)
(***************************************************************************)
EXTENDS Naturals, Sequences

VARIABLES
  settings,   \* what the environment configured
  phase,      \* how far the process is
  callbacks,  \* the exit stack, next callback first
  open,       \* clients that were constructed and not closed
  owned,      \* clients that app.state names as the process's own
  raised,     \* clients whose close raised
  exit        \* how the process ended

lifeVars == <<settings, phase, callbacks, open, owned, raised, exit>>

Clients == {"openai", "redis", "tracing"}
Starting == {"tracing", "redis", "provider"}
Phases == Starting \cup {"serving", "draining", "closing", "stopped"}

\* Settings that pass the validators of app.config, by what start-up makes
\* of them: a collector URL, a Redis URL or a model can still be refused.
Settings ==
  [tracing: {"off", "on", "bad"}, redis: {"good", "bad"}, openai: {"no key", "good", "bad"}]

LifespanTypeOK ==
  /\ settings \in Settings
  /\ phase \in Phases
  /\ callbacks \in Seq(Clients)
  /\ open \subseteq Clients
  /\ owned \subseteq Clients
  /\ raised \subseteq Clients
  /\ exit \in {"none", "startup failed", "stopped", "close failed", "killed"}

LifespanInit ==
  /\ settings \in Settings
  /\ phase = "tracing"
  /\ callbacks = <<>>
  /\ open = {}
  /\ owned = {}
  /\ raised = {}
  /\ exit = "none"

Construct(c) == open' = open \cup {c} /\ owned' = owned \cup {c}

-----------------------------------------------------------------------------
\* Start-up that cannot go on unwinds what it has.
StartupFails ==
  /\ phase' = "closing"
  /\ exit' = "startup failed"
  /\ UNCHANGED <<settings, callbacks, open, owned, raised>>

\* configure_tracing; the callbacks of all clients are registered next, before
\* any other client exists.
ConfigureTracing ==
  /\ phase = "tracing"
  /\ settings.tracing # "bad"
  /\ IF settings.tracing = "on" THEN Construct("tracing") ELSE UNCHANGED <<open, owned>>
  /\ callbacks' = <<"openai", "redis", "tracing">>
  /\ phase' = "redis"
  /\ UNCHANGED <<settings, raised, exit>>

\* Redis.from_url, which parses its URL and connects to nothing yet
BuildRedis ==
  /\ phase = "redis"
  /\ settings.redis = "good"
  /\ Construct("redis")
  /\ phase' = "provider"
  /\ UNCHANGED <<settings, callbacks, raised, exit>>

\* build_production_provider_registry; without a key the process serves and
\* has no provider.
BuildProvider ==
  /\ phase = "provider"
  /\ settings.openai # "bad"
  /\ IF settings.openai = "good" THEN Construct("openai") ELSE UNCHANGED <<open, owned>>
  /\ phase' = "serving"
  /\ UNCHANGED <<settings, callbacks, raised, exit>>

RefuseSettings ==
  /\ \/ phase = "tracing" /\ settings.tracing = "bad"
     \/ phase = "redis" /\ settings.redis = "bad"
     \/ phase = "provider" /\ settings.openai = "bad"
  /\ StartupFails

StopSignal ==
  /\ phase = "serving"
  /\ phase' = "draining"
  /\ UNCHANGED <<settings, callbacks, open, owned, raised, exit>>

\* The server enters the lifespan's shutdown.
BeginClose ==
  /\ phase = "draining"
  /\ phase' = "closing"
  /\ UNCHANGED <<settings, callbacks, open, owned, raised, exit>>

\* Mutant of RestAfter: an exception of a callback ends the unwinding.
RestAfterFailureIsNone(fails) == IF fails THEN <<>> ELSE Tail(callbacks)

\* AsyncExitStack runs the other callbacks also when one raises.
RestAfter(fails) == Tail(callbacks)

\* _close_owned_client and _close_tracing.  The attribute is cleared before
\* the client is closed; tracing swallows what its shutdown raises.
RunCallback ==
  /\ phase = "closing"
  /\ callbacks # <<>>
  /\ \E fails \in {FALSE} \cup {Head(callbacks) \in owned} :
       LET c == Head(callbacks) IN
       /\ open' = IF fails THEN open ELSE open \ (owned \cap {c})
       /\ raised' = IF fails THEN raised \cup {c} ELSE raised
       /\ exit' = IF fails /\ c # "tracing" /\ exit = "none" THEN "close failed" ELSE exit
       /\ callbacks' = RestAfter(fails)
       /\ owned' = owned \ {c}
  /\ UNCHANGED <<settings, phase>>

\* Mutant of Stop: it waits for every client to be closed, also for one whose
\* close raised.
StopWhenAllClosed ==
  /\ phase = "closing"
  /\ callbacks = <<>>
  /\ open = {}
  /\ phase' = "stopped"
  /\ exit' = IF exit = "none" THEN "stopped" ELSE exit
  /\ UNCHANGED <<settings, callbacks, open, owned, raised>>

Stop ==
  /\ phase = "closing"
  /\ callbacks = <<>>
  /\ phase' = "stopped"
  /\ exit' = IF exit = "none" THEN "stopped" ELSE exit
  /\ UNCHANGED <<settings, callbacks, open, owned, raised>>

\* The process is killed: the operating system closes its sockets.
Kill ==
  /\ phase # "stopped"
  /\ phase' = "stopped"
  /\ exit' = "killed"
  /\ open' = {}
  /\ UNCHANGED <<settings, callbacks, owned, raised>>

Start == ConfigureTracing \/ BuildRedis \/ BuildProvider \/ RefuseSettings
Unwind == RunCallback \/ Stop

-----------------------------------------------------------------------------
\* Every client the process constructed is closed when it stops, whichever
\* step of start-up or shutdown failed, unless its own close raised; nothing
\* is left as owned; an error of a close other than tracing's is not lost
\* ("All callbacks run even when startup or another callback fails; errors
\* still propagate", main.py).
UnwindsCompletely ==
  phase = "stopped" /\ exit # "killed" =>
    /\ open \subseteq raised
    /\ owned = {}
    /\ raised \ {"tracing"} # {} => exit # "stopped"
=============================================================================
