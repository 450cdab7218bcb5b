------------------------------ MODULE Transport ------------------------------
(***************************************************************************)
(* The life of an HTTP process: run_http of transports/http.py inside the  *)
(* main of weather_mcp/server.py.  One uvicorn server carries /mcp,        *)
(* /healthz and /readyz, a second one, on a port of its own, /metrics.     *)
(* SIGTERM and SIGINT drain both; when both have stopped, run_http returns *)
(* and main closes the HTTP client that the handlers use.                  *)
(*                                                                         *)
(* uvicorn is external: a server that starts after should_exit was set     *)
(* stops at once; a running one looks at should_exit every 0.1 s, then     *)
(* closes its socket, waits for its open requests and stops; a port that   *)
(* cannot be bound ends the process with SystemExit.  Scrapes of /metrics  *)
(* are left out.                                                           *)
(***************************************************************************)
CONSTANTS Requests,       \* requests the load balancer may send to /mcp
          Streams,        \* those that stay open until the client leaves: the
                          \* channels from server to client of MCP sessions
          MetricsEnabled  \* metrics.enabled()

ASSUME StreamAssumption == Streams \subseteq Requests
ASSUME SwitchAssumption == MetricsEnabled \in BOOLEAN

Servers == {"main"} \cup (IF MetricsEnabled THEN {"metrics"} ELSE {})

VARIABLES process,      \* starting, serving, unwinding (run_http is left), exited
                        \* or killed
          ready,        \* readiness["ready"]
          should_exit,  \* should_exit[s]
          server,       \* server[s]: what uvicorn does with s
          balancer,     \* whether the load balancer has the instance in rotation
          request       \* request[r]

vars == <<process, ready, should_exit, server, balancer, request>>

TypeOK ==
  /\ process \in {"starting", "serving", "unwinding", "exited", "killed"}
  /\ ready \in BOOLEAN
  /\ should_exit \in [Servers -> BOOLEAN]
  /\ server \in [Servers -> {"startup", "running", "closing", "stopped", "failed"}]
  /\ balancer \in {"in", "out"}
  /\ request \in [Requests -> {"none", "open", "done", "refused", "dropped"}]

Init == /\ process = "starting"
        /\ ready = TRUE
        /\ should_exit = [s \in Servers |-> FALSE]
        /\ server = [s \in Servers |-> "startup"]
        /\ balancer = "out"
        /\ request = [r \in Requests |-> "none"]

Open == {r \in Requests : request[r] = "open"}

-----------------------------------------------------------------------------
(* Plausible slips, used to show that the properties can be broken.        *)

drain_LastInstalled ==
  /\ ready
  /\ ready' = FALSE
  /\ should_exit' = [should_exit EXCEPT ![IF MetricsEnabled THEN "metrics" ELSE "main"] = TRUE]

drain_StaysReady ==
  /\ ready
  /\ should_exit' = [s \in Servers |-> TRUE]
  /\ UNCHANGED ready

Answer_AsText == IF ready THEN "ready" ELSE "draining"

AllStopped_Any == \E s \in Servers : server[s] = "stopped"

-----------------------------------------------------------------------------
(* _drain: the first signal flips readiness and tells every server.  A     *)
(* second one finds ready FALSE and does nothing.                          *)
drain == /\ ready
         /\ ready' = FALSE
         /\ should_exit' = [s \in Servers |-> TRUE]

(* gather returns when every serve() has.                                  *)
AllStopped == \A s \in Servers : server[s] = "stopped"

(* What /readyz answers, as the load balancer takes it.                    *)
Answer == IF ready THEN "in" ELSE "out"

-----------------------------------------------------------------------------
(* The signal handlers are in place and the servers begin to start.        *)
Install == /\ process = "starting"
           /\ process' = "serving"
           /\ UNCHANGED <<ready, should_exit, server, balancer, request>>

(* A signal before that finds the default handler.                         *)
SignalEarly == /\ process = "starting"
               /\ process' = "killed"
               /\ UNCHANGED <<ready, should_exit, server, balancer, request>>

Signal == /\ process \in {"serving", "unwinding"}
          /\ drain \/ (~ready /\ UNCHANGED <<ready, should_exit>>)
          /\ UNCHANGED <<process, server, balancer, request>>

Startup(s) ==
  /\ process = "serving"
  /\ server[s] = "startup"
  /\ server' = [server EXCEPT ![s] = IF should_exit[s] THEN "stopped" ELSE "running"]
  /\ UNCHANGED <<process, ready, should_exit, balancer, request>>

(* The port of s is taken: SystemExit tears down the event loop and with   *)
(* it every open request.                                                  *)
BindFails(s) ==
  /\ process = "serving"
  /\ server[s] = "startup"
  /\ process' = "unwinding"
  /\ server' = [t \in Servers |-> IF t = s THEN "failed" ELSE "stopped"]
  /\ request' = [r \in Requests |-> IF r \in Open THEN "dropped" ELSE request[r]]
  /\ UNCHANGED <<ready, should_exit, balancer>>

(* uvicorn's main loop sees should_exit and closes the listening socket.   *)
Close(s) ==
  /\ server[s] = "running"
  /\ should_exit[s]
  /\ server' = [server EXCEPT ![s] = "closing"]
  /\ UNCHANGED <<process, ready, should_exit, balancer, request>>

(* uvicorn has seen its open requests end.  It has been given no deadline  *)
(* for that (no timeout_graceful_shutdown).                                *)
Stop(s) ==
  /\ server[s] = "closing"
  /\ s = "main" => Open = {}
  /\ server' = [server EXCEPT ![s] = "stopped"]
  /\ UNCHANGED <<process, ready, should_exit, balancer, request>>

GatherReturns ==
  /\ process = "serving"
  /\ AllStopped
  /\ process' = "unwinding"
  /\ UNCHANGED <<ready, should_exit, server, balancer, request>>

(* The finally of _serve: lib.aclose().                                    *)
Exit == /\ process = "unwinding"
        /\ process' = "exited"
        /\ UNCHANGED <<ready, should_exit, server, balancer, request>>

(* The load balancer asks /readyz; no answer counts as not ready.          *)
Probe ==
  /\ balancer' = IF server["main"] = "running" THEN Answer ELSE "out"
  /\ UNCHANGED <<process, ready, should_exit, server, request>>

(* It sends a request while it has the instance in rotation.               *)
Send(r) ==
  /\ request[r] = "none"
  /\ balancer = "in"
  /\ request' = [request EXCEPT ![r] = IF server["main"] = "running"
                                       THEN "open" ELSE "refused"]
  /\ UNCHANGED <<process, ready, should_exit, server, balancer>>

(* The answer of r is complete; of a stream, when its client leaves.       *)
Finish(r) ==
  /\ request[r] = "open"
  /\ request' = [request EXCEPT ![r] = "done"]
  /\ UNCHANGED <<process, ready, should_exit, server, balancer>>

Over == process \in {"exited", "killed"} /\ UNCHANGED vars

Next == \/ Install \/ SignalEarly \/ Signal
        \/ \E s \in Servers : Startup(s) \/ BindFails(s) \/ Close(s) \/ Stop(s)
        \/ GatherReturns \/ Exit
        \/ Probe
        \/ \E r \in Requests : Send(r) \/ Finish(r)
        \/ Over

Spec == Init /\ [][Next]_vars

(* The event loop runs what is due, and a request that is answered ends,   *)
(* because its upstream calls are cut off by their timeouts.  No signal is *)
(* assumed to come, no request to arrive and no client to leave a stream.  *)
Fairness ==
  /\ WF_vars(GatherReturns) /\ WF_vars(Exit)
  /\ \A s \in Servers : WF_vars(Startup(s)) /\ WF_vars(Close(s)) /\ WF_vars(Stop(s))
  /\ \A r \in Requests \ Streams : WF_vars(Finish(r))

FairSpec == Spec /\ Fairness

-----------------------------------------------------------------------------
(* "Let in-flight requests finish, then exit" (DESIGN 7.2): the process    *)
(* leaves run_http, and so closes the client the handlers call upstreams   *)
(* with, only when no request is open; nothing but a port that cannot be   *)
(* bound cuts a request off.                                               *)
InFlightFinish ==
  /\ process \in {"unwinding", "exited"} => Open = {}
  /\ (\E r \in Requests : request[r] = "dropped") => \E s \in Servers : server[s] = "failed"

(* A drain is final for the load balancer: from the moment a server has    *)
(* been told to exit, whatever is starting, running or closing, no answer  *)
(* of /readyz takes the instance into rotation again.                      *)
OutOfRotationForGood ==
  [][(\E s \in Servers : should_exit[s]) /\ balancer = "out" => balancer' = "out"]_vars

(* A drained process exits, whatever was starting, open or closing when    *)
(* the signal came, provided that no client keeps a stream open for ever.  *)
DrainEnds ==
  <>[](\A r \in Streams : request[r] # "open") => (~ready ~> process = "exited")

(* "Flip readiness to 503 first so a load balancer drains us" (comment in  *)
(* _drain): where the socket is closed by a drain, and not because a port  *)
(* could not be bound, the balancer is told before it is turned away.      *)
BalancerToldFirst ==
  (\E r \in Requests : request[r] = "refused") => \E s \in Servers : server[s] = "failed"
=============================================================================
