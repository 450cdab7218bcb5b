--------------------------- MODULE TransportProofs ---------------------------
(***************************************************************************)
(* The drain of an HTTP process is safe for every set of requests, with    *)
(* and without a metrics server.                                           *)
(***************************************************************************)
EXTENDS Transport, TLAPS

(* A server is told to exit only after readiness has been given up.        *)
ToldToExit == \A s \in Servers : should_exit[s] => ~ready

(* Where the main server stands when run_http has not begun or is left.    *)
MainFollowsProcess ==
  /\ process \in {"starting", "killed"} => server["main"] = "startup"
  /\ process \in {"unwinding", "exited"} => server["main"] \in {"stopped", "failed"}

(* Only a main server that still serves has open requests.                 *)
OpenAreServed == Open # {} => server["main"] \in {"running", "closing"}

DroppedByFailure ==
  (\E r \in Requests : request[r] = "dropped") => \E s \in Servers : server[s] = "failed"

IInv == /\ TypeOK
        /\ ToldToExit
        /\ MainFollowsProcess
        /\ OpenAreServed
        /\ DroppedByFailure

LEMMA MainIsServer == "main" \in Servers
BY DEF Servers

(* Nothing is open, stopped or told to exit.                               *)
LEMMA InitIInv == Init => IInv
BY MainIsServer DEF Init, IInv, TypeOK, ToldToExit, MainFollowsProcess, OpenAreServed,
                    DroppedByFailure, Open

(* The process moves on; the servers and the requests do not.              *)
LEMMA ProcessIInv ==
  ASSUME IInv, Install \/ SignalEarly \/ Signal \/ GatherReturns \/ Exit
  PROVE  IInv'
<1>1. UNCHANGED <<server, balancer, request>>
  BY DEF Install, SignalEarly, Signal, GatherReturns, Exit
<1>2. OpenAreServed' /\ DroppedByFailure'
  BY <1>1 DEF IInv, OpenAreServed, DroppedByFailure, Open
<1>3. TypeOK'
  BY <1>1 DEF IInv, TypeOK, Install, SignalEarly, Signal, drain, GatherReturns, Exit
<1>4. MainFollowsProcess'
  BY <1>1, MainIsServer DEF IInv, MainFollowsProcess, Install, SignalEarly, Signal,
                            GatherReturns, AllStopped, Exit
<1>5. ToldToExit'
  <2>1. CASE Install \/ SignalEarly \/ GatherReturns \/ Exit
    BY <1>1, <2>1 DEF IInv, ToldToExit, MainFollowsProcess, Install, SignalEarly,
                      GatherReturns, Exit
  <2>2. CASE Signal
    BY <1>1, <2>2, MainIsServer DEF IInv, ToldToExit, Signal, drain
  <2> QED BY <2>1, <2>2
<1> QED BY <1>2, <1>3, <1>4, <1>5 DEF IInv

(* A server starts, closes or stops, or cannot be started.                 *)
LEMMA ServerIInv ==
  ASSUME IInv, NEW s \in Servers, Startup(s) \/ BindFails(s) \/ Close(s) \/ Stop(s)
  PROVE  IInv'
<1>1. TypeOK'
  BY DEF IInv, TypeOK, Startup, BindFails, Close, Stop
<1>2. ToldToExit'
  BY MainIsServer DEF IInv, TypeOK, ToldToExit, Startup, BindFails, Close, Stop
<1>3. MainFollowsProcess'
  BY MainIsServer DEF IInv, TypeOK, MainFollowsProcess, Startup, BindFails, Close, Stop
<1>4. OpenAreServed'
  <2>1. CASE BindFails(s)
    BY <2>1 DEF IInv, TypeOK, OpenAreServed, Open, BindFails
  <2>2. CASE Startup(s) \/ Close(s) \/ Stop(s)
    BY <2>2, MainIsServer DEF IInv, TypeOK, OpenAreServed, Open, Startup, Close, Stop
  <2> QED BY <2>1, <2>2
<1>5. DroppedByFailure'
  <2>1. CASE BindFails(s)
    BY <2>1 DEF IInv, TypeOK, DroppedByFailure, BindFails
  <2>2. CASE Startup(s) \/ Close(s) \/ Stop(s)
    <3>1. \A t \in Servers : server[t] = "failed" => server'[t] = "failed"
      BY <2>2 DEF IInv, TypeOK, Startup, Close, Stop
    <3> QED BY <2>2, <3>1 DEF IInv, DroppedByFailure, Startup, Close, Stop
  <2> QED BY <2>1, <2>2
<1> QED BY <1>1, <1>2, <1>3, <1>4, <1>5 DEF IInv

(* The load balancer probes or sends, or a request ends.                   *)
LEMMA RequestIInv ==
  ASSUME IInv, Probe \/ \E r \in Requests : Send(r) \/ Finish(r)
  PROVE  IInv'
<1>1. UNCHANGED <<process, ready, should_exit, server>>
  BY DEF Probe, Send, Finish
<1>2. ToldToExit' /\ MainFollowsProcess'
  BY <1>1 DEF IInv, ToldToExit, MainFollowsProcess
<1>3. TypeOK'
  BY <1>1 DEF IInv, TypeOK, Probe, Answer, Send, Finish
<1>4. OpenAreServed' /\ DroppedByFailure'
  BY <1>1 DEF IInv, TypeOK, OpenAreServed, DroppedByFailure, Open, Probe, Send, Finish
<1> QED BY <1>2, <1>3, <1>4 DEF IInv

LEMMA NextIInv == IInv /\ [Next]_vars => IInv'
<1> SUFFICES ASSUME IInv, [Next]_vars PROVE IInv'
  OBVIOUS
<1>1. CASE Install \/ SignalEarly \/ Signal \/ GatherReturns \/ Exit
  BY <1>1, ProcessIInv
<1>2. ASSUME NEW s \in Servers, Startup(s) \/ BindFails(s) \/ Close(s) \/ Stop(s)
      PROVE  IInv'
  BY <1>2, ServerIInv
<1>3. CASE Probe \/ \E r \in Requests : Send(r) \/ Finish(r)
  BY <1>3, RequestIInv
<1>4. CASE Over \/ UNCHANGED vars
  BY <1>4 DEF Over, vars, IInv, TypeOK, ToldToExit, MainFollowsProcess, OpenAreServed,
              DroppedByFailure, Open
<1> QED BY <1>1, <1>2, <1>3, <1>4 DEF Next

LEMMA SpecIInv == Spec => []IInv
BY InitIInv, NextIInv, PTL DEF Spec

-----------------------------------------------------------------------------
(* The state of the process has its type.                                  *)
THEOREM TransportTypeCorrect == Spec => []TypeOK
BY SpecIInv, PTL DEF IInv

(* run_http is left, and main closes the upstream client, only when no     *)
(* request is open; only a port that cannot be bound cuts requests off.    *)
THEOREM RequestsFinish == Spec => []InFlightFinish
<1>1. IInv => InFlightFinish
  BY DEF IInv, InFlightFinish, MainFollowsProcess, OpenAreServed, DroppedByFailure
<1> QED BY <1>1, SpecIInv, PTL

(* Once a server has been told to exit, readiness has been given up and    *)
(* nothing gives it back: no probe of /readyz puts the instance into       *)
(* rotation again.                                                         *)
THEOREM RotationIsLeftForGood == Spec => OutOfRotationForGood
<1>1. ASSUME IInv, [Next]_vars, NEW s \in Servers, should_exit[s], balancer = "out"
      PROVE  balancer' = "out"
  <2>1. ~ready
    BY <1>1 DEF IInv, ToldToExit
  <2>2. CASE Probe
    BY <2>1, <2>2 DEF Probe, Answer
  <2>3. CASE ~Probe
    BY <1>1, <2>3 DEF Next, vars, Install, SignalEarly, Signal, Startup, BindFails, Close,
                      Stop, GatherReturns, Exit, Send, Finish, Over
  <2> QED BY <2>2, <2>3
<1>2. IInv /\ [Next]_vars
        => [(\E s \in Servers : should_exit[s]) /\ balancer = "out" => balancer' = "out"]_vars
  BY <1>1
<1> QED BY <1>2, SpecIInv, PTL DEF Spec, OutOfRotationForGood
=============================================================================
