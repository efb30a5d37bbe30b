------------------------------ MODULE NodeShim ------------------------------
(***************************************************************************)
(* A Node.js application that the webhook has instrumented with            *)
(* nodejs/otel: NODE_OPTIONS makes node load shim.js, which starts the     *)
(* OpenTelemetry SDK, before the application; here that is the test server *)
(* of the repository (server.js).                                          *)
(*                                                                         *)
(* One thread runs both.  A step is what it runs between two turns of the  *)
(* event loop, up to the promise reactions that follow at once.  The SDK   *)
(* is external: it is modelled as far as the shim relies on it.            *)
(***************************************************************************)
EXTENDS Naturals

CONSTANTS
  Requests,     \* requests to the server, each is made once
  MaxSignals    \* bound on SIGTERMs sent

ASSUME ShimAssumption == MaxSignals \in Nat

VARIABLES
  process,      \* "loading", "running" or "exited"
  code,         \* why it has exited: "none", "handler", "signal", "error"
  tracing,      \* the promise of sdk.start(): "none", "pending", "on", "off"
  shutdown,     \* the promise of sdk.shutdown(): "none" or "pending"
  signals,      \* SIGTERMs sent so far
  delivered,    \* and those of them that the process has handled
  request,      \* "none", "waiting" for a timer, or "answered"
  span          \* of each request: "none", "open", "ended" (in the
                \* processor's buffer), "exported", "failed", or "dropped"

shimVars == <<process, code, tracing, shutdown, signals, delivered, request, span>>

Init ==
  /\ process = "loading"
  /\ code = "none"
  /\ tracing = "none"
  /\ shutdown = "none"
  /\ signals = 0 /\ delivered = 0
  /\ request = [r \in Requests |-> "none"]
  /\ span = [r \in Requests |-> "none"]

Exit(why) == process' = "exited" /\ code' = why

Buffered == {r \in Requests : span[r] = "ended"}

-----------------------------------------------------------------------------
(* shim.js, then server.js, from the first line to the last: the SDK is told *)
(* to start, the handler of SIGTERM is set, the server listens.              *)
Load ==
  /\ process = "loading"
  /\ process' = "running"
  /\ tracing' = "pending"
  /\ UNCHANGED <<code, shutdown, signals, delivered, request, span>>

(* Mutant of StartSettles: nothing catches the error.                        *)
StartErrorUncaught ==
  /\ process = "running"
  /\ tracing = "pending"
  /\ \/ tracing' = "on"  /\ UNCHANGED <<process, code>>
     \/ tracing' = "off" /\ Exit("error")
  /\ UNCHANGED <<shutdown, signals, delivered, request, span>>

(* sdk.start() settles, either way; the shim only logs it.                   *)
StartSettles ==
  /\ process = "running"
  /\ tracing = "pending"
  /\ tracing' \in {"on", "off"}
  /\ UNCHANGED <<process, code, shutdown, signals, delivered, request, span>>

(* Somebody, the kubelet for one, sends SIGTERM.                             *)
Signal ==
  /\ process # "exited"
  /\ signals < MaxSignals
  /\ signals' = signals + 1
  /\ UNCHANGED <<process, code, tracing, shutdown, delivered, request, span>>

(* No handler is set yet: the signal ends the process, or, when it is the    *)
(* first process of its container, is lost.                                  *)
DefaultHandler ==
  /\ process = "loading"
  /\ delivered < signals
  /\ delivered' = delivered + 1
  /\ Exit("signal") \/ UNCHANGED <<process, code>>
  /\ UNCHANGED <<tracing, shutdown, signals, request, span>>

(* Mutant of OnSigterm: the process does not wait for the shutdown.          *)
OnSigtermAtOnce ==
  /\ process = "running"
  /\ delivered < signals
  /\ delivered' = delivered + 1
  /\ shutdown' = "pending"
  /\ Exit("handler")
  /\ UNCHANGED <<tracing, signals, request, span>>

(* The handler calls sdk.shutdown(); a second call gets the promise of the   *)
(* first.                                                                    *)
OnSigterm ==
  /\ process = "running"
  /\ delivered < signals
  /\ delivered' = delivered + 1
  /\ shutdown' = "pending"
  /\ UNCHANGED <<process, code, tracing, signals, request, span>>

Flushed(result) == [r \in Requests |-> IF r \in Buffered THEN result ELSE span[r]]

(* Mutant of ShutdownSettles: the process exits after a success only.        *)
ExitOnSuccessOnly ==
  /\ process = "running"
  /\ shutdown = "pending"
  /\ \/ span' = Flushed("exported") /\ Exit("handler") /\ UNCHANGED shutdown
     \/ span' = Flushed("failed") /\ shutdown' = "none" /\ UNCHANGED <<process, code>>
  /\ UNCHANGED <<tracing, signals, delivered, request>>

(* The shutdown is done once what was buffered has been exported, or that    *)
(* has failed.  then or catch, and finally, follow at once.                  *)
ShutdownSettles ==
  /\ process = "running"
  /\ shutdown = "pending"
  /\ \E result \in {"exported", "failed"} : span' = Flushed(result)
  /\ Exit("handler")
  /\ UNCHANGED <<tracing, shutdown, signals, delivered, request>>

(* The processor exports what has been buffered for a while.                 *)
Export ==
  /\ process = "running"
  /\ Buffered # {}
  /\ \E result \in {"exported", "failed"} : span' = Flushed(result)
  /\ UNCHANGED <<process, code, tracing, shutdown, signals, delivered, request>>

-----------------------------------------------------------------------------
(* server.js; the instrumentation opens a span for each request while the    *)
(* SDK is on, and ends it with the answer.                                   *)

(* Mutant of Ended: a span whose end depends on the tracing being on still.  *)
EndedUnlessShutDown(r) ==
  IF span[r] = "open" /\ shutdown = "none" THEN "ended" ELSE span[r]

(* A processor that has been shut down drops what ends later.                *)
Ended(r) == IF span[r] # "open" THEN span[r]
            ELSE IF shutdown = "none" THEN "ended" ELSE "dropped"

(* A request arrives.  GET /api/... waits for a timer, GET / is answered at  *)
(* once.                                                                     *)
Get(r) ==
  /\ process = "running"
  /\ request[r] = "none"
  /\ request' = [request EXCEPT ![r] = "waiting"]
  /\ span' = [span EXCEPT ![r] = IF tracing = "on" THEN "open" ELSE "none"]
  /\ UNCHANGED <<process, code, tracing, shutdown, signals, delivered>>

GetRoot(r) ==
  /\ process = "running"
  /\ request[r] = "none"
  /\ request' = [request EXCEPT ![r] = "answered"]
  /\ span' = [span EXCEPT ![r] = IF tracing # "on" THEN "none"
                                 ELSE IF shutdown = "none" THEN "ended" ELSE "dropped"]
  /\ UNCHANGED <<process, code, tracing, shutdown, signals, delivered>>

(* The timer of a request expires, and it is answered, a shutdown or not.    *)
Timer(r) ==
  /\ process = "running"
  /\ request[r] = "waiting"
  /\ request' = [request EXCEPT ![r] = "answered"]
  /\ span' = [span EXCEPT ![r] = Ended(r)]
  /\ UNCHANGED <<process, code, tracing, shutdown, signals, delivered>>

Next ==
  \/ Load \/ StartSettles \/ Signal \/ DefaultHandler \/ OnSigterm
  \/ ShutdownSettles \/ Export
  \/ \E r \in Requests : Get(r) \/ GetRoot(r) \/ Timer(r)

Spec == Init /\ [][Next]_shimVars

(* The event loop comes to whatever is ready; the SDK settles its promises,  *)
(* as its exporter has a timeout.  Nobody has to send signals or requests.   *)
Fairness ==
  /\ WF_shimVars(Load)
  /\ WF_shimVars(StartSettles)
  /\ WF_shimVars(OnSigterm)
  /\ WF_shimVars(ShutdownSettles)
  /\ WF_shimVars(Export)
  /\ \A r \in Requests : WF_shimVars(Timer(r))

FairSpec == Spec /\ Fairness

-----------------------------------------------------------------------------
(* The type invariant, with what ties the variables together: only a         *)
(* process that has ended has a reason, only a handled signal shuts down,    *)
(* only a request in progress has an open span.                              *)
ShimTypeOK ==
  /\ process \in {"loading", "running", "exited"}
  /\ code \in {"none", "handler", "signal", "error"}
  /\ code = "none" <=> process # "exited"
  /\ tracing \in {"none", "pending", "on", "off"}
  /\ shutdown \in {"none", "pending"}
  /\ shutdown = "pending" => delivered > 0
  /\ signals \in 0..MaxSignals /\ delivered \in 0..signals
  /\ request \in [Requests -> {"none", "waiting", "answered"}]
  /\ span \in [Requests -> {"none", "open", "ended", "exported", "failed", "dropped"}]
  /\ \A r \in Requests : span[r] = "open" => request[r] = "waiting"

(* Instrumenting an application must not end it: whatever becomes of the     *)
(* SDK's start, its exports and its shutdown, the process ends only when it  *)
(* was told to (the catch of sdk.start() in shim.js).                        *)
EndsOnlyWhenTold ==
  process = "exited" => delivered > 0 /\ code # "error"

(* When the handler of SIGTERM ends the process, no finished span is still   *)
(* in the buffer: each was exported, or that was tried, or it ended while    *)
(* the shutdown was under way (the promise chain in the handler).            *)
FinishedSpansAreFlushed == code = "handler" => Buffered = {}

(* A SIGTERM that a loaded process has not handled yet ends it: installing a *)
(* handler takes the default away, so whether the shutdown succeeds or fails *)
(* the handler has to exit (finally in shim.js).                             *)
EndsAfterSigterm ==
  (process = "running" /\ delivered < signals) ~> (process = "exited")
=============================================================================
