-------------------------- MODULE ApiServerProcess --------------------------
(***************************************************************************)
(* The life of one API server process (cmd/apiserver): main builds the     *)
(* read model, starts a goroutine for the probe listener and one for the   *)
(* API listener, waits for a signal, drains the API listener within a      *)
(* bounded time, then the probe listener with what is left of that time,   *)
(* and returns.  Either goroutine ends the process when it fails, whatever *)
(* main is doing; so does a second signal.  net/http's Shutdown and Serve, *)
(* clients and the operating system are external.                          *)
(***************************************************************************)
EXTENDS Naturals

CONSTANTS
    ApiRequests,    \* requests clients may make of the API listener
    ProbeRequests   \* requests the kubelet may make of the probe listener

ASSUME DisjointRequests == ApiRequests \cap ProbeRequests = {}

Servers == {"api", "probe"}

Requests == ApiRequests \cup ProbeRequests

ServerOf(q) == IF q \in ApiRequests THEN "api" ELSE "probe"

VARIABLES
    main,      \* where main is
    server,    \* server[s]: where the goroutine of s is
    shut,      \* servers whose Shutdown has been called
    request,   \* request[q]: where a request is
    signals,   \* signals delivered; the handler reacts to the first two
    timer,     \* shutdownCtx: not started, running or expired
    exit       \* how the process ended

vars == <<main, server, shut, request, signals, timer, exit>>

Running == "running"   \* exit, while the process lives
Success == "0"
Failure == "1"

MainStages == {"building", "waiting", "drainApi", "drainProbe"}

ServerStages == {"unstarted", "binding", "bindFailed", "bound", "serving",
                 "serveFailed", "returned"}

RequestStages == {"none", "active", "done", "cut"}

TypeOK ==
    /\ main \in MainStages
    /\ server \in [Servers -> ServerStages]
    /\ shut \in SUBSET Servers
    /\ request \in [Requests -> RequestStages]
    /\ signals \in 0..2
    /\ timer \in {"unset", "running", "expired"}
    /\ exit \in {Running, Success, Failure}

Init ==
    /\ main = "building"
    /\ server = [s \in Servers |-> "unstarted"]
    /\ shut = {}
    /\ request = [q \in Requests |-> "none"]
    /\ signals = 0
    /\ timer = "unset"
    /\ exit = Running

(* The process ends: what is still being served is cut off.                *)
Exits(code) ==
    /\ exit' = code
    /\ request' = [q \in Requests |-> IF request[q] = "active" THEN "cut" ELSE request[q]]

-----------------------------------------------------------------------------
(* main                                                                    *)

(* buildReadModel: an unknown backend, or no cluster configuration.        *)
BuildFails ==
    /\ main = "building"
    /\ Exits(Failure)
    /\ UNCHANGED <<main, server, shut, signals, timer>>

(* The signal handler is installed and both goroutines are started.        *)
Start ==
    /\ main = "building"
    /\ main' = "waiting"
    /\ server' = [s \in Servers |-> "binding"]
    /\ UNCHANGED <<shut, request, signals, timer, exit>>

(* <-ctx.Done(), the deadline is set, httpSrv.Shutdown is called.          *)
BeginDrain ==
    /\ main = "waiting"
    /\ signals > 0
    /\ main' = "drainApi"
    /\ timer' = "running"
    /\ shut' = shut \cup {"api"}
    /\ UNCHANGED <<server, request, signals, exit>>

Quiet(s) == \A q \in Requests : ServerOf(q) = s => request[q] # "active"

(* Seeded bug: main does not wait for the API listener to drain.           *)
ApiDrainedAtOnce == main = "drainApi"

ApiDrained == main = "drainApi" /\ Quiet("api")

(* Shutdown has returned nil: probeSrv.Shutdown is called.                 *)
DrainProbe ==
    /\ ApiDrained
    /\ main' = "drainProbe"
    /\ shut' = shut \cup {"probe"}
    /\ UNCHANGED <<server, request, signals, timer, exit>>

(* Seeded bug: draining waits without a deadline.                          *)
DeadlinePassedNever == FALSE

DeadlinePassed == timer = "expired"

(* Shutdown has returned an error: the deadline has passed since it last   *)
(* looked for open requests, or a listener could not be closed.            *)
DrainFails ==
    /\ main = "drainApi"
    /\ DeadlinePassed \/ Quiet("api")
    /\ Exits(Failure)
    /\ UNCHANGED <<main, server, shut, signals, timer>>

(* The second Shutdown's error is ignored and main returns.                *)
MainReturns ==
    /\ main = "drainProbe"
    /\ Quiet("probe") \/ DeadlinePassed
    /\ Exits(Success)
    /\ UNCHANGED <<main, server, shut, signals, timer>>

-----------------------------------------------------------------------------
(* serve(srv)                                                              *)

Moved(s, from, to) == server[s] = from /\ server' = [server EXCEPT ![s] = to]

Bind(s) ==
    /\ Moved(s, "binding", "bound") \/ Moved(s, "binding", "bindFailed")
    /\ UNCHANGED <<main, shut, request, signals, timer, exit>>

(* Serve on a server that has been shut down returns ErrServerClosed.      *)
Serve(s) ==
    /\ IF s \in shut THEN Moved(s, "bound", "returned") ELSE Moved(s, "bound", "serving")
    /\ UNCHANGED <<main, shut, request, signals, timer, exit>>

(* The listener breaks, or Shutdown has closed it.                         *)
ServeReturns(s) ==
    /\ \/ Moved(s, "serving", "serveFailed")
       \/ s \in shut /\ Moved(s, "serving", "returned")
    /\ UNCHANGED <<main, shut, request, signals, timer, exit>>

(* Seeded bug: a listener that cannot be bound is only logged.             *)
FatalStagesServeOnly == {"serveFailed"}

FatalStages == {"bindFailed", "serveFailed"}

(* The error is logged and os.Exit(1) called.                              *)
ServerExits(s) ==
    /\ server[s] \in FatalStages
    /\ Exits(Failure)
    /\ UNCHANGED <<main, server, shut, signals, timer>>

-----------------------------------------------------------------------------
(* Clients, signals and time.                                              *)

Accept(q) ==
    /\ request[q] = "none"
    /\ server[ServerOf(q)] = "serving"
    /\ ServerOf(q) \notin shut
    /\ request' = [request EXCEPT ![q] = "active"]
    /\ UNCHANGED <<main, server, shut, signals, timer, exit>>

Finish(q) ==
    /\ request[q] = "active"
    /\ request' = [request EXCEPT ![q] = "done"]
    /\ UNCHANGED <<main, server, shut, signals, timer, exit>>

Signal ==
    /\ main # "building"
    /\ signals = 0
    /\ signals' = 1
    /\ UNCHANGED <<main, server, shut, request, timer, exit>>

(* Seeded bug: further signals are counted and ignored.                    *)
SecondSignalIgnored ==
    /\ signals > 0
    /\ signals' = signals + 1
    /\ UNCHANGED <<main, server, shut, request, timer, exit>>

(* ctrl.SetupSignalHandler: the second signal ends the process.            *)
SecondSignal ==
    /\ signals = 1
    /\ signals' = 2
    /\ Exits(Failure)
    /\ UNCHANGED <<main, server, shut, timer>>

Expire ==
    /\ timer = "running"
    /\ timer' = "expired"
    /\ UNCHANGED <<main, server, shut, request, signals, exit>>

-----------------------------------------------------------------------------
Main == BuildFails \/ Start \/ BeginDrain \/ DrainProbe \/ DrainFails \/ MainReturns

Goroutine(s) == Bind(s) \/ Serve(s) \/ ServerExits(s)

(* Nothing happens in a process that has ended.                            *)
Next ==
    /\ exit = Running
    /\ \/ Main \/ Signal \/ SecondSignal \/ Expire
       \/ \E s \in Servers : Goroutine(s) \/ ServeReturns(s)
       \/ \E q \in Requests : Accept(q) \/ Finish(q)

Spec == Init /\ [][Next]_vars

(* Goroutines are scheduled and the deadline passes.  No request need ever *)
(* finish, no listener need ever break, no signal need ever come.          *)
FairSpec ==
    /\ Spec
    /\ WF_vars(exit = Running /\ Main)
    /\ WF_vars(exit = Running /\ Expire)
    /\ \A s \in Servers : WF_vars(exit = Running /\ Goroutine(s))

-----------------------------------------------------------------------------
(* A process that reports success has cut off no API request: every        *)
(* request it accepted was finished (shutdownTimeout "bounds graceful      *)
(* drain of in-flight requests on signal", main.go), although failures of  *)
(* either listener, signals and the deadline race the drain.               *)
SuccessMeansDrained ==
    exit = Success => \A q \in ApiRequests : request[q] \in {"none", "done"}

(* A signal ends the process, even when requests never finish.             *)
SignalStops == signals > 0 ~> exit # Running

(* A listener that cannot be bound or breaks ends the process "instead of  *)
(* silently degrading" (serve, main.go).                                   *)
ListenerFailureStops ==
    \A s \in Servers : server[s] \in {"bindFailed", "serveFailed"} ~> exit # Running
=============================================================================
