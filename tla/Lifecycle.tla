----------------------------- MODULE Lifecycle -----------------------------
(***************************************************************************)
(* Start and stop of a gateway: the main thread (gateway.py,               *)
(* application_context.py, gateway_runner.py, shutdown_coordinator.py),    *)
(* and the signal (startup_gate.py) by which the worker of the             *)
(* synchronisation tells the event loop of the main thread that the cache  *)
(* is loaded.                                                              *)
(***************************************************************************)
EXTENDS Integers, Sequences, SequencesExt

CONSTANTS
    MaxRuns,   \* bound: turns of run_forever
    MaxMishaps \* bound: failures

ASSUME LifecycleAssumption == MaxRuns \in Nat /\ MaxMishaps \in Nat

\* In the order of start().
Order == <<"subscriber", "log", "sync", "cold">>
Services == {"pool", "subscriber", "log", "sync", "cold"}
\* on_unavailable; "none": await_ready or enabled is false.
Policies == {"warn", "fail", "none"}

VARIABLES
    main,      \* where the main thread is
    todo,      \* the services that start() has still to start
    up,        \* the services that run
    registered,\* _components of the ShutdownCoordinator
    stuck,     \* history: services whose stop failed
    claimed,   \* the process owns the cache
    policy,    \* configuration
    reuse,     \* skip_data_load
    loader,    \* the worker of the synchronisation
    loaded,    \* it has been through the tables and the publication, also
               \* if some of that failed
    flag,      \* _event of the signal
    bound,     \* _loop of the signal
    waiter,    \* the future of the waiting loop: "asleep" if the loop polls
               \* for events, "missed" if the future is done but it still does
    callback,  \* call_soon_threadsafe
    phase,     \* of the StartupGate
    channels,  \* the channels are open
    exitCode, runs, mishaps

signal == <<flag, bound, waiter, callback>>
process == <<todo, up, registered, stuck, claimed, policy, reuse>>
gatewayVars ==
    <<main, process, loader, loaded, signal, phase, channels, exitCode, runs,
      mishaps>>

Starting == {"pool", "schema", "services", "port", "prepare"}
Waiting == {"bind", "check", "wait"}
Working == {"vectors", "run", "agent", "finally", "backoff", "stop", "exit"}

LifecycleTypeOK ==
    /\ main \in Starting \cup Waiting \cup Working
    /\ todo \in Seq(Services) /\ registered \in Seq(Services)
    /\ up \in SUBSET Services /\ stuck \in SUBSET Services
    /\ policy \in Policies
    /\ loader \in {"none", "load", "set", "direct", "call", "cycle", "gone"}
    /\ waiter \in {"none", "future", "asleep", "done", "missed"}
    /\ phase \in {"pending", "cache_ready", "vectors_ready", "unavailable"}
    /\ \A b \in {claimed, reuse, loaded, flag, bound, callback, channels} : b \in BOOLEAN
    /\ exitCode \in 0..2 /\ runs \in 0..MaxRuns /\ mishaps \in 0..MaxMishaps
    /\ waiter # "none" => main = "wait"

Mishap == mishaps < MaxMishaps /\ mishaps' = mishaps + 1
Go(place) == main' = place /\ UNCHANGED <<exitCode, mishaps>>
\* An exception that nobody catches before main(): stop() is not called.
Leave(code) == main' = "exit" /\ exitCode' = code /\ Mishap

-----------------------------------------------------------------------------
\* ApplicationContext.start.

StartPool ==
    /\ main = "pool"
    /\ up' = up \cup {"pool"}
    /\ Go("schema")
    /\ UNCHANGED <<todo, registered, stuck, claimed, policy, reuse, loader, loaded,
                   signal, phase, channels, runs>>

\* _validate_runtime_schema, between the pool and the services.
Validate ==
    /\ main = "schema"
    /\ Go("services") \/ Leave(2)
    /\ UNCHANGED <<process, loader, loaded, signal, phase, channels, runs>>

\* A service that does not start is left out, except the log.
StartService ==
    /\ main = "services"
    /\ todo # <<>>
    /\ todo' = Tail(todo)
    /\ LET s == Head(todo) IN
       \/ /\ ~(s = "sync" /\ reuse)
          /\ up' = up \cup {s} /\ registered' = Append(registered, s)
          /\ loader' = IF s = "sync" THEN "load" ELSE loader
          /\ UNCHANGED mishaps
       \/ /\ s = "sync" /\ reuse
          /\ UNCHANGED <<up, registered, loader, mishaps>>
       \/ /\ s # "log" /\ ~(s = "sync" /\ reuse) /\ Mishap
          /\ UNCHANGED <<up, registered, loader>>
    /\ UNCHANGED <<main, stuck, claimed, policy, reuse, loaded, signal, phase, channels,
                   exitCode, runs>>

Started ==
    /\ main = "services" /\ todo = <<>>
    /\ Go("port")
    /\ UNCHANGED <<process, loader, loaded, signal, phase, channels, runs>>

\* _check_websocket_port_available
CheckPort ==
    /\ main = "port"
    /\ Go("prepare") \/ Leave(1)
    /\ UNCHANGED <<process, loader, loaded, signal, phase, channels, runs>>

-----------------------------------------------------------------------------
\* The signal: set() in the worker, wait() in the event loop.

\* Variant: the signal is given before the snapshot is published.
LoadAfterSignal ==
    /\ loader \in {"load", "cycle"} /\ (loader = "cycle" => ~loaded)
    /\ loader' = IF loader = "load" THEN "set" ELSE "cycle"
    /\ loaded' = (loader = "cycle")
    /\ UNCHANGED <<main, process, signal, phase, channels, exitCode, runs, mishaps>>

\* The first cycle: the load and its publication.
Load ==
    /\ loader = "load"
    /\ loader' = "set" /\ loaded' = TRUE
    /\ UNCHANGED <<main, process, signal, phase, channels, exitCode, runs, mishaps>>

\* set() reads _loop ...
LoopOpen == bound /\ main \in Waiting
ReadLoop ==
    /\ loader = "set"
    /\ loader' = IF LoopOpen THEN "call" ELSE "direct"
    /\ UNCHANGED <<main, process, loaded, signal, phase, channels, exitCode, runs, mishaps>>

\* ... and asks the loop to set the event, or sets it itself; a future that is
\* done this way does not wake a loop that is asleep.
CallLoop ==
    /\ loader = "call"
    /\ IF LoopOpen THEN callback' = TRUE /\ loader' = "cycle"
       ELSE loader' = "direct" /\ UNCHANGED callback
    /\ UNCHANGED <<main, process, loaded, flag, bound, waiter, phase, channels,
                   exitCode, runs, mishaps>>

SetEvent ==
    /\ loader = "direct"
    /\ flag' = TRUE
    /\ waiter' = IF waiter = "future" THEN "done"
                 ELSE IF waiter = "asleep" THEN "missed" ELSE waiter
    /\ loader' = "cycle"
    /\ UNCHANGED <<main, process, loaded, bound, callback, phase, channels, exitCode,
                   runs, mishaps>>

\* Variant: the signal is given after the first cycle only.
AgainSilent == "cycle"
\* After every cycle the callback gives the signal again.
Again == "set"

Cycle ==
    /\ loader = "cycle"
    /\ loader' = Again
    /\ UNCHANGED <<main, process, loaded, signal, phase, channels, exitCode, runs, mishaps>>

\* The worker ends, for instance without a valid claim.
LoaderEnds ==
    /\ loader = "cycle"
    /\ Mishap
    /\ loader' = "gone"
    /\ UNCHANGED <<main, process, loaded, signal, phase, channels, exitCode, runs>>

\* _run_startup_preparation
Prepare ==
    /\ main = "prepare"
    /\ Go(IF policy = "none" THEN "run" ELSE "bind")
    /\ UNCHANGED <<process, loader, loaded, signal, phase, channels, runs>>

Bind ==
    /\ main = "bind"
    /\ bound' = TRUE
    /\ Go("check")
    /\ UNCHANGED <<process, loader, loaded, flag, waiter, callback, phase, channels, runs>>

\* Event.wait: the flag, and a future if it is not set.
CheckFlag ==
    /\ main = "check"
    /\ IF flag THEN Go("vectors") /\ phase' = "cache_ready" /\ UNCHANGED waiter
       ELSE Go("wait") /\ waiter' = "future" /\ UNCHANGED phase
    /\ UNCHANGED <<process, loader, loaded, flag, bound, callback, channels, runs>>

\* The loop has nothing to do; it polls without a timeout.
Sleep ==
    /\ waiter = "future" /\ ~callback
    /\ waiter' = "asleep"
    /\ UNCHANGED <<main, process, loader, loaded, flag, bound, callback, phase, channels,
                   exitCode, runs, mishaps>>

Wake ==
    /\ main = "wait"
    /\ callback \/ waiter = "done"
    /\ flag' = TRUE /\ callback' = FALSE /\ waiter' = "none"
    /\ phase' = "cache_ready"
    /\ Go("vectors")
    /\ UNCHANGED <<process, loader, loaded, bound, channels, runs>>

\* load_vectors
LoadVectors ==
    /\ main = "vectors"
    /\ \/ phase' = "vectors_ready" /\ Go("run")
       \/ /\ phase' = "unavailable"
          /\ IF policy = "fail" THEN Leave(2)
             ELSE main' = "run" /\ Mishap /\ UNCHANGED exitCode
    /\ UNCHANGED <<process, loader, loaded, signal, channels, runs>>

-----------------------------------------------------------------------------
\* GatewayRunner.run_forever and gateway._run.

\* The channels cannot be created: run_forever tries again.
RunFails ==
    /\ main = "run"
    /\ Mishap
    /\ main' = "backoff"
    /\ UNCHANGED <<process, loader, loaded, signal, phase, channels, exitCode, runs>>

OpenChannels ==
    /\ main = "run"
    /\ runs < MaxRuns /\ runs' = runs + 1
    /\ channels' = TRUE
    /\ Go("agent")
    /\ UNCHANGED <<process, loader, loaded, signal, phase>>

\* agent.run returns, is cancelled or raises: _run does not tell.
AgentEnds ==
    /\ main = "agent"
    /\ Go("finally")
    /\ UNCHANGED <<process, loader, loaded, signal, phase, channels, runs>>

\* The finally clause; an exception in it is one of run_once.
CloseChannels ==
    /\ main = "finally"
    /\ channels' = FALSE
    /\ Go("stop") \/ (main' = "backoff" /\ Mishap /\ UNCHANGED exitCode)
    /\ UNCHANGED <<process, loader, loaded, signal, phase, runs>>

\* The pause, which Ctrl+C ends with an exception.
Backoff ==
    /\ main = "backoff"
    /\ \/ main' = "run" /\ UNCHANGED exitCode
       \/ main' = "stop" /\ exitCode' = 1
    /\ UNCHANGED <<process, loader, loaded, signal, phase, channels, runs, mishaps>>

-----------------------------------------------------------------------------
\* ApplicationContext.stop.

\* Variant: the services are stopped in the order of their start.
NextToStopFirst == 1
\* shutdown_all: in the reverse order of registration.
NextToStop == Len(registered)

\* Variant: a service whose stop fails ends the shutdown.
AfterFailureEnd(rest) == <<>>
\* An exception of one stop() does not keep the others from being stopped.
AfterFailure(rest) == rest

\* stop() of a service may fail, and its thread may outlive the join.
StopService ==
    /\ main = "stop"
    /\ registered # <<>>
    /\ LET s == registered[NextToStop]
           rest == RemoveAt(registered, NextToStop)
       IN \/ /\ registered' = rest /\ up' = up \ {s}
             /\ loader' = IF s = "sync" THEN "gone" ELSE loader
             /\ UNCHANGED <<stuck, mishaps>>
          \/ /\ Mishap /\ stuck' = stuck \cup {s}
             /\ registered' = AfterFailure(rest)
             /\ UNCHANGED <<up, loader>>
    /\ UNCHANGED <<main, todo, claimed, policy, reuse, loaded, signal, phase, channels,
                   exitCode, runs>>

\* The claim is released, and the pool closed after that.
Stopped ==
    /\ main = "stop" /\ registered = <<>>
    /\ claimed' = FALSE /\ up' = up \ {"pool"}
    /\ Go("exit")
    /\ UNCHANGED <<todo, registered, stuck, policy, reuse, loader, loaded, signal, phase,
                   channels, runs>>

-----------------------------------------------------------------------------
\* create() has claimed the cache.  With a young snapshot nothing is loaded and
\* the signal is given at once.
LifecycleInit ==
    /\ main = "pool" /\ todo = Order /\ up = {} /\ registered = <<>> /\ stuck = {}
    /\ claimed = TRUE /\ policy \in Policies /\ reuse \in BOOLEAN
    /\ loader = "none" /\ loaded = FALSE
    /\ flag = reuse /\ bound = FALSE /\ waiter = "none" /\ callback = FALSE
    /\ phase = "pending" /\ channels = FALSE
    /\ exitCode = 0 /\ runs = 0 /\ mishaps = 0

Loader == Load \/ ReadLoop \/ CallLoop \/ SetEvent \/ Cycle
Loop == Bind \/ CheckFlag \/ Sleep \/ Wake

LifecycleNext ==
    \/ StartPool \/ Validate \/ StartService \/ Started \/ CheckPort
    \/ Loader \/ LoaderEnds \/ Prepare \/ Loop \/ LoadVectors
    \/ RunFails \/ OpenChannels \/ AgentEnds \/ CloseChannels \/ Backoff
    \/ StopService \/ Stopped

LifecycleSpec == LifecycleInit /\ [][LifecycleNext]_gatewayVars
\* The worker and the event loop run.
FairLifecycleSpec == LifecycleSpec /\ WF_gatewayVars(Loader) /\ WF_gatewayVars(Loop)

-----------------------------------------------------------------------------
\* Properties.

\* While the worker lives, the wait for the cache ends, whatever the order in
\* which set() and wait() see the loop and the flag.
StartupEnds == main \in Waiting ~> main \notin Waiting \/ loader \in {"none", "gone"}

\* Questions are accepted after the pass over the tables and its publication,
\* and after the vectors were built or found unavailable, unless the
\* configuration does not wait; also after a restart.
ChannelsWaitForCache ==
    channels /\ policy # "none" =>
      /\ loaded \/ reuse
      /\ phase = "vectors_ready" \/ (phase = "unavailable" /\ policy = "warn")

\* Whoever writes to the log or uses the pool stops before them.
UsersStopFirst ==
    \A s \in {"sync", "cold"} \cap up :
      s \notin stuck /\ main # "exit" => {"log", "pool"} \ stuck \subseteq up

\* A gateway that ends by itself has stopped what it started, and its cache is
\* free for the next owner.
CleanExit == main = "exit" /\ exitCode = 0 => up \subseteq stuck /\ ~claimed

\* The three of them.
StartsAndStopsInOrder == ChannelsWaitForCache /\ UsersStopFirst /\ CleanExit

=============================================================================
