------------------------------ MODULE Telemetry -------------------------------
(***************************************************************************)
(* main around the application: the exporters of the telemetry are built   *)
(* before it, and flushed after it on a blocking thread that main waits    *)
(* for at most ten seconds.                                                *)
(*                                                                         *)
(* The settings are those TelemetryConfig accepts (Configuration): an      *)
(* endpoint whenever something is exported. What the providers hold is     *)
(* reduced to whether some of it has not been exported. The application    *)
(* is a step that ends well or not (Application).                          *)
(***************************************************************************)
EXTENDS Naturals

CONSTANT Hangs   \* the collector may keep a flush waiting for ever

VARIABLES config,     \* what TelemetryConfig holds
          step,       \* where main is
          provider,   \* signal -> "off", "on" or "closed"
          pending,    \* signals with data that is not exported
          refused,    \* signals whose shutdown returned an error, logged
          blocking,   \* the blocking thread: "none", the signal it shuts down, "done"
          result      \* what main returns

vars == <<config, step, provider, pending, refused, blocking, result>>

Signals == {"traces", "metrics"}

\* headers: those that are not metadata of gRPC are "odd"; endpoint: a URL or not.
Configs == [enabled : SUBSET Signals, protocol : {"grpc", "http/protobuf"},
            headers : {"none", "plain", "odd"}, endpoint : {"url", "text"}]

Steps == {"traces", "metrics", "build", "run", "flush", "drop", "exited"}

TypeOK ==
  /\ config \in Configs /\ step \in Steps
  /\ provider \in [Signals -> {"off", "on", "closed"}]
  /\ pending \subseteq {s \in Signals : provider[s] # "off"}
  /\ refused \subseteq {s \in Signals : provider[s] = "closed"}
  /\ blocking \in Signals \union {"none", "done"}
  /\ result \in {"none", "ok", "error"}

Init ==
  /\ config \in Configs
  /\ step = "traces" /\ provider = [s \in Signals |-> "off"]
  /\ pending = {} /\ refused = {} /\ blocking = "none" /\ result = "none"

----------------------------------------------------------------------------
(* init *)

\* A header that is not metadata fails gRPC; HTTP takes the map as it is.
SpanExporterBuilds(c) ==
  c.endpoint = "url" /\ (c.protocol = "grpc" => c.headers # "odd")

\* The same settings, through a builder of its own.
MetricExporterBuilds(c) ==
  c.endpoint = "url" /\ (c.protocol = "grpc" => c.headers # "odd")

Return(r) == step' = "drop" /\ result' = r

InitTraces ==
  /\ step = "traces"
  /\ \/ /\ "traces" \in config.enabled /\ SpanExporterBuilds(config)
        /\ provider' = [provider EXCEPT !["traces"] = "on"] /\ step' = "metrics" /\ UNCHANGED result
     \/ /\ "traces" \in config.enabled /\ ~SpanExporterBuilds(config)
        /\ Return("error") /\ UNCHANGED provider
     \/ /\ "traces" \notin config.enabled
        /\ step' = "metrics" /\ UNCHANGED <<provider, result>>
  /\ UNCHANGED <<config, pending, refused, blocking>>

InitMetrics ==
  /\ step = "metrics"
  /\ \/ /\ "metrics" \in config.enabled /\ MetricExporterBuilds(config)
        /\ provider' = [provider EXCEPT !["metrics"] = "on"] /\ step' = "build" /\ UNCHANGED result
     \/ /\ "metrics" \in config.enabled /\ ~MetricExporterBuilds(config)
        /\ Return("error") /\ UNCHANGED provider
     \/ /\ "metrics" \notin config.enabled
        /\ step' = "build" /\ UNCHANGED <<provider, result>>
  /\ UNCHANGED <<config, pending, refused, blocking>>

----------------------------------------------------------------------------
(* The application *)

\* A span ends or a gauge is recorded. Metrics are sampled by a task of run.
Record(s) ==
  /\ provider[s] = "on" /\ step \in {"build", "run"} /\ (s = "metrics" => step = "run")
  /\ pending' = pending \union {s}
  /\ UNCHANGED <<config, step, provider, refused, blocking, result>>

\* The batch of the spans, the period of the reader.
Export(s) ==
  /\ s \in pending /\ provider[s] = "on"
  /\ pending' = pending \ {s}
  /\ UNCHANGED <<config, step, provider, refused, blocking, result>>

AppStep ==
  /\ \/ step = "build" /\ step' = "run"
     \/ step = "run" /\ step' = "flush"
  /\ UNCHANGED <<config, provider, pending, refused, blocking, result>>

\* AppConfig::from_env, build or run returns an error: so does main.
AppFails ==
  /\ step \in {"build", "run"} /\ Return("error")
  /\ UNCHANGED <<config, provider, pending, refused, blocking>>

----------------------------------------------------------------------------
(* The flush *)

SpawnFlush ==
  /\ step = "flush" /\ blocking = "none" /\ blocking' = "traces"
  /\ UNCHANGED <<config, step, provider, pending, refused, result>>

After(s) == IF s = "traces" THEN "metrics" ELSE "done"

\* The provider flushes and closes; its error is logged.
Shutdown(s) ==
  /\ blocking = s /\ blocking' = After(s)
  /\ \/ provider[s] = "off" /\ UNCHANGED <<provider, pending, refused>>
     \/ /\ provider[s] = "on" /\ provider' = [provider EXCEPT ![s] = "closed"]
        /\ \/ pending' = pending \ {s} /\ UNCHANGED refused
           \/ refused' = refused \union {s} /\ UNCHANGED pending
  /\ UNCHANGED <<config, step, result>>

Flushed ==
  /\ step = "flush" /\ blocking = "done" /\ Return("ok")
  /\ UNCHANGED <<config, provider, pending, refused, blocking>>

\* Ten seconds later main goes on without it.
FlushTimeout ==
  /\ step = "flush" /\ blocking \in Signals /\ Return("ok")
  /\ UNCHANGED <<config, provider, pending, refused, blocking>>

\* The runtime that main returns to is dropped: tokio waits for a blocking
\* thread that has started.
DropRuntime ==
  /\ step = "drop" /\ blocking \notin Signals /\ step' = "exited"
  /\ UNCHANGED <<config, provider, pending, refused, blocking, result>>

Next ==
  \/ InitTraces \/ InitMetrics \/ AppStep \/ AppFails
  \/ SpawnFlush \/ Flushed \/ FlushTimeout \/ DropRuntime
  \/ \E s \in Signals : Record(s) \/ Export(s) \/ Shutdown(s)

Spec == Init /\ [][Next]_vars

\* main and tokio run; a provider shuts down in the end unless the collector
\* can hang it. Nothing makes the application end.
Fairness ==
  /\ WF_vars(InitTraces) /\ WF_vars(InitMetrics) /\ WF_vars(SpawnFlush)
  /\ WF_vars(Flushed) /\ WF_vars(FlushTimeout) /\ WF_vars(DropRuntime)
  /\ ~Hangs => \A s \in Signals : WF_vars(Shutdown(s))

FairSpec == Spec /\ Fairness

----------------------------------------------------------------------------
(* Properties *)

\* A start that an exporter refuses leaves no provider behind: both are built
\* from one set of settings, so the first that is enabled refuses them.
NoHalfInit ==
  [][(step \in {"traces", "metrics"} /\ step' = "drop") => (\A s \in Signals : provider[s] = "off")]_vars

\* A process that ends well has given both providers their chance, whatever
\* the first one answered and however long it took: what is left is what a
\* provider refused to send.
FlushedAtExit == step = "exited" /\ result = "ok" => pending \subseteq refused

\* The two together: no exporter is left half-built and no flush is left out.
SignalsAreTrue == [](TypeOK /\ FlushedAtExit) /\ NoHalfInit

\* Once the application has ended so does the process. It takes a
\* collector that answers: the timeout gives up waiting for the thread, and the
\* runtime then waits for it.
FlushEnds == step = "flush" ~> step = "exited"
===============================================================================
