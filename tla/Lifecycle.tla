------------------------------- MODULE Lifecycle -------------------------------
(***************************************************************************)
(* The process around the handlers: main and runServe or runFetch          *)
(* (cmd/rates-service/main.go), and Service.Run (service/service.go) with  *)
(* its two goroutines, one in ListenAndServe and one that calls Shutdown   *)
(* when the group's context ends.                                          *)
(*                                                                         *)
(* Shutdown closes the listener and then waits, without a deadline, for    *)
(* the handlers under way; their contexts are not derived from the one the *)
(* signal ends (server.go:61-63), so nothing hurries them.                 *)
(***************************************************************************)
EXTENDS ApiRoutes

CONSTANTS
  Settings    \* the environments the process may be started in: see Setting

VARIABLES
  setting,    \* command line and environment
  main,       \* where main is: see Main
  told,       \* an interrupt has arrived
  listener,   \* the goroutine in ListenAndServe: see Listener
  shutdown,   \* the goroutine that waits for ctx.Done: see Shutdown
  connected,  \* the listener has listened: connections may be open
  pool, redis,\* "none", "open" or "closed"
  code        \* exit code, or NoCode

lifeVars == <<setting, main, told, listener, shutdown, connected, pool, redis, code>>
vars     == <<apiVars, config, lifeVars>>

NoCode == -1

(* What main.go and config.Load look at.                                   *)
Setting == [cmd : {"serve", "fetch", "unknown"}, port : Int, concurrency : Int,
            limited : BOOLEAN, selected : Seq(Name)]

ASSUME SettingsAssumption == Settings \subseteq Setting

Main     == {"start", "serving", "fetching", "closing", "closed", "exited", "killed"}
Listener == {"none", "starting", "listening", "returned", "failed"}
Shutdown == {"none", "waiting", "draining", "returned", "failed"}

lifeRest(r) == UNCHANGED <<config, lifeVars>>

Stopped == main \in {"exited", "killed"}

(* Input.Load: all it refuses.                                             *)
LoadFails(s) == s.port < 1 \/ s.port > 65535 \/ s.concurrency < 1

-----------------------------------------------------------------------------

LifeInit ==
  /\ ApiInit
  /\ setting \in Settings
  /\ config = [limited |-> FALSE, currencies |-> <<>>]
  /\ main = "start"
  /\ told = FALSE
  /\ listener = "none"
  /\ shutdown = "none"
  /\ connected = FALSE
  /\ pool  = "none"
  /\ redis = "none"
  /\ code  = NoCode

Exit(c) == main' = "exited" /\ code' = c

(* log.Fatal, for an environment that env.ParseAs cannot parse or Load     *)
(* refuses, whatever the command, or a URI that pgxpool.New does not       *)
(* understand; then the command nobody knows.                              *)
StartFails ==
  /\ main = "start"
  /\ \/ Exit(1)
     \/ ~LoadFails(setting) /\ setting.cmd = "unknown" /\ Exit(2)
  /\ UNCHANGED <<apiVars, config, setting, told, listener, shutdown, connected, pool, redis>>

RunServe ==
  /\ main = "start"
  /\ ~LoadFails(setting)
  /\ setting.cmd = "serve"
  /\ config' = [limited |-> setting.limited, currencies |-> splitCurrencies(setting.selected)]
  /\ main' = "serving"
  /\ listener' = "starting"
  /\ shutdown' = "waiting"
  /\ pool'  = "open"
  /\ redis' = "open"
  /\ UNCHANGED <<apiVars, setting, told, connected, code>>

RunFetch ==
  /\ main = "start"
  /\ ~LoadFails(setting)
  /\ setting.cmd = "fetch"
  /\ config' = [limited |-> FALSE, currencies |-> splitCurrencies(setting.selected)]
  /\ main' = "fetching"
  /\ pool' = "open"
  /\ UNCHANGED <<apiVars, setting, told, listener, shutdown, connected, redis, code>>

(* FetchAndStore has returned, with an error or without (RatesService).    *)
FetchEnds ==
  /\ main = "fetching"
  /\ main' = "closing"
  /\ code' \in {0, 1}
  /\ UNCHANGED <<apiVars, config, setting, told, listener, shutdown, connected, pool, redis>>

(* signal.NotifyContext: a second interrupt changes nothing.               *)
Interrupt ==
  /\ ~Stopped
  /\ ~told
  /\ told' = TRUE
  /\ UNCHANGED <<apiVars, config, setting, main, listener, shutdown, connected, pool, redis, code>>

(* ListenAndServe: the port is taken, or Shutdown came first.              *)
Listen ==
  /\ listener = "starting"
  /\ listener' \in {IF shutdown = "waiting" THEN "listening" ELSE "returned", "failed"}
  /\ connected' = (listener' = "listening")
  /\ UNCHANGED <<apiVars, config, setting, main, told, shutdown, pool, redis, code>>

(* Accept fails for good.                                                  *)
ListenerFails ==
  /\ listener = "listening"
  /\ listener' = "failed"
  /\ UNCHANGED <<apiVars, config, setting, main, told, shutdown, connected, pool, redis, code>>

(* Mutant of GroupCtxEnded: the group is not given the caller's context.   *)
GroupCtxDetached == listener = "failed"

(* The errgroup's context ends with the caller's or with the first error.  *)
GroupCtxEnded    == told \/ listener = "failed"

BeginShutdown ==
  /\ shutdown = "waiting"
  /\ GroupCtxEnded
  /\ shutdown' = "draining"
  /\ listener' = IF listener = "listening" THEN "returned" ELSE listener
  /\ UNCHANGED <<apiVars, config, setting, main, told, connected, pool, redis, code>>

Drained == \A r \in Request : ~Active(r)

(* If it was Shutdown that closed the listener, what it returns when the   *)
(* last handler is done is the error, if any, of that Close.               *)
ShutdownReturns ==
  /\ shutdown = "draining"
  /\ Drained
  /\ \/ shutdown' = "returned"
     \/ shutdown' = "failed" /\ connected /\ listener = "returned"
  /\ UNCHANGED <<apiVars, config, setting, main, told, listener, connected, pool, redis, code>>

ShutdownIsOver == shutdown \in {"returned", "failed"}

(* Mutant of RunIsOver: Run returns with the first of the two goroutines.  *)
RunIsOverEarly == listener \in {"returned", "failed"} \/ ShutdownIsOver
RunIsOver      == listener \in {"returned", "failed"} /\ ShutdownIsOver

(* Mutant of CodeOfRun: the error of ListenAndServe is dropped.            *)
CodeOfShutdown == IF shutdown = "failed" THEN 1 ELSE 0
CodeOfRun      == IF listener = "failed" \/ shutdown = "failed" THEN 1 ELSE 0

(* group.Wait, then the deferred calls of runServe: last one first.        *)
RunReturns ==
  /\ main = "serving"
  /\ RunIsOver
  /\ main' = "closing"
  /\ redis' = "closed"
  /\ code' = CodeOfRun
  /\ UNCHANGED <<apiVars, config, setting, told, listener, shutdown, connected, pool>>

ClosePool ==
  /\ main = "closing"
  /\ main' = "closed"
  /\ pool' = "closed"
  /\ UNCHANGED <<apiVars, config, setting, told, listener, shutdown, connected, redis, code>>

MainReturns ==
  /\ main = "closed"
  /\ main' = "exited"
  /\ UNCHANGED <<apiVars, config, setting, told, listener, shutdown, connected, pool, redis,
                 code>>

(* Any signal but the interrupt, the one `docker stop` sends included.     *)
Killed ==
  /\ ~Stopped
  /\ main' = "killed"
  /\ at' = [r \in Request |-> IF Active(r) THEN "cut" ELSE at[r]]
  /\ UNCHANGED <<req, sent, calls, handed, config, setting, told, listener, shutdown,
                 connected, pool, redis, code>>

(* A request on a connection that is open: new ones come while the         *)
(* listener listens, further requests on old ones also after it has failed *)
(* and, one for each at most, while Shutdown drains.                       *)
Accept(r) ==
  /\ connected
  /\ ~ShutdownIsOver
  /\ ~Stopped
  /\ Arrive(r)
  /\ lifeRest(r)

Serve(r) ==
  /\ ~Stopped
  /\ Handle(r)
  /\ lifeRest(r)

Outside(r) ==
  /\ ~Stopped
  /\ OutsideReturns(r)
  /\ lifeRest(r)

Ended == Stopped /\ UNCHANGED vars

LifeNext ==
  \/ StartFails \/ RunServe \/ RunFetch \/ FetchEnds
  \/ Interrupt \/ Killed
  \/ Listen \/ ListenerFails \/ BeginShutdown \/ ShutdownReturns
  \/ RunReturns \/ ClosePool \/ MainReturns
  \/ \E r \in Request : Accept(r) \/ Serve(r) \/ Outside(r)
  \/ Ended

(* Goroutines that can go on do.  A handler that waits for PostgreSQL or   *)
(* bank.lv waits for as long as they like, for there is no timeout; a      *)
(* cancelled fetch command does end (Ingestion, CancelledCallReturns).     *)
LifeFairness ==
  /\ WF_vars(StartFails \/ RunServe \/ RunFetch)
  /\ WF_vars(told /\ FetchEnds)
  /\ WF_vars(Listen)
  /\ WF_vars(BeginShutdown)
  /\ WF_vars(ShutdownReturns)
  /\ WF_vars(RunReturns \/ ClosePool \/ MainReturns)
  /\ \A r \in Request : WF_vars(Serve(r))

LifeSpec == LifeInit /\ [][LifeNext]_vars /\ LifeFairness

-----------------------------------------------------------------------------

(* Types.                                                                  *)
LifeTypeOK ==
  /\ ApiTypeOK
  /\ setting \in Settings
  /\ main \in Main
  /\ told \in BOOLEAN
  /\ listener \in Listener
  /\ shutdown \in Shutdown
  /\ connected \in BOOLEAN
  /\ {pool, redis} \subseteq {"none", "open", "closed"}
  /\ code \in {NoCode, 0, 1, 2}

(* No handler is under way while anything it uses is closed, or not yet    *)
(* open: runServe closes pool and Redis client after Run, and Run returns  *)
(* after both of its goroutines (main.go:58-76, service.go:22-35).         *)
NothingUsedAfterClose ==
  \A r \in Request : Active(r) => pool = "open" /\ redis = "open"

(* The exit code of serve: 0 only when it was told to stop and every       *)
(* request it accepted has had its answer; otherwise it never served, or   *)
(* the listener failed, or closing it did (service.go:22-35,               *)
(* main.go:41-43).                                                         *)
ExitCodeIsTrue ==
  main = "exited" /\ setting.cmd = "serve" =>
    /\ code = 0 => told /\ listener = "returned" /\ shutdown = "returned"
    /\ code # 0 => listener \in {"none", "failed"} \/ shutdown = "failed"
    /\ \A r \in Request : at[r] \in {"idle", "done", "lost"}

(* Told to stop, the process stops, unless some handler waits for ever for *)
(* PostgreSQL or bank.lv: Shutdown has no deadline and the handlers have   *)
(* no timeout (service.go:32, main.go:69).                                 *)
StopsUnlessAHandlerHangs ==
  (told ~> Stopped) \/ (\E r \in Request : <>[](at[r] \in Waits))

=============================================================================
