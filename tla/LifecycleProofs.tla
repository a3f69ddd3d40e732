---------------------------- MODULE LifecycleProofs ----------------------------
(* Theorems about Lifecycle, for any number of requests, any inputs and    *)
(* any environments.                                                       *)
EXTENDS Lifecycle, TLAPS, LoopLemmas

Refusal == {301, 302, 400, 404, 405, 422, 429}

(* What the stage of a request says about its answer and its calls.        *)
RequestOK(r) ==
  /\ at[r] = "idle" => calls[r] = {}
  /\ at[r] \in {"limiter", "router"} => calls[r] \subseteq {"redis"}
  /\ at[r] = "idle" \/ (Active(r) /\ at[r] # "visit") => sent[r] = <<>>
  /\ at[r] \in {"visit", "done"} => Len(sent[r]) = 1
  /\ sent[r] # <<>> /\ sent[r][1] \in Refusal => calls[r] \subseteq {"redis"}

HandlersInv ==
  /\ at \in [Request -> Stage]
  /\ sent \in [Request -> Seq(Status)]
  /\ calls \in [Request -> SUBSET Call]
  /\ \A r \in Request : RequestOK(r)

(* Who may still be under way.                                             *)
DrainInv ==
  /\ \A r \in Request : /\ Active(r) => main = "serving" /\ ~ShutdownIsOver
                        /\ at[r] = "cut" => main = "killed"
  /\ connected => listener # "none" /\ (ShutdownIsOver \/ main \in {"serving", "killed"})
  /\ main = "serving" => pool = "open" /\ redis = "open"
  /\ listener \in {"starting", "listening"} => main \in {"serving", "killed"}

(* How the goroutines of Run and the end of main depend on each other.     *)
RunInv ==
  /\ main \in Main /\ listener \in Listener /\ shutdown \in Shutdown
  /\ main \in {"start", "fetching"} => listener = "none"
  /\ listener # "none" => shutdown # "none"
  /\ main = "fetching" => setting.cmd = "fetch"
  /\ shutdown \in {"draining", "returned", "failed"} =>
       listener # "listening" /\ (told \/ listener = "failed")
  /\ listener = "returned" => told /\ shutdown \in {"draining", "returned", "failed"}
  /\ main \in {"closing", "closed"} /\ setting.cmd = "serve" =>
       RunIsOver /\ code = CodeOfRun
  /\ main = "exited" /\ setting.cmd = "serve" =>
       \/ listener = "none" /\ code # 0
       \/ RunIsOver /\ code = CodeOfRun

LifeInv == HandlersInv /\ DrainInv /\ RunInv

(* The invariant holds when the process starts.                            *)
LEMMA LifeInitInv == LifeInit => LifeInv
<1> SUFFICES ASSUME LifeInit PROVE LifeInv
  OBVIOUS
<1> USE DEF LifeInit, ApiInit
<1>1. HandlersInv
  BY DEF HandlersInv, RequestOK, Active, Stage
<1>2. DrainInv
  BY DEF DrainInv, Active
<1>3. RunInv
  BY DEF RunInv, Main, Listener, Shutdown
<1> QED
  BY <1>1, <1>2, <1>3 DEF LifeInv

(* A first status is the only one.                                         *)
LEMMA FirstAnswer ==
  ASSUME NEW s \in Status
  PROVE  /\ Append(<<>>, s) \in Seq(Status)
         /\ Append(<<>>, s) # <<>>
         /\ Len(Append(<<>>, s)) = 1
         /\ Append(<<>>, s)[1] = s
  OBVIOUS

(* A second status leaves the first where it is.                           *)
LEMMA SecondAnswer ==
  ASSUME NEW q \in Seq(Status), Len(q) = 1, NEW s \in Status
  PROVE  /\ Append(q, s) \in Seq(Status)
         /\ q # <<>> /\ Append(q, s) # <<>>
         /\ Append(q, s)[1] = q[1]
  OBVIOUS

(* A status, and where the handler goes with it.                           *)
Answers(r, s, stage) == sent' = [sent EXCEPT ![r] = Append(@, s)] /\ Go(r, stage)

(* A handler that answers, having called nothing but Redis if it refuses.  *)
LEMMA AnswerStep ==
  ASSUME HandlersInv, NEW r \in Request, sent[r] = <<>>, NEW s \in Status,
         NEW stage \in {"visit", "done"}, Answers(r, s, stage),
         calls' \in [Request -> SUBSET Call],
         \A q \in Request \ {r} : calls'[q] = calls[q],
         s \in Refusal => calls'[r] \subseteq {"redis"}
  PROVE  HandlersInv'
<1>1. Append(sent[r], s) \in Seq(Status)
  BY FirstAnswer
<1>2. at' \in [Request -> Stage] /\ sent' \in [Request -> Seq(Status)]
  BY <1>1 DEF HandlersInv, Answers, Go, Stage
<1>3. RequestOK(r)'
  <2>1. at'[r] = stage /\ sent'[r] = Append(<<>>, s)
    BY DEF HandlersInv, Answers, Go
  <2> QED
    BY <2>1, FirstAnswer DEF RequestOK, Active
<1>4. ASSUME NEW q \in Request, q # r PROVE RequestOK(q)'
  <2>1. at'[q] = at[q] /\ sent'[q] = sent[q] /\ calls'[q] = calls[q]
    BY <1>4 DEF HandlersInv, Answers, Go
  <2> QED
    BY <2>1 DEF HandlersInv, RequestOK, Active
<1> QED
  BY <1>2, <1>3, <1>4 DEF HandlersInv

(* A handler that makes a call and goes on, without an answer.             *)
LEMMA AskStep ==
  ASSUME HandlersInv, NEW r \in Request, sent[r] = <<>>, sent' = sent,
         NEW call \in Call, NEW stage \in Waits \cup {"router"}, Ask(r, call, stage),
         stage = "router" => calls[r] \cup {call} \subseteq {"redis"}
  PROVE  HandlersInv'
<1>1. /\ at' \in [Request -> Stage]
      /\ calls' \in [Request -> SUBSET Call]
      /\ at'[r] = stage
      /\ calls'[r] = calls[r] \cup {call}
  BY DEF HandlersInv, Ask, Go, Stage
<1>2. RequestOK(r)'
  BY <1>1 DEF RequestOK, Active, Waits
<1>3. ASSUME NEW q \in Request, q # r PROVE RequestOK(q)'
  <2>1. at'[q] = at[q] /\ sent'[q] = sent[q] /\ calls'[q] = calls[q]
    BY <1>3 DEF HandlersInv, Ask, Go
  <2> QED
    BY <2>1 DEF HandlersInv, RequestOK, Active
<1> QED
  BY <1>1, <1>2, <1>3 DEF HandlersInv

(* Every step of a handler keeps what its stage says.                      *)
LEMMA HandlerStep ==
  ASSUME HandlersInv, NEW r \in Request, Handle(r) \/ OutsideReturns(r)
  PROVE  HandlersInv'
<1>0. /\ at \in [Request -> Stage]
      /\ sent \in [Request -> Seq(Status)]
      /\ calls \in [Request -> SUBSET Call]
      /\ \A q \in Request : RequestOK(q)
  BY DEF HandlersInv
<1>1. CASE LimiterRefuses(r)
  <2>1. sent[r] = <<>> /\ calls[r] \subseteq {"redis"}
    BY <1>0, <1>1 DEF RequestOK, Active, LimiterRefuses
  <2>2. /\ calls' \in [Request -> SUBSET Call]
        /\ calls'[r] = calls[r] \cup {"redis"}
        /\ \A q \in Request \ {r} : calls'[q] = calls[q]
    BY <1>0, <1>1 DEF LimiterRefuses, Call
  <2>3. 429 \in Status /\ Answers(r, 429, "done")
    BY <1>1 DEF LimiterRefuses, Answer, Answers, Status
  <2>4. calls'[r] \subseteq {"redis"}
    BY <2>1, <2>2
  <2>5. sent[r] = <<>> /\ "done" \in {"visit", "done"}
    BY <2>1
  <2> QED
    BY <2>2, <2>3, <2>4, <2>5, AnswerStep
<1>2. CASE LimiterAdmits(r)
  <2>1. sent[r] = <<>> /\ calls[r] \subseteq {"redis"}
    BY <1>0, <1>2 DEF RequestOK, Active, LimiterAdmits
  <2>2. "redis" \in Call /\ Ask(r, "redis", "router") /\ sent' = sent
    BY <1>2 DEF LimiterAdmits, Call
  <2>3. calls[r] \cup {"redis"} \subseteq {"redis"}
    BY <2>1
  <2>4. sent[r] = <<>> /\ "router" \in Waits \cup {"router"}
    BY <2>1
  <2> QED
    BY <2>2, <2>3, <2>4, AskStep
<1>3. CASE Static(r) \/ NotBound(r) \/ HistoryRefuses(r) \/ BodyRefused(r)
  <2>1. sent[r] = <<>> /\ calls[r] \subseteq {"redis"}
    BY <1>0, <1>3
       DEF RequestOK, Active, Static, NotBound, HistoryRefuses, BodyRefused, AtRoute
  <2>2. PICK s \in Status, stage \in {"visit", "done"} : Answers(r, s, stage)
    <3>1. CASE Static(r)
      <4>1. StaticStatus(req[r]) \subseteq Status
        BY DEF StaticStatus, NotFoundStatus, Status
      <4>2. PICK s \in StaticStatus(req[r]) : Answer(r, s)
        BY <3>1 DEF Static
      <4> QED
        BY <4>1, <4>2 DEF Answer, Answers
    <3>2. CASE NotBound(r)
      BY <3>2 DEF NotBound, Answer, Answers, Status
    <3>3. CASE HistoryRefuses(r)
      BY <3>3 DEF HistoryRefuses, Answers, Status
    <3>4. CASE BodyRefused(r)
      BY <3>4 DEF BodyRefused, Answer, Answers, Status
    <3> QED
      BY <1>3, <3>1, <3>2, <3>3, <3>4
  <2>3. calls' = calls
    BY <1>3 DEF Static, NotBound, HistoryRefuses, BodyRefused
  <2> QED
    BY <1>0, <2>1, <2>2, <2>3, AnswerStep
<1>4. CASE Health(r) \/ GetRates(r) \/ GetHistory(r) \/ PostRatesFetch(r)
  <2>1. sent[r] = <<>> /\ sent' = sent
    BY <1>0, <1>4
       DEF RequestOK, Active, Health, GetRates, GetHistory, PostRatesFetch, AtRoute
  <2>2. PICK call \in Call, stage \in Waits : Ask(r, call, stage)
    BY <1>4 DEF Health, GetRates, GetHistory, PostRatesFetch, Call, Waits
  <2>3. stage # "router"
    BY DEF Waits
  <2> QED
    BY <2>1, <2>2, <2>3, AskStep
<1>5. CASE OutsideReturns(r)
  <2>1. sent[r] = <<>> /\ calls' = calls
    BY <1>0, <1>5 DEF RequestOK, Active, OutsideReturns, PingReturns, QueryFails,
                      QueryReturns, FetchReturns
  <2>2. PICK s \in {200, 207, 500, 503}, stage \in {"visit", "done"} : Answers(r, s, stage)
    <3>1. CASE PingReturns(r)
      <4>1. PICK s \in {200, 503} : Answer(r, s)
        BY <3>1 DEF PingReturns
      <4>2. Answers(r, s, "done") /\ s \in {200, 207, 500, 503}
        BY <4>1 DEF Answer, Answers
      <4> QED
        BY <4>2
    <3>2. CASE QueryFails(r)
      BY <3>2 DEF QueryFails, Answer, Answers
    <3>3. CASE QueryReturns(r)
      BY <3>3 DEF QueryReturns, Answers
    <3>4. CASE FetchReturns(r)
      <4>1. PICK s \in (IF handed[r] = <<>> THEN {500} ELSE {200, 207, 500}) :
              sent' = [sent EXCEPT ![r] = Append(@, s)]
        BY <3>4, Zenon DEF FetchReturns
      <4>2. s \in {200, 207, 500, 503}
        OBVIOUS
      <4>3. Go(r, "visit")
        BY <3>4 DEF FetchReturns
      <4>4. Answers(r, s, "visit")
        BY <4>1, <4>3 DEF Answers
      <4> QED
        BY <4>2, <4>4
    <3> QED
      BY <1>5, <3>1, <3>2, <3>3, <3>4 DEF OutsideReturns
  <2>3. s \in Status /\ s \notin Refusal
    BY DEF Status, Refusal
  <2>4. calls' \in [Request -> SUBSET Call] /\ \A q \in Request : calls'[q] = calls[q]
    BY <1>0, <2>1
  <2> QED
    BY <2>1, <2>2, <2>3, <2>4, AnswerStep
<1>6. CASE Written(r) \/ WriteFails(r)
  <2>1. Len(sent[r]) = 1 /\ calls' = calls
    BY <1>0, <1>6 DEF RequestOK, Written, WriteFails
  <2>2. sent[r] # <<>>
    <3>1. sent[r] \in Seq(Status) /\ 500 \in Status
      BY <1>0 DEF Status
    <3> QED
      BY <2>1, <3>1, SecondAnswer
  <2>3. /\ at' \in [Request -> Stage]
        /\ at'[r] = IF Written(r) THEN "done" ELSE "lost"
        /\ \A q \in Request \ {r} : at'[q] = at[q]
    <3>1. CASE Written(r)
      BY <1>0, <3>1 DEF Written, Go, Stage
    <3>2. CASE WriteFails(r) /\ ~Written(r)
      BY <1>0, <3>2 DEF WriteFails, Go, Stage
    <3> QED
      BY <1>6, <3>1, <3>2
  <2>4. /\ sent' \in [Request -> Seq(Status)]
        /\ sent'[r] # <<>> /\ sent'[r][1] = sent[r][1]
        /\ at'[r] = "done" => Len(sent'[r]) = 1
        /\ \A q \in Request \ {r} : sent'[q] = sent[q]
    <3>1. CASE sent' = sent
      BY <1>0, <2>1, <2>2, <2>3, <3>1
    <3>2. CASE sent' # sent
      <4>1. WriteFails(r) /\ ~Written(r) /\ sent' = [sent EXCEPT ![r] = Append(@, 500)]
        BY <1>6, <3>2 DEF Written, WriteFails
      <4>2. sent[r] \in Seq(Status) /\ 500 \in Status
        BY <1>0 DEF Status
      <4>3. /\ Append(sent[r], 500) \in Seq(Status)
            /\ Append(sent[r], 500) # <<>>
            /\ Append(sent[r], 500)[1] = sent[r][1]
        BY <2>1, <4>2, SecondAnswer
      <4>4. sent'[r] = Append(sent[r], 500) /\ at'[r] = "lost"
        BY <1>0, <2>3, <4>1
      <4>5. sent' \in [Request -> Seq(Status)]
        BY <1>0, <4>1, <4>3
      <4>6. \A q \in Request \ {r} : sent'[q] = sent[q]
        BY <1>0, <4>1
      <4> QED
        BY <4>3, <4>4, <4>5, <4>6
    <3> QED
      BY <3>1, <3>2
  <2>5. RequestOK(r)'
    BY <1>0, <2>1, <2>2, <2>3, <2>4 DEF RequestOK, Active
  <2>6. \A q \in Request \ {r} : RequestOK(q)'
    BY <1>0, <2>1, <2>3, <2>4 DEF RequestOK, Active
  <2> QED
    BY <1>0, <2>1, <2>3, <2>4, <2>5, <2>6 DEF HandlersInv
<1> QED
  BY <1>1, <1>2, <1>3, <1>4, <1>5, <1>6 DEF Handle

(* A request starts without an answer and without calls.                   *)
LEMMA ArriveStep ==
  ASSUME HandlersInv, NEW r \in Request, Arrive(r)
  PROVE  HandlersInv'
<1>1. /\ at' \in [Request -> Stage]
      /\ at'[r] \in {"limiter", "router"}
      /\ sent' = sent /\ calls' = calls
      /\ \A q \in Request \ {r} : at'[q] = at[q]
  BY DEF HandlersInv, Arrive, Go, Stage
<1>2. sent[r] = <<>> /\ calls[r] = {}
  BY DEF HandlersInv, RequestOK, Arrive
<1>3. RequestOK(r)'
  BY <1>1, <1>2 DEF RequestOK, Active
<1>4. \A q \in Request \ {r} : RequestOK(q)'
  BY <1>1 DEF HandlersInv, RequestOK, Active
<1> QED
  BY <1>1, <1>3, <1>4 DEF HandlersInv

(* Killing the process only cuts the handlers off.                         *)
LEMMA KilledStep == ASSUME HandlersInv, Killed PROVE HandlersInv'
<1>1. /\ at' \in [Request -> Stage]
      /\ sent' = sent /\ calls' = calls
      /\ \A q \in Request : at'[q] = at[q] \/ at'[q] = "cut"
  BY DEF HandlersInv, Killed, Stage
<1>2. \A q \in Request : RequestOK(q)'
  BY <1>1 DEF HandlersInv, RequestOK, Active
<1> QED
  BY <1>1, <1>2 DEF HandlersInv

(* Handlers are under way only while main is serving and Shutdown has not  *)
(* returned: one more may come only over a connection that was accepted.   *)
LEMMA DrainStep == ASSUME LifeInv, [LifeNext]_vars PROVE DrainInv'
<1>0. DrainInv /\ RunInv /\ at \in [Request -> Stage]
  BY DEF LifeInv, HandlersInv
<1>1. ASSUME NEW r \in Request, Accept(r) PROVE DrainInv'
  <2>1. main = "serving" /\ ~ShutdownIsOver
    BY <1>0, <1>1 DEF DrainInv, Accept, Stopped
  <2>2. \A q \in Request : at'[q] = "cut" => at[q] = "cut"
    BY <1>0, <1>1 DEF Accept, Arrive, Go
  <2> QED
    BY <1>0, <1>1, <2>1, <2>2 DEF DrainInv, ShutdownIsOver, Accept, lifeRest, lifeVars
<1>2. ASSUME NEW r \in Request, Serve(r) \/ Outside(r) PROVE DrainInv'
  <2>1. Handle(r) \/ OutsideReturns(r)
    BY <1>2 DEF Serve, Outside
  <2>2. Active(r)
    BY <2>1 DEF Active, Handle, OutsideReturns, LimiterRefuses, LimiterAdmits, Static, Health,
                GetRates, GetHistory, NotBound, HistoryRefuses, BodyRefused, PostRatesFetch,
                Written, WriteFails, AtRoute, PingReturns, QueryFails, QueryReturns, FetchReturns
  <2>3. \E stage \in Stage \ {"cut"} : Go(r, stage)
    BY <2>1 DEF Handle, OutsideReturns, LimiterRefuses, LimiterAdmits, Static, Health,
                GetRates, GetHistory, NotBound, HistoryRefuses, BodyRefused, PostRatesFetch,
                Written, WriteFails, PingReturns, QueryFails, QueryReturns, FetchReturns,
                Answer, Ask, Stage, Waits
  <2>4. \A q \in Request : at'[q] = "cut" => at[q] = "cut"
    BY <1>0, <2>3 DEF Go
  <2>5. \A q \in Request : Active(q)' => q = r \/ Active(q)
    BY <1>0, <2>3 DEF Go, Active
  <2>6. UNCHANGED lifeVars
    BY <1>2 DEF Serve, Outside, lifeRest
  <2> QED
    BY <1>0, <2>2, <2>4, <2>5, <2>6 DEF DrainInv, ShutdownIsOver, lifeVars
<1>3. CASE at' = at /\ ~\E r \in Request : Accept(r) \/ Serve(r) \/ Outside(r)
  <2>1. \A r \in Request : Active(r)' = Active(r)
    BY <1>3 DEF Active
  <2>2. CASE StartFails \/ RunServe \/ RunFetch \/ FetchEnds
    BY <1>0, <1>3, <2>1, <2>2
       DEF DrainInv, RunInv, ShutdownIsOver, StartFails, Exit, RunServe, RunFetch, FetchEnds
  <2>3. CASE Interrupt \/ Listen \/ ListenerFails \/ BeginShutdown
    BY <1>0, <1>3, <2>1, <2>3
       DEF DrainInv, RunInv, ShutdownIsOver, Interrupt, Listen, ListenerFails, BeginShutdown
  <2>4. CASE ShutdownReturns
    BY <1>0, <1>3, <2>1, <2>4 DEF DrainInv, ShutdownIsOver, ShutdownReturns, Drained
  <2>5. CASE RunReturns \/ ClosePool \/ MainReturns
    BY <1>0, <1>3, <2>1, <2>5
       DEF DrainInv, RunInv, ShutdownIsOver, RunReturns, RunIsOver, ClosePool, MainReturns
  <2>6. CASE UNCHANGED vars
    BY <1>0, <1>3, <2>1, <2>6 DEF DrainInv, ShutdownIsOver, vars, lifeVars
  <2>7. CASE Killed
    BY <1>0, <1>3, <2>1, <2>7 DEF DrainInv, ShutdownIsOver, Killed, Active
  <2> QED
    BY <1>3, <2>2, <2>3, <2>4, <2>5, <2>6, <2>7 DEF LifeNext, Ended
<1>4. CASE Killed
  <2>1. \A r \in Request : ~Active(r)'
    BY <1>0, <1>4 DEF Killed, Active
  <2> QED
    BY <1>0, <1>4, <2>1 DEF DrainInv, ShutdownIsOver, Killed
<1> QED
  BY <1>1, <1>2, <1>3, <1>4
     DEF LifeNext, Ended, StartFails, RunServe, RunFetch, FetchEnds, Interrupt, Listen,
         ListenerFails, BeginShutdown, ShutdownReturns, RunReturns, ClosePool, MainReturns,
         vars, apiVars

(* Every step keeps what the goroutines of Run and main say of each other. *)
LEMMA RunStep == ASSUME LifeInv, [LifeNext]_vars PROVE RunInv'
<1>0. DrainInv /\ RunInv
  BY DEF LifeInv
<1> USE DEF RunInv, RunIsOver, ShutdownIsOver, CodeOfRun
<1>1. CASE StartFails
  BY <1>0, <1>1 DEF StartFails, Exit, Main
<1>10. CASE RunServe
  BY <1>0, <1>10 DEF RunServe, Main, Listener, Shutdown
<1>11. CASE RunFetch \/ FetchEnds
  BY <1>0, <1>11 DEF RunFetch, FetchEnds, Main
<1>2. CASE Interrupt
  BY <1>0, <1>2 DEF Interrupt
<1>3. CASE Listen \/ ListenerFails
  <2>1. main \in {"serving", "killed"}
    BY <1>0, <1>3 DEF DrainInv, Listen, ListenerFails
  <2>2. CASE Listen
    BY <1>0, <2>1, <2>2 DEF Listen, Listener, Shutdown
  <2>3. CASE ListenerFails
    BY <1>0, <2>1, <2>3 DEF ListenerFails, Listener
  <2> QED
    BY <1>3, <2>2, <2>3
<1>4. CASE BeginShutdown
  <2>1. main \notin {"start", "fetching", "closing", "closed", "exited"} \/ listener # "listening"
    BY <1>0 DEF DrainInv
  <2> QED
    BY <1>0, <1>4, <2>1 DEF BeginShutdown, GroupCtxEnded, Listener, Shutdown
<1>5. CASE ShutdownReturns
  BY <1>0, <1>5 DEF ShutdownReturns, Shutdown
<1>6. CASE RunReturns
  BY <1>0, <1>6 DEF RunReturns, Main
<1>7. CASE ClosePool \/ MainReturns
  BY <1>0, <1>7 DEF ClosePool, MainReturns, Main
<1>8. CASE Killed
  BY <1>0, <1>8 DEF Killed, Main
<1>9. CASE UNCHANGED lifeVars
  BY <1>0, <1>9 DEF lifeVars
<1> QED
  BY <1>1, <1>2, <1>3, <1>4, <1>5, <1>6, <1>7, <1>8, <1>9, <1>10, <1>11
     DEF LifeNext, Ended, Accept, Serve, Outside, lifeRest, vars

(* Every step keeps what the stages of the requests say.                   *)
LEMMA HandlersStep == ASSUME LifeInv, [LifeNext]_vars PROVE HandlersInv'
<1>0. HandlersInv
  BY DEF LifeInv
<1>1. ASSUME NEW r \in Request, Accept(r) PROVE HandlersInv'
  BY <1>0, <1>1, ArriveStep DEF Accept
<1>2. ASSUME NEW r \in Request, Serve(r) \/ Outside(r) PROVE HandlersInv'
  BY <1>0, <1>2, HandlerStep DEF Serve, Outside
<1>3. CASE Killed
  BY <1>0, <1>3, KilledStep
<1>4. CASE UNCHANGED apiVars
  BY <1>0, <1>4 DEF HandlersInv, RequestOK, Active, apiVars
<1> QED
  BY <1>1, <1>2, <1>3, <1>4
     DEF LifeNext, Ended, StartFails, RunServe, RunFetch, FetchEnds, Interrupt, Listen,
         ListenerFails, BeginShutdown, ShutdownReturns, RunReturns, ClosePool, MainReturns, vars

(* The inductive invariant.                                                *)
THEOREM LifeInvariant == LifeSpec => []LifeInv
<1>1. LifeInv /\ [LifeNext]_vars => LifeInv'
  BY HandlersStep, DrainStep, RunStep DEF LifeInv
<1> QED
  BY LifeInitInv, <1>1, PTL DEF LifeSpec

(* A request that is refused, not found or redirected cost the database    *)
(* and bank.lv nothing (openapi.gen.go:146-199, rates.go:53-56).           *)
THEOREM RefusalsCostNothing == LifeSpec => []RejectedDoesNoWork
<1>1. LifeInv => RejectedDoesNoWork
  BY DEF LifeInv, HandlersInv, RequestOK, Refusal, RejectedDoesNoWork
<1> QED
  BY LifeInvariant, <1>1, PTL

(* No handler goes on after it has answered (server.go:104-118).           *)
THEOREM AnswersAreSingle == LifeSpec => []OneAnswerEach
<1>1. LifeInv => OneAnswerEach
  BY DEF LifeInv, HandlersInv, RequestOK, OneAnswerEach
<1> QED
  BY LifeInvariant, <1>1, PTL

(* Pool and Redis client outlive every handler (service.go:22-35).         *)
THEOREM ResourcesOutliveHandlers == LifeSpec => []NothingUsedAfterClose
<1>1. LifeInv => NothingUsedAfterClose
  BY DEF LifeInv, DrainInv, NothingUsedAfterClose
<1> QED
  BY LifeInvariant, <1>1, PTL

(* serve ends with 0 only when told to stop and with every answer given,   *)
(* otherwise with 1 for a listener that failed or could not be closed      *)
(* (main.go:41-43, service.go:22-35).                                      *)
THEOREM ExitCodeTellsTheTruth == LifeSpec => []ExitCodeIsTrue
<1>1. ASSUME LifeInv PROVE ExitCodeIsTrue
  <2> SUFFICES ASSUME main = "exited", setting.cmd = "serve"
               PROVE  /\ code = 0 => told /\ listener = "returned" /\ shutdown = "returned"
                      /\ code # 0 => listener \in {"none", "failed"} \/ shutdown = "failed"
                      /\ \A r \in Request : at[r] \in {"idle", "done", "lost"}
    BY DEF ExitCodeIsTrue
  <2>1. \A r \in Request : at[r] \in {"idle", "done", "lost"}
    BY <1>1 DEF LifeInv, DrainInv, Active
  <2>2. /\ code = 0 => told /\ listener = "returned" /\ shutdown = "returned"
        /\ code # 0 => listener \in {"none", "failed"} \/ shutdown = "failed"
    BY <1>1 DEF LifeInv, RunInv, RunIsOver, ShutdownIsOver, CodeOfRun
  <2> QED
    BY <2>1, <2>2
<1> QED
  BY LifeInvariant, <1>1, PTL

-----------------------------------------------------------------------------

(* The loop of splitCurrencies takes the parts one after the other.        *)
LEMMA SplitUnfolds ==
  ASSUME NEW s \in Seq(Name)
  PROVE  \E f : /\ splitCurrencies(s) = f[Len(s)]
                /\ f[0] = <<>>
                /\ \A n \in 1..Len(s) : f[n] = Split(f[n - 1], s[n])
<1> DEFINE N    == Len(s)
           D    == Seq(Name)
           none == <<>>
           turn == [p \in (1..N) \X D |-> Split(p[2], s[p[1]])]
           Rec(f) == f = [n \in 0..N |-> IF n = 0 THEN none ELSE Split(f[n - 1], s[n])]
<1>1. N \in Nat /\ none \in D /\ \A n \in 1..N : s[n] \in Name
  OBVIOUS
<1>2. turn \in [(1..N) \X D -> D]
  <2>1. \A r \in D, n \in Name : Split(r, n) \in D
    <3> TAKE r \in D, n \in Name
    <3>1. Tidy(n) \in Name
      BY DEF Tidy, Name, Form
    <3> QED
      BY <3>1 DEF Split
  <2> QED
    BY <1>1, <2>1
<1>3. \A n \in 1..N, r \in D : turn[<<n, r>>] = Split(r, s[n])
  OBVIOUS
<1>4. \E f : Rec(f)
  <2> HIDE DEF turn, D, N, none
  <2>1. PICK f : Accumulates(f, N, D, none, turn)
    BY <1>1, <1>2, Accumulator
  <2>2. /\ f \in [0..N -> D] /\ f[0] = none
        /\ \A n \in 1..N : f[n - 1] \in D /\ f[n] = turn[<<n, f[n - 1]>>]
    BY <1>1, <2>1 DEF Accumulates
  <2>3. \A n \in 1..N : f[n] = Split(f[n - 1], s[n])
    BY <1>3, <2>2
  <2>4. Rec(f)
    BY <1>1, <2>2, <2>3
  <2> QED
    BY <2>4
<1>5. PICK f : Rec(f) /\ splitCurrencies(s) = f[N]
  <2> HIDE DEF turn
  <2> QED
    BY <1>4 DEF splitCurrencies
<1>6. f[0] = none /\ \A n \in 1..N : f[n] = Split(f[n - 1], s[n])
  <2> HIDE DEF turn, N, none
  <2> QED
    BY <1>1, <1>5
<1> QED
  BY <1>5, <1>6

(* The configured currencies are names.                                    *)
LEMMA SplitType ==
  ASSUME NEW s \in Seq(Name) PROVE splitCurrencies(s) \in Seq(Name)
<1> DEFINE N == Len(s)
           D == Seq(Name)
<1>0. N \in Nat /\ (\A n \in 1..N : s[n] \in Name) /\ <<>> \in D
  OBVIOUS
<1>1. PICK g : /\ splitCurrencies(s) = g[N]
               /\ g[0] = <<>>
               /\ \A n \in 1..N : g[n] = Split(g[n - 1], s[n])
  BY SplitUnfolds
<1>2. \A r \in D, n \in Name : Split(r, n) \in D
  <2> TAKE r \in D, n \in Name
  <2>1. Tidy(n) \in Name
    BY DEF Tidy, Name, Form
  <2> QED
    BY <2>1 DEF Split
<1> HIDE DEF N, D
<1> DEFINE T == {n \in 0..N : g[n] \in D}
<1>3. 0 \in T
  BY <1>0, <1>1
<1>4. ASSUME NEW n \in 1..N, n - 1 \in T PROVE n \in T
  <2>1. g[n - 1] \in D /\ s[n] \in Name
    BY <1>0, <1>4
  <2>2. g[n] \in D
    BY <1>1, <1>2, <2>1
  <2> QED
    BY <1>0, <2>2
<1>5. N \in T
  <2> HIDE DEF T
  <2>1. \A n \in 0..N : n \in T
    BY <1>0, <1>3, <1>4, TurnInduction
  <2> QED
    BY <1>0, <2>1
<1> QED
  BY <1>1, <1>5 DEF D

(* The loop of normalizeCurrencies takes the names one after the other.    *)
LEMMA NormalizeUnfolds ==
  ASSUME NEW s \in Seq(Name)
  PROVE  \E f : /\ normalizeCurrencies(s) = f[Len(s)]
                /\ f[0] = <<>>
                /\ \A n \in 1..Len(s) : f[n] = Mention(f[n - 1], s[n])
<1> DEFINE N    == Len(s)
           D    == Seq(Code)
           none == <<>>
           turn == [p \in (1..N) \X D |-> Mention(p[2], s[p[1]])]
           Rec(f) == f = [n \in 0..N |-> IF n = 0 THEN none ELSE Mention(f[n - 1], s[n])]
<1>1. N \in Nat /\ none \in D /\ \A n \in 1..N : s[n] \in Name
  OBVIOUS
<1>2. turn \in [(1..N) \X D -> D]
  <2>1. \A r \in D, n \in Name : Mention(r, n) \in D
    <3> TAKE r \in D, n \in Name
    <3>1. n.code \in Code \cup {Blank}
      BY DEF Name
    <3> QED
      BY <3>1 DEF Mention
  <2> QED
    BY <1>1, <2>1
<1>3. \A n \in 1..N, r \in D : turn[<<n, r>>] = Mention(r, s[n])
  OBVIOUS
<1>4. \E f : Rec(f)
  <2> HIDE DEF turn, D, N, none
  <2>1. PICK f : Accumulates(f, N, D, none, turn)
    BY <1>1, <1>2, Accumulator
  <2>2. /\ f \in [0..N -> D] /\ f[0] = none
        /\ \A n \in 1..N : f[n - 1] \in D /\ f[n] = turn[<<n, f[n - 1]>>]
    BY <1>1, <2>1 DEF Accumulates
  <2>3. \A n \in 1..N : f[n] = Mention(f[n - 1], s[n])
    BY <1>3, <2>2
  <2>4. Rec(f)
    BY <1>1, <2>2, <2>3
  <2> QED
    BY <2>4
<1>5. PICK f : Rec(f) /\ normalizeCurrencies(s) = f[N]
  <2> HIDE DEF turn
  <2> QED
    BY <1>4 DEF normalizeCurrencies
<1>6. f[0] = none /\ \A n \in 1..N : f[n] = Mention(f[n - 1], s[n])
  <2> HIDE DEF turn, N, none
  <2> QED
    BY <1>1, <1>5
<1> QED
  BY <1>5, <1>6

(* k is among the codes r.                                                 *)
Has(r, k) == \E i \in 1..Len(r) : r[i] = k

(* The first n names name j after they name k.                             *)
NamedBefore(s, n, k, j) ==
  \E p \in 1..n : s[p].code = k /\ \A q \in 1..p : s[q].code # j

(* r are the codes that the first n names of s name, in the order of first *)
(* mention.                                                                *)
Mentions(s, n, r) ==
  /\ r \in Seq(Code)
  /\ \A k \in Code : Has(r, k) <=> \E p \in 1..n : s[p].code = k
  /\ \A i, j \in 1..Len(r) : i < j => NamedBefore(s, n, r[i], r[j])

(* One turn adds the code of the next name, unless it is there already or  *)
(* blank.                                                                  *)
LEMMA MentionStep ==
  ASSUME NEW s \in Seq(Name), NEW n \in 1..Len(s), NEW r, Mentions(s, n - 1, r)
  PROVE  Mentions(s, n, Mention(r, s[n]))
<1> DEFINE k == s[n].code
           t == Mention(r, s[n])
<1>0. /\ r \in Seq(Code)
      /\ Len(s) \in Nat /\ n \in Nat
      /\ \A m \in Code : Has(r, m) <=> \E p \in 1..(n - 1) : s[p].code = m
      /\ \A i, j \in 1..Len(r) : i < j => NamedBefore(s, n - 1, r[i], r[j])
  BY DEF Mentions
<1>1. k \in Code \cup {Blank}
  <2>1. s[n] \in Name
    OBVIOUS
  <2> QED
    BY <2>1 DEF Name
<1>2. \A a, b : NamedBefore(s, n - 1, a, b) => NamedBefore(s, n, a, b)
  BY <1>0 DEF NamedBefore
<1>3. CASE k = Blank \/ Contains(r, k)
  <2>1. t = r
    BY <1>3 DEF Mention
  <2>2. \A m \in Code : Has(r, m) <=> \E p \in 1..n : s[p].code = m
    <3> TAKE m \in Code
    <3>1. CASE m # k
      BY <1>0, <3>1
    <3>2. CASE m = k
      <4>1. Has(r, m)
        BY <1>3, <3>2, CodeAssumption DEF Has, Contains
      <4> QED
        BY <3>2, <4>1
    <3> QED
      BY <3>1, <3>2
  <2> QED
    BY <1>0, <1>2, <2>1, <2>2 DEF Mentions
<1>4. CASE k # Blank /\ ~Contains(r, k)
  <2>1. /\ k \in Code
        /\ t = Append(r, k)
        /\ ~Has(r, k)
    BY <1>1, <1>4 DEF Mention, Has, Contains
  <2> HIDE DEF t, k
  <2>2. /\ t \in Seq(Code)
        /\ Len(r) \in Nat
        /\ Len(t) = Len(r) + 1
        /\ t[Len(t)] = k
        /\ \A i \in 1..Len(r) : t[i] = r[i]
    BY <1>0, <2>1
  <2>3. \A m : Has(t, m) <=> Has(r, m) \/ m = k
    BY <2>2 DEF Has
  <2>4. \A m \in Code : Has(t, m) <=> \E p \in 1..n : s[p].code = m
    <3> TAKE m \in Code
    <3>1. (\E p \in 1..n : s[p].code = m) <=> (\E p \in 1..(n - 1) : s[p].code = m) \/ m = k
      BY <1>0 DEF k
    <3> QED
      BY <1>0, <2>3, <3>1
  <2>5. ASSUME NEW i \in 1..Len(t), NEW j \in 1..Len(t), i < j
        PROVE  NamedBefore(s, n, t[i], t[j])
    <3>1. i \in 1..Len(r) /\ t[i] = r[i] /\ r[i] \in Code
      BY <1>0, <2>2, <2>5
    <3>2. CASE j # Len(t)
      <4>1. j \in 1..Len(r) /\ t[j] = r[j]
        BY <2>2, <3>2
      <4>2. NamedBefore(s, n - 1, r[i], r[j])
        BY <1>0, <2>5, <3>1, <4>1
      <4> QED
        BY <1>2, <3>1, <4>1, <4>2
    <3>3. CASE j = Len(t)
      <4>1. Has(r, r[i])
        BY <3>1 DEF Has
      <4>2. PICK p \in 1..(n - 1) : s[p].code = r[i]
        BY <1>0, <3>1, <4>1
      <4>3. \A q \in 1..p : s[q].code # k
        BY <1>0, <2>1, <4>2
      <4>4. NamedBefore(s, n - 1, r[i], k)
        BY <4>2, <4>3 DEF NamedBefore
      <4> QED
        BY <1>2, <2>2, <3>1, <3>3, <4>4
    <3> QED
      BY <3>2, <3>3
  <2>6. \A i, j \in 1..Len(t) : i < j => NamedBefore(s, n, t[i], t[j])
    BY <2>5
  <2>7. Mentions(s, n, t)
    BY <2>2, <2>4, <2>6 DEF Mentions
  <2> QED
    BY <2>7 DEF t
<1> QED
  BY <1>3, <1>4

(* The list FetchAndStore works on: each code somebody named, once, in the *)
(* order of first mention.                                                 *)
LEMMA NormalizeMentions ==
  ASSUME NEW s \in Seq(Name)
  PROVE  Mentions(s, Len(s), normalizeCurrencies(s))
<1> DEFINE N == Len(s)
<1>0. N \in Nat
  OBVIOUS
<1>1. PICK g : /\ normalizeCurrencies(s) = g[N]
               /\ g[0] = <<>>
               /\ \A n \in 1..N : g[n] = Mention(g[n - 1], s[n])
  BY NormalizeUnfolds
<1> DEFINE T == {n \in 0..N : Mentions(s, n, g[n])}
<1>2. 0 \in T
  <2>1. Mentions(s, 0, <<>>)
    BY DEF Mentions, Has
  <2> QED
    BY <1>0, <1>1, <2>1
<1>3. ASSUME NEW n \in 1..N, n - 1 \in T PROVE n \in T
  <2>1. Mentions(s, n - 1, g[n - 1])
    BY <1>3
  <2>2. Mentions(s, n, Mention(g[n - 1], s[n]))
    BY <2>1, MentionStep
  <2> QED
    BY <1>0, <1>1, <2>2
<1> HIDE DEF N
<1>4. N \in T
  <2> HIDE DEF T
  <2>1. \A n \in 0..N : n \in T
    BY <1>0, <1>2, <1>3, TurnInduction
  <2> QED
    BY <1>0, <2>1
<1> QED
  BY <1>1, <1>4 DEF N

(* Where k is mentioned first.                                             *)
First(s, k) == CHOOSE i \in 1..Len(s) : /\ s[i].code = k
                                        /\ \A j \in 1..(i - 1) : s[j].code # k

(* A code that is named has a first mention.                               *)
LEMMA FirstMention ==
  ASSUME NEW s \in Seq(Name), NEW k, \E p \in 1..Len(s) : s[p].code = k
  PROVE  /\ First(s, k) \in 1..Len(s)
         /\ s[First(s, k)].code = k
         /\ \A j \in 1..(First(s, k) - 1) : s[j].code # k
<1> DEFINE T == {p \in 1..Len(s) : s[p].code = k}
<1>1. PICK n \in T : \A m \in T : n <= m
  <2>1. T \subseteq Nat /\ T # {}
    OBVIOUS
  <2> HIDE DEF T
  <2> QED
    BY <2>1, LeastNumber
<1>2. n \in 1..Len(s) /\ s[n].code = k /\ \A j \in 1..(n - 1) : s[j].code # k
  BY <1>1
<1> QED
  BY <1>2 DEF First

(* A list of mentions holds the codes that are named, and no others.       *)
LEMMA MentionsAll ==
  ASSUME NEW s \in Seq(Name), NEW r, Mentions(s, Len(s), r)
  PROVE  {r[i] : i \in 1..Len(r)} = {s[i].code : i \in 1..Len(s)} \ {Blank}
<1>1. /\ \A i \in 1..Len(r) : r[i] \in Code
      /\ \A k \in Code : Has(r, k) <=> \E p \in 1..Len(s) : s[p].code = k
  BY DEF Mentions
<1>2. \A p \in 1..Len(s) : s[p].code \in Code \cup {Blank}
  <2>1. \A n \in Name : n.code \in Code \cup {Blank}
    BY DEF Name
  <2> QED
    BY <2>1
<1>3. ASSUME NEW i \in 1..Len(r)
      PROVE  r[i] \in {s[p].code : p \in 1..Len(s)} \ {Blank}
  <2>1. r[i] \in Code /\ Has(r, r[i])
    BY <1>1 DEF Has
  <2> QED
    BY <1>1, <2>1, CodeAssumption
<1>4. ASSUME NEW p \in 1..Len(s), s[p].code # Blank
      PROVE  s[p].code \in {r[i] : i \in 1..Len(r)}
  <2>1. s[p].code \in Code
    BY <1>2, <1>4
  <2>2. Has(r, s[p].code)
    BY <1>1, <2>1
  <2> QED
    BY <2>2 DEF Has
<1> QED
  BY <1>3, <1>4

(* In a list of mentions a code comes before another exactly as its first  *)
(* mention does.                                                           *)
LEMMA MentionsInOrder ==
  ASSUME NEW s \in Seq(Name), NEW r, Mentions(s, Len(s), r),
         NEW i \in 1..Len(r), NEW j \in 1..Len(r), i < j
  PROVE  First(s, r[i]) < First(s, r[j])
<1> DEFINE f == First(s, r[i])
           g == First(s, r[j])
<1>1. /\ r[i] \in Code /\ Has(r, r[i])
      /\ r[j] \in Code /\ Has(r, r[j])
  BY DEF Mentions, Has
<1>2. /\ \E p \in 1..Len(s) : s[p].code = r[i]
      /\ \E p \in 1..Len(s) : s[p].code = r[j]
  BY <1>1 DEF Mentions
<1>3. f \in 1..Len(s) /\ \A m \in 1..(f - 1) : s[m].code # r[i]
  BY <1>2, FirstMention
<1>4. g \in 1..Len(s) /\ s[g].code = r[j]
  BY <1>2, FirstMention
<1>5. PICK p \in 1..Len(s) : s[p].code = r[i] /\ \A q \in 1..p : s[q].code # r[j]
  BY DEF Mentions, NamedBefore
<1> HIDE DEF f, g
<1>6. f \in Int /\ g \in Int /\ p \in Int /\ 1 <= g /\ 1 <= p
  BY <1>3, <1>4
<1>7. ~(p < f)
  <2> SUFFICES ASSUME p < f PROVE FALSE
    OBVIOUS
  <2>1. p \in 1..(f - 1)
    BY <1>6
  <2> QED
    BY <1>3, <1>5, <2>1
<1>8. ~(g <= p)
  <2> SUFFICES ASSUME g <= p PROVE FALSE
    OBVIOUS
  <2>1. g \in 1..p
    BY <1>6
  <2> QED
    BY <1>4, <1>5, <2>1
<1>9. f < g
  BY <1>6, <1>7, <1>8
<1> QED
  BY <1>9 DEF f, g

-----------------------------------------------------------------------------

(* What a list is chosen from.                                             *)
ListOf(r) == ChooseList(req[r].body, config.currencies)

(* What a stage says about the list of a request.                          *)
NamedOK(r) ==
  /\ at[r] = "idle" => handed[r] = NoBody
  /\ at[r] # "idle" => req[r] \in Inputs
  /\ main = "start" => at[r] = "idle"
  /\ handed[r] # NoBody => /\ req[r].body # Malformed
                           /\ at[r] # "idle"
                           /\ handed[r] = normalizeCurrencies(ListOf(r))

NamedInv ==
  /\ config \in Config
  /\ req \in [Request -> Inputs \cup {NoInput}]
  /\ DOMAIN handed = Request
  /\ \A r \in Request : NamedOK(r)

(* The process, apart from its requests.                                   *)
ProcessTypeOK ==
  /\ setting \in Settings
  /\ told \in BOOLEAN
  /\ connected \in BOOLEAN
  /\ pool \in {"none", "open", "closed"}
  /\ redis \in {"none", "open", "closed"}
  /\ code \in {NoCode, 0, 1, 2}

(* A list is chosen from names.                                            *)
LEMMA ChosenType ==
  ASSUME config \in Config, NEW i \in Inputs, i.body # Malformed
  PROVE  ChooseList(i.body, config.currencies) \in Seq(Name)
<1>1. config.currencies \in Seq(Name)
  BY DEF Config
<1>2. i \in Input
  BY InputsAssumption
<1>3. i.body \in Seq(Name) \cup {NoBody}
  BY <1>2 DEF Input
<1>4. AsWritten(Defaults) \in Seq(Name)
  <2>1. /\ Defaults \in Seq(Code)
        /\ Len(Defaults) \in Nat
        /\ \A n \in 1..Len(Defaults) : Defaults[n] \in Code
    BY CodeAssumption
  <2>2. \A n \in 1..Len(Defaults) : [code |-> Defaults[n], form |-> "tidy"] \in Name
    BY <2>1 DEF Name, Form
  <2> QED
    BY <2>1, <2>2 DEF AsWritten
<1> QED
  BY <1>1, <1>3, <1>4 DEF ChooseList

(* The state of the requests and of the process when nothing has happened. *)
LEMMA NamedInit == LifeInit => NamedInv /\ ProcessTypeOK
<1> SUFFICES ASSUME LifeInit PROVE NamedInv /\ ProcessTypeOK
  OBVIOUS
<1>1. config \in Config
  <2>1. config = [limited |-> FALSE, currencies |-> <<>>] /\ <<>> \in Seq(Name)
    BY DEF LifeInit
  <2> QED
    BY <2>1 DEF Config
<1>2. NamedInv
  BY <1>1 DEF LifeInit, ApiInit, NamedInv, NamedOK
<1>3. ProcessTypeOK
  BY DEF LifeInit, ProcessTypeOK, NoCode
<1> QED
  BY <1>2, <1>3

(* The variables that say what a request works on.                         *)
namedVars == <<req, handed, config>>

(* What does not change its list or its stage keeps a request's list.      *)
LEMMA NamedFrame ==
  ASSUME NamedInv, NEW r \in Request, req'[r] = req[r], handed'[r] = handed[r],
         config' = config, at'[r] = "idle" <=> at[r] = "idle",
         main' = "start" => main = "start"
  PROVE  NamedOK(r)'
BY DEF NamedInv, NamedOK, ListOf

(* A request that arrives has no list yet.                                 *)
LEMMA NamedArrive ==
  ASSUME LifeInv, NamedInv, NEW r \in Request, Accept(r) PROVE NamedInv'
<1>1. main # "start" /\ main' = main /\ config' = config
  BY DEF LifeInv, DrainInv, Accept, lifeRest, lifeVars
<1>2. at \in [Request -> Stage] /\ at[r] = "idle" /\ handed' = handed
  BY DEF LifeInv, HandlersInv, Accept, Arrive
<1>3. PICK i \in Inputs : req' = [req EXCEPT ![r] = i]
  BY DEF Accept, Arrive
<1>4. at'[r] # "idle" /\ \A q \in Request \ {r} : at'[q] = at[q]
  BY <1>2 DEF Accept, Arrive, Go
<1>5. /\ req' \in [Request -> Inputs \cup {NoInput}]
      /\ req'[r] = i
      /\ \A q \in Request \ {r} : req'[q] = req[q]
  BY <1>3 DEF NamedInv
<1>6. NamedOK(r)'
  BY <1>1, <1>2, <1>4, <1>5 DEF NamedInv, NamedOK
<1>7. \A q \in Request \ {r} : NamedOK(q)'
  BY <1>1, <1>2, <1>4, <1>5, NamedFrame
<1> QED
  BY <1>1, <1>2, <1>5, <1>6, <1>7 DEF NamedInv

(* The one step that hands a list over is PostRatesFetch.                  *)
LEMMA NamedServe ==
  ASSUME LifeInv, NamedInv, NEW r \in Request, Serve(r) \/ Outside(r) PROVE NamedInv'
<1>0. main' = main /\ config' = config /\ at \in [Request -> Stage]
  BY DEF LifeInv, HandlersInv, Serve, Outside, lifeRest, lifeVars
<1>1. Handle(r) \/ OutsideReturns(r)
  BY DEF Serve, Outside
<1>2. at[r] # "idle" /\ req' = req
  BY <1>1 DEF Handle, OutsideReturns, LimiterRefuses, LimiterAdmits, Static, Health,
              GetRates, GetHistory, NotBound, HistoryRefuses, BodyRefused, PostRatesFetch,
              Written, WriteFails, AtRoute, PingReturns, QueryFails, QueryReturns, FetchReturns
<1>3. PICK stage \in Stage \ {"idle"} : Go(r, stage)
  BY <1>1 DEF Handle, OutsideReturns, LimiterRefuses, LimiterAdmits, Static, Health,
              GetRates, GetHistory, NotBound, HistoryRefuses, BodyRefused, PostRatesFetch,
              Written, WriteFails, PingReturns, QueryFails, QueryReturns, FetchReturns,
              Answer, Ask, Stage, Waits
<1>4. at'[r] # "idle" /\ \A q \in Request \ {r} : at'[q] = at[q]
  BY <1>0, <1>3 DEF Go
<1>5. ASSUME NEW q \in Request, handed'[q] = handed[q] PROVE NamedOK(q)'
  BY <1>0, <1>2, <1>4, <1>5, NamedFrame
<1>6. CASE PostRatesFetch(r)
  <2>1. /\ req[r].body # Malformed
        /\ handed' = [handed EXCEPT ![r] = normalizeCurrencies(ListOf(r))]
    BY <1>6 DEF PostRatesFetch, ListOf
  <2>2. /\ DOMAIN handed' = Request
        /\ handed'[r] = normalizeCurrencies(ListOf(r))
        /\ \A q \in Request \ {r} : handed'[q] = handed[q]
    BY <2>1 DEF NamedInv
  <2>3. NamedOK(r)'
    <3>1. req'[r] \in Inputs /\ main' # "start"
      BY <1>0, <1>2 DEF NamedInv, NamedOK
    <3>2. ListOf(r)' = ListOf(r)
      BY <1>0, <1>2 DEF ListOf
    <3> QED
      BY <1>2, <1>4, <2>1, <2>2, <3>1, <3>2 DEF NamedOK
  <2> QED
    BY <1>0, <1>2, <1>5, <2>2, <2>3 DEF NamedInv
<1>7. CASE ~PostRatesFetch(r)
  <2>1. handed' = handed
    BY <1>1, <1>7 DEF Handle, OutsideReturns, LimiterRefuses, LimiterAdmits, Static, Health,
                      GetRates, GetHistory, NotBound, HistoryRefuses, BodyRefused, Written,
                      WriteFails, PingReturns, QueryFails, QueryReturns, FetchReturns
  <2> QED
    BY <1>0, <1>2, <1>5, <2>1 DEF NamedInv
<1> QED
  BY <1>6, <1>7

(* The configuration is read while no request has arrived.                 *)
LEMMA NamedStart ==
  ASSUME ProcessTypeOK, NamedInv, RunServe \/ RunFetch PROVE NamedInv'
<1>1. \A r \in Request : at[r] = "idle" /\ handed[r] = NoBody
  BY DEF NamedInv, NamedOK, RunServe, RunFetch
<1>2. config' \in Config
  <2>1. setting.selected \in Seq(Name) /\ setting.limited \in BOOLEAN
    BY SettingsAssumption DEF ProcessTypeOK, Setting
  <2>2. splitCurrencies(setting.selected) \in Seq(Name)
    BY <2>1, SplitType
  <2>3. \A limited \in BOOLEAN, l \in Seq(Name) :
          [limited |-> limited, currencies |-> l] \in Config
    BY DEF Config
  <2>4. \E limited \in BOOLEAN :
          config' = [limited |-> limited, currencies |-> splitCurrencies(setting.selected)]
    BY <2>1 DEF RunServe, RunFetch
  <2> QED
    BY <2>2, <2>3, <2>4
<1>3. UNCHANGED apiVars
  BY DEF RunServe, RunFetch
<1> QED
  BY <1>1, <1>2, <1>3 DEF NamedInv, NamedOK, apiVars

(* Every step keeps what a request works on.                               *)
LEMMA NamedStep ==
  ASSUME LifeInv, ProcessTypeOK, NamedInv, [LifeNext]_vars PROVE NamedInv'
<1>1. CASE Killed
  <2>1. /\ UNCHANGED namedVars
        /\ main' # "start"
        /\ \A r \in Request : at'[r] = "idle" <=> at[r] = "idle"
    BY <1>1 DEF Killed, Active, namedVars
  <2>2. \A r \in Request : NamedOK(r)'
    BY <2>1, NamedFrame DEF namedVars
  <2> QED
    BY <2>1, <2>2 DEF NamedInv, namedVars
<1>2. CASE /\ UNCHANGED namedVars /\ at' = at
           /\ main' = "start" => main = "start"
  <2>1. \A r \in Request : NamedOK(r)'
    BY <1>2, NamedFrame DEF namedVars
  <2> QED
    BY <1>2, <2>1 DEF NamedInv, namedVars
<1>3. \/ \E r \in Request : Accept(r) \/ Serve(r) \/ Outside(r)
      \/ RunServe \/ RunFetch \/ Killed
      \/ /\ UNCHANGED namedVars /\ at' = at
         /\ main' = "start" => main = "start"
  BY DEF LifeNext, Ended, StartFails, Exit, FetchEnds, Interrupt, Listen, ListenerFails,
         BeginShutdown, ShutdownReturns, RunReturns, ClosePool, MainReturns, vars, apiVars,
         lifeVars, namedVars
<1> QED
  BY <1>1, <1>2, <1>3, NamedArrive, NamedServe, NamedStart

(* Every step keeps the types of the process.                              *)
LEMMA ProcessStep ==
  ASSUME ProcessTypeOK, [LifeNext]_vars PROVE ProcessTypeOK'
<1> USE DEF ProcessTypeOK
<1>1. CASE StartFails \/ FetchEnds
  BY <1>1 DEF StartFails, Exit, FetchEnds
<1>2. CASE RunServe \/ RunFetch
  BY <1>2 DEF RunServe, RunFetch
<1>3. CASE Interrupt \/ Listen
  BY <1>3 DEF Interrupt, Listen
<1>4. CASE RunReturns
  BY <1>4 DEF RunReturns, CodeOfRun
<1>5. CASE ClosePool
  BY <1>5 DEF ClosePool
<1>6. CASE UNCHANGED <<setting, told, connected, pool, redis, code>>
  BY <1>6
<1>7. \/ StartFails \/ FetchEnds \/ RunServe \/ RunFetch \/ Interrupt \/ Listen
      \/ RunReturns \/ ClosePool
      \/ UNCHANGED <<setting, told, connected, pool, redis, code>>
  BY DEF LifeNext, Ended, Killed, ListenerFails, BeginShutdown, ShutdownReturns,
         MainReturns, Accept, Serve, Outside, lifeRest, lifeVars, vars
<1> QED
  BY <1>1, <1>2, <1>3, <1>4, <1>5, <1>6, <1>7

(* The inductive invariant about lists and configuration, beside that of   *)
(* the stages.                                                             *)
THEOREM NamedInvariant == LifeSpec => [](LifeInv /\ NamedInv /\ ProcessTypeOK)
<1>1. LifeInv /\ NamedInv /\ ProcessTypeOK /\ [LifeNext]_vars => NamedInv' /\ ProcessTypeOK'
  BY NamedStep, ProcessStep
<1> QED
  BY LifeInvariant, NamedInit, <1>1, PTL DEF LifeSpec

(* What a request works on are codes.                                      *)
LEMMA HandedMentions ==
  ASSUME NamedInv, NEW r \in Request, handed[r] # NoBody
  PROVE  ListOf(r) \in Seq(Name) /\ Mentions(ListOf(r), Len(ListOf(r)), handed[r])
<1>1. /\ req[r] \in Inputs /\ req[r].body # Malformed
      /\ handed[r] = normalizeCurrencies(ListOf(r))
  BY DEF NamedInv, NamedOK
<1>2. ListOf(r) \in Seq(Name)
  BY <1>1, ChosenType DEF NamedInv, ListOf
<1> QED
  BY <1>1, <1>2, NormalizeMentions

(* The types of the process and of its requests.                           *)
THEOREM LifeTypeCorrect == LifeSpec => []LifeTypeOK
<1>1. ASSUME LifeInv, NamedInv, ProcessTypeOK PROVE LifeTypeOK
  <2>1. \A r \in Request : handed[r] # NoBody => handed[r] \in Seq(Code)
    BY <1>1, HandedMentions DEF Mentions
  <2>2. ApiTypeOK
    BY <1>1, <2>1 DEF LifeInv, HandlersInv, NamedInv, ApiTypeOK
  <2> QED
    BY <1>1, <2>2 DEF LifeInv, RunInv, ProcessTypeOK, LifeTypeOK
<1> QED
  BY NamedInvariant, <1>1, PTL

(* A fetch works on the codes that were named, each once, in the order of  *)
(* first mention: the body's as soon as it has a list, otherwise the       *)
(* configured ones, otherwise the defaults, however the configuration and  *)
(* the requests came about (rates.go:30-36, config.go:133-143,             *)
(* service.go:114-129).                                                    *)
THEOREM FetchesAreNamed == LifeSpec => []FetchesWhatWasNamed
<1>1. ASSUME NamedInv PROVE FetchesWhatWasNamed
  <2> SUFFICES ASSUME NEW r \in Request, handed[r] # NoBody
               PROVE  LET named == IF req[r].body \notin {NoBody, <<>>} THEN req[r].body
                                   ELSE IF config.currencies # <<>> THEN config.currencies
                                   ELSE AsWritten(Defaults)
                      IN /\ {handed[r][i] : i \in 1..Len(handed[r])} =
                              {named[i].code : i \in 1..Len(named)} \ {Blank}
                         /\ \A i, j \in 1..Len(handed[r]) :
                              i < j => First(named, handed[r][i]) < First(named, handed[r][j])
    BY DEF FetchesWhatWasNamed, First
  <2> DEFINE named == IF req[r].body \notin {NoBody, <<>>} THEN req[r].body
                      ELSE IF config.currencies # <<>> THEN config.currencies
                      ELSE AsWritten(Defaults)
  <2>1. named = ListOf(r)
    BY DEF ListOf, ChooseList
  <2>2. named \in Seq(Name) /\ Mentions(named, Len(named), handed[r])
    BY <1>1, <2>1, HandedMentions
  <2> HIDE DEF named
  <2>3. {handed[r][i] : i \in 1..Len(handed[r])} =
          {named[i].code : i \in 1..Len(named)} \ {Blank}
    BY <2>2, MentionsAll
  <2>4. ASSUME NEW i \in 1..Len(handed[r]), NEW j \in 1..Len(handed[r]), i < j
        PROVE  First(named, handed[r][i]) < First(named, handed[r][j])
    BY <2>2, <2>4, MentionsInOrder
  <2> QED
    BY <2>3, <2>4 DEF named
<1> QED
  BY NamedInvariant, <1>1, PTL

=============================================================================
