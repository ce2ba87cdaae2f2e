------------------------------ MODULE Shutdown ------------------------------
(***************************************************************************)
(* metrics_prometheus_grafana/main.go: two HTTP servers in one process,    *)
(* the application's with a metrics middleware, and their graceful         *)
(* shutdown on a signal, under one deadline, any failure of which ends the *)
(* process at once (log.Fatalf).  Time is counted in ticks of a fixed      *)
(* length from the signal.  net/http is external: modelled by what its     *)
(* Shutdown does, and a connection carries one request.                    *)
(***************************************************************************)
EXTENDS Integers, FiniteSets

CONSTANTS
  Servers,  \* the application's and the metrics server
  AppServer,\* the one of them whose handler is the middleware
  Conns,    \* connections that clients may open
  ServerOf, \* the server each connection goes to
  MaxRun,   \* the longest a request takes, in ticks
  Grace,    \* the shutdown context's timeout
  NewGrace  \* by this time net/http takes a silent connection for idle

ASSUME ShutdownAssumption ==
  /\ IsFiniteSet(Conns)
  /\ ServerOf \in [Conns -> Servers]
  /\ AppServer \in Servers
  /\ MaxRun \in Nat \ {0} /\ Grace \in Nat \ {0} /\ NewGrace \in Nat

VARIABLES
  main,     \* where main is
  server,   \* each ListenAndServe goroutine
  stopping, \* servers whose Shutdown has been called
  waiter,   \* each goroutine that calls Shutdown
  conn,     \* each connection
  left,     \* ticks a request, or a silent connection, has or had left
  path,     \* what each connection's request asks for
  duration, \* requestDuration: observations by the status they are labelled
  summary,  \* requestDurationSummary: observations
  total,    \* requestsTotal, by status
  clock,    \* ticks since the signal
  exit      \* how the process ended, "no" while it runs

metricVars == <<path, duration, summary, total>>
shutdownVars == <<main, server, stopping, waiter, conn, left, metricVars, clock, exit>>

(* A request is for the one path Index serves, for another, or for what no *)
(* middleware sees: a method the mux refuses, or the metrics server.       *)
Paths == {"/", "other", "unmeasured"}

StatusOK == 200
StatusNotFound == 404
Codes == {StatusOK, StatusNotFound}

ShutdownInit ==
  /\ main = "boot"
  /\ server = [s \in Servers |-> "starting"]
  /\ stopping = {}
  /\ waiter = [s \in Servers |-> "none"]
  /\ conn = [c \in Conns |-> "none"]
  /\ left = [c \in Conns |-> 0]
  /\ path = [c \in Conns |-> "unmeasured"]
  /\ duration = [k \in Codes |-> 0]
  /\ summary = 0
  /\ total = [k \in Codes |-> 0]
  /\ clock = 0
  /\ exit = "no"

Running == exit = "no"

Exit(how) == exit' = how

-----------------------------------------------------------------------------
(* The servers and their clients. *)

Bind(s) ==
  /\ Running /\ server[s] = "starting"
  /\ server' = [server EXCEPT ![s] = IF s \in stopping THEN "closed" ELSE "serving"]
  /\ UNCHANGED <<main, stopping, waiter, conn, left, clock, exit, metricVars>>

(* ListenAndServe returns something other than ErrServerClosed: the port   *)
(* cannot be bound, also after Shutdown was called, or Accept fails.       *)
ServeFails(s) ==
  /\ Running /\ server[s] \in {"starting", "serving"}
  /\ Exit("serve error")
  /\ UNCHANGED <<main, server, stopping, waiter, conn, left, clock, metricVars>>

(* The connection may have been silent for any time when the signal comes. *)
Accept(c) ==
  /\ Running /\ conn[c] = "none"
  /\ server[ServerOf[c]] = "serving"
  /\ conn' = [conn EXCEPT ![c] = "new"]
  /\ \E n \in 0 .. NewGrace : left' = [left EXCEPT ![c] = n]
  /\ UNCHANGED <<main, server, stopping, waiter, clock, exit, metricVars>>

(* Its client leaves before it has sent a request, or ReadTimeout ends it. *)
Abandon(c) ==
  /\ Running /\ conn[c] = "new"
  /\ conn' = [conn EXCEPT ![c] = "closed"]
  /\ left' = [left EXCEPT ![c] = 0]
  /\ UNCHANGED <<main, server, stopping, waiter, clock, exit, metricVars>>

BeginRequest(c) ==
  /\ Running /\ conn[c] = "new"
  /\ conn' = [conn EXCEPT ![c] = "active"]
  /\ left' = [left EXCEPT ![c] = MaxRun]
  /\ \E p \in Paths :
       /\ ServerOf[c] # AppServer => p = "unmeasured"
       /\ path' = [path EXCEPT ![c] = p]
  /\ UNCHANGED <<main, server, stopping, waiter, clock, exit, duration, summary, total>>

(* What becomes of a reply: it goes out, or its write fails.               *)
Handled == {"answered", "lost"}

(* A reply that no middleware sees: of the metrics server, or of the mux   *)
(* for a method other than GET.                                            *)
Reply(c) ==
  /\ Running /\ conn[c] = "active" /\ path[c] = "unmeasured"
  /\ \E r \in Handled : conn' = [conn EXCEPT ![c] = r]
  /\ UNCHANGED <<main, server, stopping, waiter, left, clock, exit, metricVars>>

-----------------------------------------------------------------------------
(* MetricsMiddleware.  The reply is short: net/http sends it when the      *)
(* handler chain has returned.                                             *)

(* Index calls WriteHeader only through http.NotFound. *)
HeadersWritten(p) == IF p = "/" THEN {} ELSE {StatusNotFound}

(* The status net/http sends. *)
Sent(p) == IF HeadersWritten(p) = {} THEN StatusOK ELSE StatusNotFound

(* Mutant: the wrapper does not see WriteHeader. *)
StatusNotRecorded(p) == StatusOK

(* rw.status: the 200 it starts with, until WriteHeader is called.         *)
GetStatus(p) ==
  IF HeadersWritten(p) = {} THEN StatusOK ELSE CHOOSE k \in HeadersWritten(p) : TRUE

(* Index has returned, and its duration is observed. *)
ObserveDuration(c) ==
  /\ Running /\ conn[c] = "active" /\ path[c] # "unmeasured"
  /\ duration' = [duration EXCEPT ![GetStatus(path[c])] = @ + 1]
  /\ conn' = [conn EXCEPT ![c] = "timed"]
  /\ UNCHANGED <<main, server, stopping, waiter, left, clock, exit, path, summary, total>>

ObserveSummary(c) ==
  /\ Running /\ conn[c] = "timed"
  /\ summary' = summary + 1
  /\ conn' = [conn EXCEPT ![c] = "summed"]
  /\ UNCHANGED <<main, server, stopping, waiter, left, clock, exit, path, duration, total>>

CountRequest(c) ==
  /\ Running /\ conn[c] = "summed"
  /\ total' = [total EXCEPT ![GetStatus(path[c])] = @ + 1]
  /\ conn' = [conn EXCEPT ![c] = "counted"]
  /\ UNCHANGED <<main, server, stopping, waiter, left, clock, exit, path, duration, summary>>

Flush(c) ==
  /\ Running /\ conn[c] = "counted"
  /\ \E r \in Handled : conn' = [conn EXCEPT ![c] = r]
  /\ UNCHANGED <<main, server, stopping, waiter, left, clock, exit, metricVars>>

InMiddleware == {"timed", "summed", "counted"}
Serving == {"active"} \cup InMiddleware

Middleware(c) == ObserveSummary(c) \/ CountRequest(c) \/ Flush(c)

-----------------------------------------------------------------------------
(* main and the goroutines that wait. *)

Notify ==
  /\ Running /\ main = "boot"
  /\ main' = "waiting"
  /\ UNCHANGED <<server, stopping, waiter, conn, left, clock, exit, metricVars>>

(* Before signal.Notify a signal ends the process. *)
EarlySignal ==
  /\ Running /\ main = "boot"
  /\ Exit("signal")
  /\ UNCHANGED <<main, server, stopping, waiter, conn, left, clock, metricVars>>

Signal ==
  /\ Running /\ main = "waiting"
  /\ main' = "joining"
  /\ waiter' = [s \in Servers |-> "begin"]
  /\ UNCHANGED <<server, stopping, conn, left, clock, exit, metricVars>>

(* Mutant: the listener stays open. *)
BeginShutdownListening(s) ==
  /\ Running /\ waiter[s] = "begin"
  /\ waiter' = [waiter EXCEPT ![s] = "polling"]
  /\ stopping' = stopping \cup {s}
  /\ UNCHANGED <<main, server, conn, left, clock, exit, metricVars>>

BeginShutdown(s) ==
  /\ Running /\ waiter[s] = "begin"
  /\ waiter' = [waiter EXCEPT ![s] = "polling"]
  /\ stopping' = stopping \cup {s}
  /\ server' = [server EXCEPT ![s] = IF @ = "serving" THEN "closed" ELSE @]
  /\ UNCHANGED <<main, conn, left, clock, exit, metricVars>>

(* A connection Shutdown has to wait for: a running request, or a new      *)
(* connection that is not old enough to count as idle. *)
Busy(s) ==
  \E c \in Conns : /\ ServerOf[c] = s
                   /\ conn[c] \in Serving \/ (conn[c] = "new" /\ left[c] > 0)

IdleConns(s) == {c \in Conns : ServerOf[c] = s /\ conn[c] = "new" /\ left[c] = 0}

(* Every poll closes the idle connections, whatever the others do. *)
CloseIdle(s) ==
  /\ Running /\ waiter[s] = "polling"
  /\ Busy(s) /\ IdleConns(s) # {}
  /\ conn' = [c \in Conns |-> IF c \in IdleConns(s) THEN "closed" ELSE conn[c]]
  /\ UNCHANGED <<main, server, stopping, waiter, left, clock, exit, metricVars>>

(* The poll that finds no busy connection is the last. *)
ShutdownReturns(s) ==
  /\ Running /\ waiter[s] = "polling"
  /\ ~Busy(s)
  /\ waiter' = [waiter EXCEPT ![s] = "done"]
  /\ conn' = [c \in Conns |-> IF c \in IdleConns(s) THEN "closed" ELSE conn[c]]
  /\ UNCHANGED <<main, server, stopping, left, clock, exit, metricVars>>

(* A listener could not be closed: Shutdown says so at that last poll. *)
ShutdownFails(s) ==
  /\ Running /\ waiter[s] = "polling"
  /\ ~Busy(s)
  /\ Exit("shutdown error")
  /\ UNCHANGED <<main, server, stopping, waiter, conn, left, clock, metricVars>>

(* Mutant: the deadline is counted from the start of main. *)
ShutdownTimesOutEarly(s) ==
  /\ Running /\ waiter[s] = "polling"
  /\ Exit("deadline")
  /\ UNCHANGED <<main, server, stopping, waiter, conn, left, clock, metricVars>>

(* The deadline passed with the server busy at the last poll. *)
ShutdownTimesOut(s) ==
  /\ Running /\ waiter[s] = "polling"
  /\ clock = Grace
  /\ Exit("deadline")
  /\ UNCHANGED <<main, server, stopping, waiter, conn, left, clock, metricVars>>

(* Mutant: wg.Add counts one waiter only. *)
MainReturnsOnFirst ==
  /\ Running /\ main = "joining"
  /\ \E s \in Servers : waiter[s] = "done"
  /\ Exit("complete")
  /\ UNCHANGED <<main, server, stopping, waiter, conn, left, clock, metricVars>>

(* Mutant: wg.Add counts a waiter that never calls Done. *)
MainWaitsForMore ==
  /\ Running /\ main = "joining"
  /\ Cardinality({s \in Servers : waiter[s] = "done"}) > Cardinality(Servers)
  /\ Exit("complete")
  /\ UNCHANGED <<main, server, stopping, waiter, conn, left, clock, metricVars>>

MainReturns ==
  /\ Running /\ main = "joining"
  /\ \A s \in Servers : waiter[s] = "done"
  /\ Exit("complete")
  /\ UNCHANGED <<main, server, stopping, waiter, conn, left, clock, metricVars>>

Aged ==
  [c \in Conns |-> IF conn[c] \in {"new", "active"} /\ left[c] > 0
                   THEN left[c] - 1 ELSE left[c]]

(* Mutant: the context has no deadline. *)
TickForever ==
  /\ Running /\ main = "joining"
  /\ \E s \in Servers : waiter[s] # "done"
  /\ clock' = clock + 1
  /\ left' = Aged
  /\ UNCHANGED <<main, server, stopping, waiter, conn, exit, metricVars>>

(* A tick passes.  What is ready to happen happens within it: goroutines   *)
(* start, a poll (at most every 500 ms) finds a server or a connection     *)
(* idle, a request that has run its longest is answered, and a middleware  *)
(* whose handler has returned does too.                                    *)
Tick ==
  /\ Running /\ main = "joining"
  /\ clock < Grace
  /\ \A s \in Servers :
       waiter[s] # "begin" /\ (waiter[s] = "polling" => Busy(s) /\ IdleConns(s) = {})
  /\ \A c \in Conns : conn[c] \in Serving => conn[c] = "active" /\ left[c] > 0
  /\ \E s \in Servers : waiter[s] # "done"
  /\ clock' = clock + 1
  /\ left' = Aged
  /\ UNCHANGED <<main, server, stopping, waiter, conn, exit, metricVars>>

-----------------------------------------------------------------------------

ServerNext ==
  \/ \E s \in Servers : Bind(s) \/ ServeFails(s) \/ ShutdownFails(s)
  \/ \E c \in Conns :
       \/ Accept(c) \/ Abandon(c) \/ BeginRequest(c)
       \/ Reply(c) \/ ObserveDuration(c) \/ Middleware(c)

Joining ==
  \/ \E s \in Servers :
       BeginShutdown(s) \/ CloseIdle(s) \/ ShutdownReturns(s) \/ ShutdownTimesOut(s)
  \/ \E c \in Conns :
       \/ conn[c] = "active" /\ left[c] = 0 /\ (Reply(c) \/ ObserveDuration(c))
       \/ Middleware(c)
  \/ MainReturns
  \/ Tick

ShutdownNext == ServerNext \/ Notify \/ EarlySignal \/ Signal \/ Joining

(* Time passes, goroutines run, and a request is answered in its time.     *)
ShutdownSpec == ShutdownInit /\ [][ShutdownNext]_shutdownVars /\ WF_shutdownVars(Joining)

-----------------------------------------------------------------------------
(* Properties. *)

ShutdownTypeOK ==
  /\ main \in {"boot", "waiting", "joining"}
  /\ server \in [Servers -> {"starting", "serving", "closed"}]
  /\ stopping \in SUBSET Servers
  /\ waiter \in [Servers -> {"none", "begin", "polling", "done"}]
  /\ conn \in [Conns -> Serving \cup Handled \cup {"none", "new", "closed"}]
  /\ left \in [Conns -> 0 .. (MaxRun + NewGrace)]
  /\ path \in [Conns -> Paths]
  /\ duration \in [Codes -> Nat] /\ summary \in Nat /\ total \in [Codes -> Nat]
  /\ clock \in 0 .. Grace
  /\ exit \in {"no", "complete", "deadline", "serve error", "shutdown error", "signal"}

(* "Graceful shutdown complete" is only said when every request that had   *)
(* begun, on either server, was handled to its end, its reply gone out or  *)
(* impossible to send, and no connection was left that could begin one.    *)
CompleteMeansAnswered ==
  exit = "complete" =>
    \A c \in Conns : conn[c] \in {"none", "closed"} \cup Handled

(* The deadline strikes only over a server that still drains and had a     *)
(* request that ran for what the grace period leaves a silent connection:  *)
(* no silent connection, and no run of shorter requests, can hold up a     *)
(* shutdown until it exits under the requests of the other server.         *)
DeadlineSpares ==
  exit = "deadline" =>
    \E c \in Conns : /\ waiter[ServerOf[c]] = "polling"
                     /\ conn[c] \in Serving \cup Handled
                     /\ MaxRun - left[c] >= Grace - NewGrace

(* No request begins on a server whose Shutdown has returned.              *)
NoRequestAfterShutdown ==
  [][\A c \in Conns : waiter[ServerOf[c]] = "done" => conn'[c] # "active"]_shutdownVars

Measured(k) == {c \in Conns : path[c] # "unmeasured" /\ Sent(path[c]) = k}
Replied(k) == {c \in Measured(k) : conn[c] \in Handled}
Underway(k) == {c \in Measured(k) : conn[c] \in InMiddleware}

(* A scrape at any moment finds, for each status, no fewer requests        *)
(* counted than were given it as an answer, nor more than were observed,   *)
(* and what it finds beyond the answers is in the middleware yet; a        *)
(* complete shutdown leaves the histogram, the summary and the counter at  *)
(* the number of answers (MetricsMiddleware, StatusResponseWriter).        *)
MetricsMatchAnswers ==
  /\ \A k \in Codes :
       /\ Cardinality(Replied(k)) <= total[k]
       /\ total[k] <= duration[k]
       /\ duration[k] = Cardinality(Replied(k)) + Cardinality(Underway(k))
  /\ exit = "complete" =>
       /\ \A k \in Codes : total[k] = Cardinality(Replied(k)) /\ duration[k] = total[k]
       /\ summary = total[StatusOK] + total[StatusNotFound]

(* The process ends within the grace period of a signal.                   *)
SignalEndsProcess == main = "joining" ~> ~Running
=============================================================================
