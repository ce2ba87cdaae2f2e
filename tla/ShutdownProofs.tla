--------------------------- MODULE ShutdownProofs ---------------------------
(***************************************************************************)
(* What Shutdown promises of requests, proved for any number of servers    *)
(* and connections, any request time and any grace period.                 *)
(***************************************************************************)
EXTENDS Shutdown, TLAPS, FiniteSetTheorems

USE DEF Handled

DrainTypeOK ==
  /\ server \in [Servers -> {"starting", "serving", "closed"}]
  /\ stopping \in SUBSET Servers
  /\ waiter \in [Servers -> {"none", "begin", "polling", "done"}]
  /\ conn \in [Conns -> Serving \cup Handled \cup {"none", "new", "closed"}]
  /\ left \in [Conns -> Nat]

(* A server whose shutdown has begun accepts nothing, whether or not it    *)
(* had bound its port by then.                                             *)
ClosedToNew ==
  \A s \in Servers :
    /\ waiter[s] \in {"polling", "done"} => s \in stopping
    /\ s \in stopping => server[s] # "serving"

(* One whose shutdown has returned has no connection left that is open.    *)
Drained ==
  \A c \in Conns :
    waiter[ServerOf[c]] = "done" => conn[c] \in {"none", "closed"} \cup Handled

DrainInv ==
  /\ DrainTypeOK
  /\ ClosedToNew
  /\ Drained
  /\ main # "joining" => \A s \in Servers : waiter[s] = "none"
  /\ exit = "complete" => \A s \in Servers : waiter[s] = "done"

LEMMA DrainInit == ShutdownInit => DrainInv
BY ShutdownAssumption
   DEF ShutdownInit, DrainInv, DrainTypeOK, ClosedToNew, Drained, ShutdownAssumption

(* A connection that moves belongs to a server whose shutdown has not      *)
(* returned, or ends.                                                      *)
LEMMA ConnectionStep ==
  ASSUME DrainInv, NEW c \in Conns,
         \/ Accept(c) \/ Abandon(c) \/ BeginRequest(c)
         \/ Reply(c) \/ ObserveDuration(c) \/ Middleware(c)
  PROVE  DrainInv'
<1>1. ServerOf[c] \in Servers
  BY ShutdownAssumption DEF ShutdownAssumption
<1>2. CASE Accept(c)
  <2>1. waiter[ServerOf[c]] # "done"
    BY <1>1, <1>2 DEF Accept, DrainInv, ClosedToNew
  <2> QED
    BY <1>2, <2>1, ShutdownAssumption
       DEF ShutdownAssumption, Accept, Running, DrainInv, DrainTypeOK, ClosedToNew, Drained
<1>3. CASE BeginRequest(c)
  <2>1. waiter[ServerOf[c]] # "done"
    BY <1>1, <1>3 DEF BeginRequest, DrainInv, Drained
  <2> QED
    BY <1>3, <2>1, ShutdownAssumption
       DEF ShutdownAssumption, BeginRequest, Running, DrainInv, DrainTypeOK, ClosedToNew,
           Drained, Serving
<1>4. CASE Reply(c) \/ Abandon(c)
  BY <1>4 DEF Reply, Abandon, Running, DrainInv, DrainTypeOK, ClosedToNew, Drained
<1>5. CASE ObserveDuration(c)
  <2>1. waiter[ServerOf[c]] # "done"
    BY <1>1, <1>5 DEF ObserveDuration, DrainInv, Drained
  <2> QED
    BY <1>5, <2>1, ShutdownAssumption
       DEF ShutdownAssumption, ObserveDuration, Running, DrainInv, DrainTypeOK, ClosedToNew,
           Drained, Serving, InMiddleware
<1>6. CASE Middleware(c)
  <2>1. waiter[ServerOf[c]] # "done"
    BY <1>1, <1>6
       DEF Middleware, ObserveSummary, CountRequest, Flush, DrainInv, Drained
  <2> QED
    BY <1>6, <2>1, ShutdownAssumption
       DEF ShutdownAssumption, Middleware, ObserveSummary, CountRequest, Flush, Running,
           DrainInv, DrainTypeOK, ClosedToNew, Drained, Serving, InMiddleware
<1> QED
  BY <1>2, <1>3, <1>4, <1>5, <1>6

LEMMA ServerStep ==
  ASSUME DrainInv, NEW s \in Servers, Bind(s) \/ ServeFails(s) \/ ShutdownFails(s)
  PROVE  DrainInv'
<1>1. CASE Bind(s)
  BY <1>1 DEF Bind, Running, DrainInv, DrainTypeOK, ClosedToNew, Drained
<1>2. CASE ServeFails(s) \/ ShutdownFails(s)
  BY <1>2 DEF ServeFails, ShutdownFails, Exit, Running, DrainInv, DrainTypeOK,
    ClosedToNew, Drained
<1> QED
  BY <1>1, <1>2

LEMMA WaiterStep ==
  ASSUME DrainInv, NEW s \in Servers,
         BeginShutdown(s) \/ CloseIdle(s) \/ ShutdownReturns(s) \/ ShutdownTimesOut(s)
  PROVE  DrainInv'
<1>1. CASE BeginShutdown(s)
  BY <1>1 DEF BeginShutdown, Running, DrainInv, DrainTypeOK, ClosedToNew, Drained
<1>2. CASE ShutdownReturns(s)
  <2>1. DrainTypeOK' /\ ClosedToNew'
    BY <1>2 DEF ShutdownReturns, DrainInv, DrainTypeOK, ClosedToNew
  <2>2. ASSUME NEW c \in Conns, ServerOf[c] = s
        PROVE  conn'[c] \in {"none", "closed"} \cup Handled
    BY <1>2, <2>2 DEF ShutdownReturns, Busy, IdleConns, DrainInv, DrainTypeOK, Serving
  <2>3. ASSUME NEW c \in Conns, ServerOf[c] # s
        PROVE  conn'[c] = conn[c] /\ waiter'[ServerOf[c]] = waiter[ServerOf[c]]
    BY <1>2, <2>3, ShutdownAssumption
       DEF ShutdownReturns, IdleConns, DrainInv, DrainTypeOK, ShutdownAssumption
  <2>4. Drained'
    BY <2>2, <2>3 DEF Drained, DrainInv
  <2> QED
    BY <1>2, <2>1, <2>4 DEF ShutdownReturns, Running, DrainInv
<1>3. CASE ShutdownTimesOut(s)
  BY <1>3 DEF ShutdownTimesOut, Exit, Running, DrainInv, DrainTypeOK, ClosedToNew, Drained
<1>4. CASE CloseIdle(s)
  BY <1>4 DEF CloseIdle, Running, DrainInv, DrainTypeOK, ClosedToNew, Drained
<1> QED
  BY <1>1, <1>2, <1>3, <1>4

LEMMA MainStep ==
  ASSUME DrainInv, Notify \/ EarlySignal \/ Signal \/ MainReturns \/ Tick
  PROVE  DrainInv'
<1>1. CASE Notify
  BY <1>1 DEF Notify, Running, DrainInv, DrainTypeOK, ClosedToNew, Drained
<1>2. CASE EarlySignal
  BY <1>2 DEF EarlySignal, Exit, Running, DrainInv, DrainTypeOK, ClosedToNew, Drained
<1>3. CASE Signal
  BY <1>3, ShutdownAssumption
     DEF Signal, Running, DrainInv, DrainTypeOK, ClosedToNew, Drained, ShutdownAssumption
<1>4. CASE MainReturns
  BY <1>4 DEF MainReturns, Exit, Running, DrainInv, DrainTypeOK, ClosedToNew, Drained
<1>5. CASE Tick
  BY <1>5 DEF Tick, Aged, Running, DrainInv, DrainTypeOK, ClosedToNew, Drained
<1> QED
  BY <1>1, <1>2, <1>3, <1>4, <1>5

LEMMA DrainNext == DrainInv /\ [ShutdownNext]_shutdownVars => DrainInv'
<1> SUFFICES ASSUME DrainInv, [ShutdownNext]_shutdownVars PROVE DrainInv'
  OBVIOUS
<1>1. CASE UNCHANGED shutdownVars
  BY <1>1 DEF shutdownVars, metricVars, DrainInv, DrainTypeOK, ClosedToNew, Drained
<1>2. CASE ShutdownNext
  BY <1>2, ConnectionStep, ServerStep, WaiterStep, MainStep
     DEF ShutdownNext, ServerNext, Joining
<1> QED
  BY <1>1, <1>2

(* DrainInv holds throughout: what the two results below rest on.          *)
THEOREM DrainInvariant == ShutdownSpec => []DrainInv
BY DrainInit, DrainNext, PTL DEF ShutdownSpec

(* main says "Graceful shutdown complete" only when every request that had *)
(* begun was answered and no connection is left that could begin one,      *)
(* whatever the two Shutdown calls and the clients do meanwhile.           *)
THEOREM CompleteIsTrue == ShutdownSpec => []CompleteMeansAnswered
<1>1. DrainInv => CompleteMeansAnswered
  BY ShutdownAssumption DEF DrainInv, Drained, CompleteMeansAnswered, ShutdownAssumption
<1> QED
  BY <1>1, DrainInvariant, PTL

LEMMA DoneStays ==
  ASSUME DrainInv, [ShutdownNext]_shutdownVars, NEW s \in Servers, waiter[s] = "done"
  PROVE  waiter'[s] = "done"
<1>1. main = "joining"
  BY DEF DrainInv
<1>2. ASSUME NEW t \in Servers,
             BeginShutdown(t) \/ CloseIdle(t) \/ ShutdownReturns(t) \/ ShutdownTimesOut(t)
      PROVE  waiter'[s] = "done"
  BY <1>2 DEF BeginShutdown, CloseIdle, ShutdownReturns, ShutdownTimesOut, DrainInv,
    DrainTypeOK
<1>3. CASE UNCHANGED shutdownVars
  BY <1>3 DEF shutdownVars, metricVars
<1>4. CASE ServerNext \/ Notify \/ EarlySignal \/ MainReturns \/ Tick
  BY <1>4 DEF ServerNext, Notify, EarlySignal, MainReturns, Tick, Bind, ServeFails,
    ShutdownFails, Accept, Abandon, BeginRequest, Reply, ObserveDuration, Middleware,
    ObserveSummary, CountRequest, Flush
<1>5. ~Signal
  BY <1>1 DEF Signal
<1>6. CASE \E c \in Conns : Reply(c) \/ ObserveDuration(c) \/ Middleware(c)
  BY <1>6 DEF Reply, ObserveDuration, Middleware, ObserveSummary, CountRequest, Flush
<1> QED
  BY <1>2, <1>3, <1>4, <1>5, <1>6 DEF ShutdownNext, Joining

(* No request begins on a server whose Shutdown has returned.              *)
THEOREM NothingAfterShutdown == ShutdownSpec => NoRequestAfterShutdown
<1>1. ASSUME DrainInv, DrainInv', [ShutdownNext]_shutdownVars
      PROVE  [\A c \in Conns : waiter[ServerOf[c]] = "done" => conn'[c] # "active"]_shutdownVars
  <2>1. ASSUME NEW c \in Conns, waiter[ServerOf[c]] = "done"
        PROVE  conn'[c] # "active"
    <3>1. waiter'[ServerOf[c]] = "done"
      BY <1>1, <2>1, DoneStays, ShutdownAssumption DEF ShutdownAssumption
    <3> QED
      BY <1>1, <3>1 DEF DrainInv, Drained
  <2> QED
    BY <2>1
<1> QED
  BY <1>1, DrainInvariant, PTL DEF ShutdownSpec, NoRequestAfterShutdown

LEMMA TypeInit == ShutdownInit => ShutdownTypeOK
BY ShutdownAssumption DEF ShutdownInit, ShutdownTypeOK, Paths, Codes, ShutdownAssumption

(* The status that is recorded is the one that is sent.                    *)
LEMMA StatusRecorded ==
  ASSUME NEW p \in Paths
  PROVE  GetStatus(p) = Sent(p) /\ Sent(p) \in Codes
<1>1. CASE p = "/"
  BY <1>1 DEF GetStatus, Sent, HeadersWritten, Codes
<1>2. CASE p # "/"
  <2>1. HeadersWritten(p) = {StatusNotFound} /\ HeadersWritten(p) # {}
    BY <1>2 DEF HeadersWritten
  <2>2. (CHOOSE k \in {StatusNotFound} : TRUE) = StatusNotFound
    OBVIOUS
  <2> QED
    BY <2>1, <2>2 DEF GetStatus, Sent, Codes
<1> QED
  BY <1>1, <1>2

LEMMA AgedTypes ==
  ASSUME ShutdownTypeOK
  PROVE  /\ Aged \in [Conns -> 0 .. (MaxRun + NewGrace)]
         /\ \A c \in Conns : left[c] \in Int /\ Aged[c] \in Int
<1>1. MaxRun \in Nat /\ NewGrace \in Nat
  BY ShutdownAssumption DEF ShutdownAssumption
<1>2. ASSUME NEW c \in Conns
      PROVE  left[c] \in Int /\ Aged[c] \in 0 .. (MaxRun + NewGrace)
  <2>1. left[c] \in 0 .. (MaxRun + NewGrace)
    BY DEF ShutdownTypeOK
  <2>2. CASE conn[c] \in {"new", "active"} /\ left[c] > 0
    <3>1. Aged[c] = left[c] - 1
      BY <2>2 DEF Aged
    <3> QED
      BY <1>1, <2>1, <2>2, <3>1
  <2>3. CASE ~(conn[c] \in {"new", "active"} /\ left[c] > 0)
    <3>1. Aged[c] = left[c]
      BY <2>3 DEF Aged
    <3> QED
      BY <1>1, <2>1, <3>1
  <2> QED
    BY <2>2, <2>3
<1>3. Aged = [c \in Conns |-> Aged[c]]
  BY DEF Aged
<1> QED
  BY <1>1, <1>2, <1>3

LEMMA TypeNext == ShutdownTypeOK /\ [ShutdownNext]_shutdownVars => ShutdownTypeOK'
<1> SUFFICES ASSUME ShutdownTypeOK, [ShutdownNext]_shutdownVars PROVE ShutdownTypeOK'
  OBVIOUS
<1>1. MaxRun \in Nat /\ NewGrace \in Nat /\ Grace \in Nat
  BY ShutdownAssumption DEF ShutdownAssumption
<1>2. NewGrace \in 0 .. (MaxRun + NewGrace) /\ MaxRun \in 0 .. (MaxRun + NewGrace)
  BY <1>1
<1>3. CASE UNCHANGED shutdownVars
  BY <1>3 DEF ShutdownTypeOK, shutdownVars, metricVars
<1>4. ASSUME NEW s \in Servers,
             \/ Bind(s) \/ ServeFails(s) \/ ShutdownFails(s) \/ BeginShutdown(s)
             \/ ShutdownReturns(s) \/ ShutdownTimesOut(s) \/ CloseIdle(s)
      PROVE  ShutdownTypeOK'
  BY <1>4 DEF ShutdownTypeOK, Bind, ServeFails, ShutdownFails, BeginShutdown,
    ShutdownReturns, ShutdownTimesOut, CloseIdle, Exit, metricVars
<1>5. ASSUME NEW c \in Conns, Accept(c) \/ Abandon(c)
      PROVE  ShutdownTypeOK'
  <2>1. \A n \in 0 .. NewGrace : n \in 0 .. (MaxRun + NewGrace)
    BY <1>1
  <2>2. 0 \in 0 .. NewGrace
    BY <1>1
  <2>3. left' \in [Conns -> 0 .. (MaxRun + NewGrace)]
    BY <1>5, <2>1, <2>2 DEF ShutdownTypeOK, Accept, Abandon
  <2> QED
    BY <1>5, <2>3 DEF ShutdownTypeOK, Accept, Abandon, metricVars
<1>6. ASSUME NEW c \in Conns, BeginRequest(c)
      PROVE  ShutdownTypeOK'
  <2>1. path' \in [Conns -> Paths]
    BY <1>6 DEF ShutdownTypeOK, BeginRequest
  <2>2. left' \in [Conns -> 0 .. (MaxRun + NewGrace)]
    BY <1>2, <1>6 DEF ShutdownTypeOK, BeginRequest
  <2>3. conn' \in [Conns -> Serving \cup Handled \cup {"none", "new", "closed"}]
    BY <1>6 DEF ShutdownTypeOK, BeginRequest, Serving
  <2> QED
    BY <1>6, <2>1, <2>2, <2>3 DEF ShutdownTypeOK, BeginRequest
<1>7. ASSUME NEW c \in Conns, Reply(c) \/ Flush(c)
      PROVE  ShutdownTypeOK'
  BY <1>7 DEF ShutdownTypeOK, Reply, Flush, metricVars
<1>8. ASSUME NEW c \in Conns, ObserveDuration(c) \/ ObserveSummary(c) \/ CountRequest(c)
      PROVE  ShutdownTypeOK'
  <2>1. path[c] \in Paths /\ duration \in [Codes -> Nat] /\ total \in [Codes -> Nat]
    BY DEF ShutdownTypeOK
  <2>2. GetStatus(path[c]) \in Codes
    BY <2>1, StatusRecorded
  <2>3. conn' \in [Conns -> Serving \cup Handled \cup {"none", "new", "closed"}]
    BY <1>8 DEF ShutdownTypeOK, ObserveDuration, ObserveSummary, CountRequest, Serving,
      InMiddleware
  <2>4. CASE ObserveDuration(c)
    <3>1. duration' \in [Codes -> Nat]
      BY <2>1, <2>2, <2>4 DEF ObserveDuration
    <3> QED
      BY <2>3, <2>4, <3>1 DEF ShutdownTypeOK, ObserveDuration
  <2>5. CASE ObserveSummary(c)
    <3>1. summary \in Nat
      BY DEF ShutdownTypeOK
    <3>2. summary' \in Nat
      BY <2>5, <3>1 DEF ObserveSummary
    <3> QED
      BY <2>3, <2>5, <3>2 DEF ShutdownTypeOK, ObserveSummary
  <2>6. CASE CountRequest(c)
    <3>1. total' \in [Codes -> Nat]
      BY <2>1, <2>2, <2>6 DEF CountRequest
    <3> QED
      BY <2>3, <2>6, <3>1 DEF ShutdownTypeOK, CountRequest
  <2> QED
    BY <1>8, <2>4, <2>5, <2>6
<1>9. CASE Notify \/ EarlySignal \/ Signal \/ MainReturns
  BY <1>9 DEF ShutdownTypeOK, Notify, EarlySignal, Signal, MainReturns, Exit, metricVars
<1>10. CASE Tick
  <2>1. left' \in [Conns -> 0 .. (MaxRun + NewGrace)]
    BY <1>10, AgedTypes DEF Tick
  <2>2. clock \in 0 .. Grace
    BY DEF ShutdownTypeOK
  <2>3. clock' \in 0 .. Grace
    BY <1>1, <1>10, <2>2 DEF Tick
  <2> QED
    BY <1>10, <2>1, <2>3 DEF ShutdownTypeOK, Tick, metricVars
<1> QED
  BY <1>3, <1>4, <1>5, <1>6, <1>7, <1>8, <1>9, <1>10
     DEF ShutdownNext, ServerNext, Joining, Middleware

(* Every variable of the servers, the connections and the metrics keeps    *)
(* its type, and the clock stays within the grace period.                  *)
THEOREM ShutdownTypes == ShutdownSpec => []ShutdownTypeOK
BY TypeInit, TypeNext, PTL DEF ShutdownSpec

-----------------------------------------------------------------------------
(* Time: what the deadline strikes over. *)

(* No time passes before every server is stopping ...                      *)
ClockInv ==
  /\ main # "joining" => clock = 0
  /\ main = "joining" => \A s \in Servers : waiter[s] # "none"
  /\ clock > 0 => \A s \in Servers : waiter[s] \in {"polling", "done"}

(* ... so that a connection that is silent at some tick was so from the    *)
(* first, and a request that runs at one began while it was young.         *)
AgeInv ==
  /\ \A c \in Conns : conn[c] = "new" => left[c] <= NewGrace - clock
  /\ \A c \in Conns : conn[c] \in Serving => MaxRun - left[c] >= clock - NewGrace

(* A request that ran for what the grace period leaves after a silence.    *)
RanLong(c) ==
  /\ conn[c] \in Serving \cup Handled
  /\ MaxRun - left[c] >= Grace - NewGrace

StrikeInv ==
  clock = Grace =>
    \A s \in Servers : waiter[s] = "polling" =>
                          \E c \in Conns : ServerOf[c] = s /\ RanLong(c)

TimeInv == ClockInv /\ AgeInv /\ StrikeInv /\ DeadlineSpares

LEMMA Numbers ==
  ASSUME ShutdownTypeOK
  PROVE  /\ MaxRun \in Nat /\ NewGrace \in Nat /\ Grace \in Nat /\ clock \in 0 .. Grace
         /\ clock \in Nat
         /\ \A c \in Conns : left[c] \in Nat
<1>1. MaxRun \in Nat /\ NewGrace \in Nat /\ Grace \in Nat
  BY ShutdownAssumption DEF ShutdownAssumption
<1>2. clock \in 0 .. Grace
  BY DEF ShutdownTypeOK
<1>3. ASSUME NEW c \in Conns PROVE left[c] \in Nat
  <2>1. left[c] \in 0 .. (MaxRun + NewGrace)
    BY DEF ShutdownTypeOK
  <2> QED
    BY <1>1, <2>1
<1> QED
  BY <1>1, <1>2, <1>3

LEMMA TimeInit == ShutdownInit => TimeInv
<1> SUFFICES ASSUME ShutdownInit PROVE TimeInv
  OBVIOUS
<1>1. Grace # 0
  BY ShutdownAssumption DEF ShutdownAssumption
<1>2. \A c \in Conns : conn[c] = "none"
  BY DEF ShutdownInit
<1>3. ClockInv
  BY DEF ShutdownInit, ClockInv
<1>4. AgeInv
  BY <1>2 DEF AgeInv, Serving, InMiddleware
<1>5. StrikeInv /\ DeadlineSpares
  BY <1>1 DEF ShutdownInit, StrikeInv, DeadlineSpares
<1> QED
  BY <1>3, <1>4, <1>5 DEF TimeInv

LEMMA ClockStep ==
  ASSUME ShutdownTypeOK, DrainInv, ClockInv, ShutdownNext
  PROVE  ClockInv'
<1>1. clock \in Nat
  BY Numbers
<1>2. waiter \in [Servers -> {"none", "begin", "polling", "done"}]
  BY DEF ShutdownTypeOK
<1>3. ASSUME NEW s \in Servers,
             \/ Bind(s) \/ ServeFails(s) \/ ShutdownFails(s) \/ CloseIdle(s)
             \/ ShutdownTimesOut(s)
      PROVE  ClockInv'
  BY <1>3 DEF ClockInv, Bind, ServeFails, ShutdownFails, CloseIdle, ShutdownTimesOut
<1>4. ASSUME NEW c \in Conns,
             \/ Accept(c) \/ Abandon(c) \/ BeginRequest(c)
             \/ Reply(c) \/ ObserveDuration(c) \/ Middleware(c)
      PROVE  ClockInv'
  BY <1>4 DEF ClockInv, Accept, Abandon, BeginRequest, Reply, ObserveDuration, Middleware,
    ObserveSummary, CountRequest, Flush
<1>5. ASSUME NEW s \in Servers, BeginShutdown(s) \/ ShutdownReturns(s)
      PROVE  ClockInv'
  BY <1>2, <1>5 DEF ClockInv, BeginShutdown, ShutdownReturns
<1>6. CASE Notify \/ EarlySignal \/ MainReturns
  BY <1>6 DEF ClockInv, Notify, EarlySignal, MainReturns
<1>7. CASE Signal
  BY <1>7 DEF ClockInv, Signal
<1>8. CASE Tick
  BY <1>2, <1>8 DEF ClockInv, Tick
<1> QED
  BY <1>3, <1>4, <1>5, <1>6, <1>7, <1>8 DEF ShutdownNext, ServerNext, Joining

(* At a tick every server drains, and has no silent connection that is old.*)
LEMMA TickAges ==
  ASSUME ShutdownTypeOK, DrainInv, ClockInv, Tick, NEW c \in Conns,
         conn[c] \in Serving \/ conn[c] = "new"
  PROVE  left[c] > 0 /\ left'[c] = left[c] - 1 /\ (conn[c] \in Serving => conn[c] = "active")
<1>1. left[c] \in Nat /\ ServerOf[c] \in Servers
  BY ShutdownAssumption DEF DrainInv, DrainTypeOK, ShutdownAssumption
<1>2. CASE conn[c] \in Serving
  <2>1. conn[c] = "active" /\ left[c] > 0
    BY <1>2 DEF Tick
  <2> QED
    BY <2>1 DEF Tick, Aged
<1>3. CASE conn[c] = "new"
  <2>1. waiter[ServerOf[c]] \in {"polling", "done"}
    BY <1>1 DEF ClockInv, Tick, DrainInv, DrainTypeOK
  <2>2. waiter[ServerOf[c]] # "done"
    BY <1>3 DEF DrainInv, Drained
  <2>3. IdleConns(ServerOf[c]) = {}
    BY <1>1, <2>1, <2>2 DEF Tick
  <2>4. left[c] # 0
    BY <1>3, <2>3 DEF IdleConns
  <2>5. left[c] > 0
    BY <1>1, <2>4
  <2>6. conn[c] \notin Serving
    BY <1>3 DEF Serving, InMiddleware
  <2> QED
    BY <1>3, <2>5, <2>6 DEF Tick, Aged
<1> QED
  BY <1>2, <1>3

LEMMA AgeStep ==
  ASSUME ShutdownTypeOK, DrainInv, ClockInv, AgeInv, ShutdownNext
  PROVE  AgeInv'
<1>1. /\ clock \in Int /\ MaxRun \in Int /\ NewGrace \in Int
      /\ left \in [Conns -> Int] /\ \A c \in Conns : left[c] >= 0
  BY Numbers DEF DrainInv, DrainTypeOK
<1>2. conn \in [Conns -> Serving \cup Handled \cup {"none", "new", "closed"}]
  BY DEF ShutdownTypeOK
<1>3. ASSUME NEW c \in Conns, Accept(c)
      PROVE  AgeInv'
  <2>1. ServerOf[c] \in Servers /\ server[ServerOf[c]] = "serving"
    BY <1>3, ShutdownAssumption DEF Accept, ShutdownAssumption
  <2>2. waiter[ServerOf[c]] \notin {"polling", "done"}
    BY <2>1 DEF DrainInv, ClosedToNew
  <2>3. clock \in Nat
    BY Numbers
  <2>4. clock = 0
    BY <2>1, <2>2, <2>3 DEF ClockInv
  <2>5. \A n \in 0 .. NewGrace : n <= NewGrace - clock
    BY <1>1, <2>4
  <2> QED
    BY <1>1, <1>2, <1>3, <2>5 DEF Accept, AgeInv, Serving, InMiddleware
<1>4. ASSUME NEW c \in Conns, BeginRequest(c)
      PROVE  AgeInv'
  <2>1. left[c] <= NewGrace - clock /\ left[c] >= 0
    BY <1>1, <1>4 DEF BeginRequest, AgeInv
  <2>2. MaxRun - MaxRun >= clock - NewGrace
    BY <1>1, <2>1
  <2> QED
    BY <1>1, <1>2, <1>4, <2>2 DEF BeginRequest, AgeInv
<1>5. ASSUME NEW c \in Conns, Abandon(c) \/ Reply(c) \/ ObserveDuration(c) \/ Middleware(c)
      PROVE  AgeInv'
  <2>1. CASE Abandon(c)
    <3>1. /\ conn'[c] = "closed" /\ clock' = clock
          /\ \A d \in Conns \ {c} : conn'[d] = conn[d] /\ left'[d] = left[d]
      BY <1>1, <1>2, <2>1 DEF Abandon
    <3> QED
      BY <3>1 DEF AgeInv, Serving, InMiddleware
  <2>2. CASE Reply(c) \/ ObserveDuration(c) \/ Middleware(c)
    BY <1>2, <2>2 DEF AgeInv, Reply, ObserveDuration, Middleware, ObserveSummary,
      CountRequest, Flush, Serving, InMiddleware
  <2> QED
    BY <1>5, <2>1, <2>2
<1>6. ASSUME NEW s \in Servers, CloseIdle(s) \/ ShutdownReturns(s)
      PROVE  AgeInv'
  BY <1>6 DEF AgeInv, CloseIdle, ShutdownReturns, Serving, InMiddleware
<1>7. ASSUME NEW s \in Servers,
             \/ Bind(s) \/ ServeFails(s) \/ ShutdownFails(s) \/ BeginShutdown(s)
             \/ ShutdownTimesOut(s)
      PROVE  AgeInv'
  BY <1>7 DEF AgeInv, Bind, ServeFails, ShutdownFails, BeginShutdown, ShutdownTimesOut
<1>8. CASE Notify \/ EarlySignal \/ Signal \/ MainReturns
  BY <1>8 DEF AgeInv, Notify, EarlySignal, Signal, MainReturns
<1>9. CASE Tick
  <2>1. conn' = conn /\ clock' = clock + 1
    BY <1>9 DEF Tick
  <2>2. ASSUME NEW c \in Conns, conn[c] = "new"
        PROVE  left'[c] <= NewGrace - clock'
    <3>1. left[c] <= NewGrace - clock /\ left'[c] = left[c] - 1
      BY <1>9, <2>2, TickAges DEF AgeInv
    <3> QED
      BY <1>1, <2>1, <3>1
  <2>3. ASSUME NEW c \in Conns, conn[c] \in Serving
        PROVE  MaxRun - left'[c] >= clock' - NewGrace
    <3>1. MaxRun - left[c] >= clock - NewGrace /\ left'[c] = left[c] - 1
      BY <1>9, <2>3, TickAges DEF AgeInv
    <3> QED
      BY <1>1, <2>1, <3>1
  <2> QED
    BY <2>1, <2>2, <2>3 DEF AgeInv, Serving
<1> QED
  BY <1>3, <1>4, <1>5, <1>6, <1>7, <1>8, <1>9 DEF ShutdownNext, ServerNext, Joining

(* A request that ran long stays the reason until the process ends.        *)
LEMMA RanLongStays ==
  ASSUME ShutdownTypeOK, DrainInv, ShutdownNext, clock' = clock, NEW c \in Conns, RanLong(c)
  PROVE  RanLong(c)'
<1>1. clock + 1 # clock
  BY Numbers
<1>2. conn \in [Conns -> Serving \cup Handled \cup {"none", "new", "closed"}]
  BY DEF DrainInv, DrainTypeOK
<1>3. conn[c] \notin {"none", "new", "closed"}
  BY DEF RanLong, Serving, InMiddleware
<1>4. ASSUME NEW d \in Conns,
             \/ Accept(d) \/ Abandon(d) \/ BeginRequest(d)
             \/ Reply(d) \/ ObserveDuration(d) \/ Middleware(d)
      PROVE  left'[c] = left[c] /\ conn'[c] \in Serving \cup Handled
  BY <1>2, <1>3, <1>4 DEF RanLong, DrainInv, DrainTypeOK, Accept, Abandon, BeginRequest,
    Reply, ObserveDuration, Middleware, ObserveSummary, CountRequest, Flush, Serving,
    InMiddleware
<1>5. ASSUME NEW s \in Servers, CloseIdle(s) \/ ShutdownReturns(s)
      PROVE  left'[c] = left[c] /\ conn'[c] = conn[c]
  BY <1>3, <1>5 DEF CloseIdle, ShutdownReturns, IdleConns
<1>6. ASSUME NEW s \in Servers,
             \/ Bind(s) \/ ServeFails(s) \/ ShutdownFails(s) \/ BeginShutdown(s)
             \/ ShutdownTimesOut(s)
      PROVE  left'[c] = left[c] /\ conn'[c] = conn[c]
  BY <1>6 DEF Bind, ServeFails, ShutdownFails, BeginShutdown, ShutdownTimesOut
<1>7. CASE Notify \/ EarlySignal \/ Signal \/ MainReturns \/ Tick
  <2>1. ASSUME Tick PROVE FALSE
    BY <1>1, <2>1 DEF Tick
  <2> QED
    BY <1>7, <2>1 DEF Notify, EarlySignal, Signal, MainReturns, RanLong
<1> QED
  BY <1>4, <1>5, <1>6, <1>7 DEF ShutdownNext, ServerNext, Joining, RanLong

LEMMA StrikeStep ==
  ASSUME NewGrace < Grace, ShutdownTypeOK, DrainInv, ClockInv, AgeInv, AgeInv', StrikeInv,
         ShutdownNext
  PROVE  StrikeInv'
<1> SUFFICES ASSUME clock' = Grace, NEW s \in Servers, waiter'[s] = "polling"
             PROVE  \E c \in Conns : ServerOf[c] = s /\ RanLong(c)'
  BY DEF StrikeInv
<1>1. clock \in Nat /\ Grace \in Nat /\ NewGrace \in Nat /\ Grace # 0
  BY Numbers, ShutdownAssumption DEF ShutdownAssumption
<1>2. CASE clock' = clock
  <2>1. waiter[s] \in {"polling", "done"}
    BY <1>1, <1>2 DEF ClockInv
  <2>2. waiter[s] # "done"
    BY DoneStays
  <2>3. PICK c \in Conns : ServerOf[c] = s /\ RanLong(c)
    BY <1>2, <2>1, <2>2 DEF StrikeInv
  <2> QED
    BY <1>2, <2>3, RanLongStays
<1>3. CASE Tick
  <2>1. clock + 1 = Grace /\ conn' = conn /\ waiter' = waiter
    BY <1>3 DEF Tick
  <2>2. PICK c \in Conns : /\ ServerOf[c] = s
                           /\ conn[c] \in Serving \/ (conn[c] = "new" /\ left[c] > 0)
    BY <1>3, <2>1 DEF Tick, Busy
  <2>3. conn[c] # "new"
    <3>1. conn[c] = "new" => left[c] <= NewGrace - clock /\ left[c] > 0
      BY <1>3, TickAges DEF AgeInv
    <3>2. left[c] \in Nat
      BY Numbers
    <3> QED
      BY <1>1, <2>1, <3>1, <3>2
  <2>4. MaxRun - left'[c] >= Grace - NewGrace
    BY <2>1, <2>2, <2>3 DEF AgeInv
  <2> QED
    BY <2>1, <2>2, <2>3, <2>4 DEF RanLong
<1>4. clock' = clock \/ Tick
  BY DEF ShutdownNext, ServerNext, Joining, Bind, ServeFails, ShutdownFails, Accept,
    Abandon, BeginRequest, Reply, ObserveDuration, Middleware, ObserveSummary,
    CountRequest, Flush, BeginShutdown, CloseIdle, ShutdownReturns, ShutdownTimesOut,
    Notify, EarlySignal, Signal, MainReturns
<1> QED
  BY <1>2, <1>3, <1>4

(* The deadline is an exit of a poll only, and the last step there is.     *)
LEMMA DeadlineStep ==
  ASSUME ShutdownTypeOK, DrainInv, StrikeInv, ShutdownNext
  PROVE  DeadlineSpares'
<1>1. ASSUME NEW s \in Servers, ShutdownTimesOut(s)
      PROVE  DeadlineSpares'
  <2>1. PICK c \in Conns : ServerOf[c] = s /\ RanLong(c)
    BY <1>1 DEF ShutdownTimesOut, StrikeInv
  <2>2. waiter[ServerOf[c]] = "polling"
    BY <1>1, <2>1 DEF ShutdownTimesOut
  <2> QED
    BY <1>1, <2>1, <2>2 DEF ShutdownTimesOut, DeadlineSpares, RanLong, Serving
<1>2. CASE ~\E s \in Servers : ShutdownTimesOut(s)
  <2>1. exit' # "deadline"
    BY <1>2 DEF ShutdownNext, ServerNext, Joining, Bind, ServeFails, ShutdownFails,
      Accept, Abandon, BeginRequest, Reply, ObserveDuration, Middleware, ObserveSummary,
      CountRequest, Flush, BeginShutdown, CloseIdle, ShutdownReturns, Notify, EarlySignal,
      Signal, MainReturns, Tick, Exit, Running
  <2> QED
    BY <2>1 DEF DeadlineSpares
<1> QED
  BY <1>1, <1>2

(* When net/http's patience with a silent connection is shorter than the   *)
(* grace period (6.5 s at most against the 10 s of the code), the deadline *)
(* strikes only over a request that ran for the rest of it.                *)
THEOREM DeadlineIsForLongRequests ==
  ASSUME NewGrace < Grace
  PROVE  ShutdownSpec => []DeadlineSpares
<1>1. ShutdownInit => TimeInv
  BY TimeInit
<1>2. /\ ShutdownTypeOK /\ ShutdownTypeOK' /\ DrainInv /\ DrainInv'
      /\ TimeInv /\ [ShutdownNext]_shutdownVars
      => TimeInv'
  <2> SUFFICES ASSUME ShutdownTypeOK, ShutdownTypeOK', DrainInv, DrainInv', TimeInv,
                      [ShutdownNext]_shutdownVars
               PROVE  TimeInv'
    OBVIOUS
  <2>1. CASE UNCHANGED shutdownVars
    BY <2>1 DEF shutdownVars, metricVars, TimeInv, ClockInv, AgeInv, StrikeInv,
      DeadlineSpares, RanLong
  <2>2. CASE ShutdownNext
    <3>1. ClockInv' /\ AgeInv'
      BY <2>2, ClockStep, AgeStep DEF TimeInv
    <3>2. StrikeInv' /\ DeadlineSpares'
      BY <2>2, <3>1, StrikeStep, DeadlineStep DEF TimeInv
    <3> QED
      BY <3>1, <3>2 DEF TimeInv
  <2> QED
    BY <2>1, <2>2
<1>3. TimeInv => DeadlineSpares
  BY DEF TimeInv
<1> QED
  BY <1>1, <1>2, <1>3, ShutdownTypes, DrainInvariant, PTL DEF ShutdownSpec

-----------------------------------------------------------------------------
(* The metrics: what each collector holds is the number of the requests    *)
(* that are past the call on it.                                           *)

Observed(k) == {c \in Measured(k) : conn[c] \in InMiddleware \cup Handled}
Counted(k) == {c \in Measured(k) : conn[c] \in {"counted"} \cup Handled}
Summarised ==
  {c \in Conns : path[c] # "unmeasured" /\ conn[c] \in {"summed", "counted"} \cup Handled}

MetricsInv ==
  /\ \A c \in Conns : conn[c] \in InMiddleware => path[c] # "unmeasured"
  /\ \A k \in Codes : duration[k] = Cardinality(Observed(k))
  /\ \A k \in Codes : total[k] = Cardinality(Counted(k))
  /\ summary = Cardinality(Summarised)

LEMMA SubsetsFinite ==
  ASSUME NEW X \in SUBSET Conns
  PROVE  IsFiniteSet(X) /\ Cardinality(X) \in Nat
BY ShutdownAssumption, FS_Subset, FS_CardinalityType DEF ShutdownAssumption

LEMMA OneMore ==
  ASSUME NEW X \in SUBSET Conns, NEW c \in Conns, c \notin X
  PROVE  Cardinality(X \cup {c}) = Cardinality(X) + 1
<1>1. IsFiniteSet(X)
  BY SubsetsFinite
<1> QED
  BY <1>1, FS_AddElement

LEMMA DisjointSum ==
  ASSUME NEW X \in SUBSET Conns, NEW Y \in SUBSET Conns, X \cap Y = {}
  PROVE  Cardinality(X \cup Y) = Cardinality(X) + Cardinality(Y)
<1>1. IsFiniteSet(X) /\ IsFiniteSet(Y) /\ Cardinality(X) \in Nat /\ Cardinality(Y) \in Nat
  BY SubsetsFinite
<1>2. Cardinality(X \cup Y) = Cardinality(X) + Cardinality(Y) - Cardinality(X \cap Y)
  BY <1>1, FS_Union
<1>3. Cardinality(X \cap Y) = 0
  BY FS_EmptySet
<1> QED
  BY <1>1, <1>2, <1>3

LEMMA MetricsInit == ShutdownInit => MetricsInv
<1> SUFFICES ASSUME ShutdownInit PROVE MetricsInv
  OBVIOUS
<1>1. \A k \in Codes : Observed(k) = {} /\ Counted(k) = {}
  BY DEF ShutdownInit, Observed, Counted, Measured, InMiddleware
<1>2. Summarised = {}
  BY DEF ShutdownInit, Summarised
<1>3. Cardinality({}) = 0
  BY FS_EmptySet
<1>4. \A c \in Conns : conn[c] \notin InMiddleware
  BY DEF ShutdownInit, InMiddleware
<1> QED
  BY <1>1, <1>2, <1>3, <1>4 DEF ShutdownInit, MetricsInv

(* A step that no collector sees moves no request past a call on one.      *)
LEMMA UnseenStep ==
  ASSUME MetricsInv, UNCHANGED <<duration, summary, total>>,
         \A c \in Conns :
           \/ conn'[c] = conn[c] /\ path'[c] = path[c]
           \/ /\ conn[c] \notin InMiddleware \cup Handled
              /\ conn'[c] \notin InMiddleware \cup Handled
           \/ path[c] = "unmeasured" /\ path'[c] = "unmeasured" /\ conn'[c] \notin InMiddleware
           \/ conn[c] = "counted" /\ conn'[c] \in Handled /\ path'[c] = path[c]
  PROVE  MetricsInv'
<1>1. \A k \in Codes : Observed(k)' = Observed(k) /\ Counted(k)' = Counted(k)
  BY DEF Observed, Counted, Measured, InMiddleware
<1>2. Summarised' = Summarised
  BY DEF Summarised, InMiddleware
<1>3. \A c \in Conns : conn'[c] \in InMiddleware => path'[c] # "unmeasured"
  BY DEF MetricsInv, InMiddleware
<1> QED
  BY <1>1, <1>2, <1>3 DEF MetricsInv

LEMMA ObserveStep ==
  ASSUME ShutdownTypeOK, MetricsInv, NEW c \in Conns, ObserveDuration(c)
  PROVE  MetricsInv'
<1>1. /\ conn[c] = "active" /\ path[c] # "unmeasured" /\ path' = path
      /\ conn' = [conn EXCEPT ![c] = "timed"] /\ conn'[c] = "timed"
      /\ \A d \in Conns : d # c => conn'[d] = conn[d]
      /\ summary' = summary /\ total' = total
  BY DEF ObserveDuration, ShutdownTypeOK
<1>2. path[c] \in Paths /\ duration \in [Codes -> Nat]
  BY DEF ShutdownTypeOK
<1>3. GetStatus(path[c]) = Sent(path[c]) /\ Sent(path[c]) \in Codes
  BY <1>2, StatusRecorded
<1>4. ASSUME NEW k \in Codes
      PROVE  duration'[k] = Cardinality(Observed(k)')
  <2>1. c \notin Observed(k) /\ Observed(k) \in SUBSET Conns
    BY <1>1 DEF Observed, Measured, InMiddleware
  <2>2. CASE k = Sent(path[c])
    <3>1. Observed(k)' = Observed(k) \cup {c}
      BY <1>1, <2>2 DEF Observed, Measured, InMiddleware
    <3>2. duration'[k] = duration[k] + 1
      BY <1>2, <1>3, <2>2 DEF ObserveDuration
    <3> QED
      BY <2>1, <3>1, <3>2, OneMore DEF MetricsInv
  <2>3. CASE k # Sent(path[c])
    <3>1. Observed(k)' = Observed(k)
      BY <1>1, <2>1, <2>3 DEF Observed, Measured, InMiddleware
    <3>2. duration'[k] = duration[k]
      BY <1>2, <1>3, <2>3 DEF ObserveDuration
    <3> QED
      BY <3>1, <3>2 DEF MetricsInv
  <2> QED
    BY <2>2, <2>3
<1>5. \A k \in Codes : Counted(k)' = Counted(k)
  BY <1>1 DEF Counted, Measured
<1>6. Summarised' = Summarised
  BY <1>1 DEF Summarised
<1>7. \A d \in Conns : conn'[d] \in InMiddleware => path'[d] # "unmeasured"
  BY <1>1 DEF MetricsInv
<1> QED
  BY <1>1, <1>4, <1>5, <1>6, <1>7 DEF MetricsInv

LEMMA SummaryStep ==
  ASSUME ShutdownTypeOK, MetricsInv, NEW c \in Conns, ObserveSummary(c)
  PROVE  MetricsInv'
<1>1. /\ conn[c] = "timed" /\ path' = path /\ conn'[c] = "summed"
      /\ \A d \in Conns : d # c => conn'[d] = conn[d]
      /\ summary' = summary + 1 /\ duration' = duration /\ total' = total
  BY DEF ObserveSummary, ShutdownTypeOK
<1>2. path[c] # "unmeasured"
  BY <1>1 DEF MetricsInv, InMiddleware
<1>3. \A k \in Codes : Observed(k)' = Observed(k) /\ Counted(k)' = Counted(k)
  BY <1>1 DEF Observed, Counted, Measured, InMiddleware
<1>4. c \notin Summarised /\ Summarised \in SUBSET Conns
  BY <1>1 DEF Summarised
<1>5. Summarised' = Summarised \cup {c}
  BY <1>1, <1>2 DEF Summarised
<1>6. summary' = Cardinality(Summarised')
  BY <1>1, <1>4, <1>5, OneMore DEF MetricsInv
<1>7. \A d \in Conns : conn'[d] \in InMiddleware => path'[d] # "unmeasured"
  BY <1>1, <1>2 DEF MetricsInv
<1> QED
  BY <1>1, <1>3, <1>6, <1>7 DEF MetricsInv

LEMMA CountStep ==
  ASSUME ShutdownTypeOK, MetricsInv, NEW c \in Conns, CountRequest(c)
  PROVE  MetricsInv'
<1>1. /\ conn[c] = "summed" /\ path' = path /\ conn'[c] = "counted"
      /\ \A d \in Conns : d # c => conn'[d] = conn[d]
      /\ summary' = summary /\ duration' = duration
  BY DEF CountRequest, ShutdownTypeOK
<1>2. path[c] \in Paths /\ total \in [Codes -> Nat] /\ path[c] # "unmeasured"
  BY <1>1 DEF ShutdownTypeOK, MetricsInv, InMiddleware
<1>3. GetStatus(path[c]) = Sent(path[c]) /\ Sent(path[c]) \in Codes
  BY <1>2, StatusRecorded
<1>4. ASSUME NEW k \in Codes
      PROVE  total'[k] = Cardinality(Counted(k)')
  <2>1. c \notin Counted(k) /\ Counted(k) \in SUBSET Conns
    BY <1>1 DEF Counted, Measured
  <2>2. CASE k = Sent(path[c])
    <3>1. Counted(k)' = Counted(k) \cup {c}
      BY <1>1, <1>2, <2>2 DEF Counted, Measured
    <3>2. total'[k] = total[k] + 1
      BY <1>2, <1>3, <2>2 DEF CountRequest
    <3> QED
      BY <2>1, <3>1, <3>2, OneMore DEF MetricsInv
  <2>3. CASE k # Sent(path[c])
    <3>1. Counted(k)' = Counted(k)
      BY <1>1, <2>1, <2>3 DEF Counted, Measured
    <3>2. total'[k] = total[k]
      BY <1>2, <1>3, <2>3 DEF CountRequest
    <3> QED
      BY <3>1, <3>2 DEF MetricsInv
  <2> QED
    BY <2>2, <2>3
<1>5. \A k \in Codes : Observed(k)' = Observed(k)
  BY <1>1 DEF Observed, Measured, InMiddleware
<1>6. Summarised' = Summarised
  BY <1>1 DEF Summarised
<1>7. \A d \in Conns : conn'[d] \in InMiddleware => path'[d] # "unmeasured"
  BY <1>1, <1>2 DEF MetricsInv
<1> QED
  BY <1>1, <1>4, <1>5, <1>6, <1>7 DEF MetricsInv

LEMMA MetricsNext ==
  ShutdownTypeOK /\ MetricsInv /\ [ShutdownNext]_shutdownVars => MetricsInv'
<1> SUFFICES ASSUME ShutdownTypeOK, MetricsInv, [ShutdownNext]_shutdownVars
             PROVE  MetricsInv'
  OBVIOUS
<1> DEFINE Unseen ==
      /\ UNCHANGED <<duration, summary, total>>
      /\ \A c \in Conns :
           \/ conn'[c] = conn[c] /\ path'[c] = path[c]
           \/ /\ conn[c] \notin InMiddleware \cup Handled
              /\ conn'[c] \notin InMiddleware \cup Handled
           \/ path[c] = "unmeasured" /\ path'[c] = "unmeasured" /\ conn'[c] \notin InMiddleware
           \/ conn[c] = "counted" /\ conn'[c] \in Handled /\ path'[c] = path[c]
<1>1. Unseen => MetricsInv'
  BY UnseenStep
<1>2. CASE UNCHANGED <<conn, metricVars>>
  BY <1>1, <1>2 DEF metricVars
<1>3. ASSUME NEW c \in Conns, Accept(c) \/ Abandon(c) \/ BeginRequest(c)
      PROVE  Unseen
  BY <1>3, ZenonT(60) DEF Accept, Abandon, BeginRequest, metricVars, ShutdownTypeOK,
    InMiddleware
<1>4. ASSUME NEW c \in Conns, Reply(c) \/ Flush(c)
      PROVE  Unseen
  <2>1. CASE Reply(c)
    BY <2>1 DEF Reply, metricVars, ShutdownTypeOK, InMiddleware
  <2>2. CASE Flush(c)
    BY <2>2 DEF Flush, metricVars, ShutdownTypeOK, InMiddleware
  <2> QED
    BY <1>4, <2>1, <2>2
<1>5. ASSUME NEW s \in Servers, CloseIdle(s) \/ ShutdownReturns(s)
      PROVE  Unseen
  BY <1>5 DEF CloseIdle, ShutdownReturns, IdleConns, metricVars, InMiddleware
<1>6. ASSUME NEW c \in Conns, ObserveDuration(c) \/ ObserveSummary(c) \/ CountRequest(c)
      PROVE  MetricsInv'
  BY <1>6, ObserveStep, SummaryStep, CountStep
<1>7. \/ UNCHANGED <<conn, metricVars>>
      \/ \E c \in Conns :
           \/ Accept(c) \/ Abandon(c) \/ BeginRequest(c) \/ Reply(c) \/ Flush(c)
           \/ ObserveDuration(c) \/ ObserveSummary(c) \/ CountRequest(c)
      \/ \E s \in Servers : CloseIdle(s) \/ ShutdownReturns(s)
  BY DEF ShutdownNext, ServerNext, Joining, Middleware, Bind, ServeFails, ShutdownFails,
    BeginShutdown, ShutdownTimesOut, Notify, EarlySignal, Signal, MainReturns, Tick,
    shutdownVars
<1> HIDE DEF Unseen
<1> QED
  BY <1>1, <1>2, <1>3, <1>4, <1>5, <1>6, <1>7

(* Whatever the clients and the two shutdowns do, and whenever it is       *)
(* scraped: no collector misses a request that was answered or counts one  *)
(* twice, and a complete shutdown leaves the three of them in agreement.   *)
THEOREM MetricsAgree == ShutdownSpec => []MetricsMatchAnswers
<1>1. MetricsInv /\ CompleteMeansAnswered => MetricsMatchAnswers
  <2> SUFFICES ASSUME MetricsInv, CompleteMeansAnswered PROVE MetricsMatchAnswers
    OBVIOUS
  <2>1. ASSUME NEW k \in Codes
        PROVE  /\ Cardinality(Replied(k)) <= total[k]
               /\ total[k] <= duration[k]
               /\ duration[k] = Cardinality(Replied(k)) + Cardinality(Underway(k))
    <3>1. /\ Replied(k) \in SUBSET Counted(k) /\ Counted(k) \in SUBSET Observed(k)
          /\ Observed(k) \in SUBSET Conns /\ Counted(k) \in SUBSET Conns
      BY DEF Replied, Counted, Observed, Measured, InMiddleware
    <3>2. IsFiniteSet(Observed(k)) /\ IsFiniteSet(Counted(k))
      BY <3>1, SubsetsFinite
    <3>3. Cardinality(Replied(k)) <= Cardinality(Counted(k))
      BY <3>1, <3>2, FS_Subset
    <3>4. Cardinality(Counted(k)) <= Cardinality(Observed(k))
      BY <3>1, <3>2, FS_Subset
    <3>5. /\ Observed(k) = Replied(k) \cup Underway(k)
          /\ Replied(k) \cap Underway(k) = {}
          /\ Replied(k) \in SUBSET Conns /\ Underway(k) \in SUBSET Conns
      BY DEF Observed, Replied, Underway, Measured, InMiddleware
    <3>6. Cardinality(Observed(k)) = Cardinality(Replied(k)) + Cardinality(Underway(k))
      BY <3>5, DisjointSum
    <3> QED
      BY <3>3, <3>4, <3>6 DEF MetricsInv
  <2>2. ASSUME exit = "complete"
        PROVE  /\ \A k \in Codes : total[k] = Cardinality(Replied(k)) /\ duration[k] = total[k]
               /\ summary = total[StatusOK] + total[StatusNotFound]
    <3>1. \A c \in Conns : conn[c] \in {"none", "closed"} \cup Handled
      BY <2>2 DEF CompleteMeansAnswered
    <3>2. \A k \in Codes : Observed(k) = Replied(k) /\ Counted(k) = Replied(k)
      BY <3>1 DEF Observed, Counted, Replied, Measured, InMiddleware
    <3>3. /\ Summarised = Replied(StatusOK) \cup Replied(StatusNotFound)
          /\ Replied(StatusOK) \cap Replied(StatusNotFound) = {}
          /\ Replied(StatusOK) \in SUBSET Conns /\ Replied(StatusNotFound) \in SUBSET Conns
      BY <3>1 DEF Summarised, Replied, Measured, Sent, StatusOK, StatusNotFound
    <3>4. Cardinality(Summarised)
            = Cardinality(Replied(StatusOK)) + Cardinality(Replied(StatusNotFound))
      BY <3>3, DisjointSum
    <3>5. StatusOK \in Codes /\ StatusNotFound \in Codes
      BY DEF Codes
    <3> QED
      BY <3>2, <3>4, <3>5 DEF MetricsInv
  <2> QED
    BY <2>1, <2>2 DEF MetricsMatchAnswers
<1> QED
  BY <1>1, MetricsInit, MetricsNext, ShutdownTypes, CompleteIsTrue, PTL DEF ShutdownSpec
-----------------------------------------------------------------------------
(* Termination, as far as it is a matter of safety. *)

(* The guards of Joining: some goroutine, or the clock, can take a step.   *)
CanGoOn ==
  \/ \E s \in Servers :
       \/ waiter[s] = "begin"
       \/ waiter[s] = "polling" /\ (~Busy(s) \/ IdleConns(s) # {} \/ clock = Grace)
  \/ \E c \in Conns : conn[c] \in InMiddleware \/ (conn[c] = "active" /\ left[c] = 0)
  \/ \A s \in Servers : waiter[s] = "done"
  \/ /\ clock < Grace
     /\ \A s \in Servers :
          waiter[s] # "begin" /\ (waiter[s] = "polling" => Busy(s) /\ IdleConns(s) = {})
     /\ \A c \in Conns : conn[c] \in Serving => conn[c] = "active" /\ left[c] > 0
     /\ \E s \in Servers : waiter[s] # "done"

(* After a signal the process always has a next step of its own until it   *)
(* exits: wg.Wait never waits for a Shutdown that waits for nothing, and a *)
(* client that does nothing is not what everything waits for.              *)
THEOREM ShutdownNeverStalls == ShutdownSpec => [](main = "joining" /\ Running => CanGoOn)
<1>1. ShutdownTypeOK /\ ClockInv => (main = "joining" /\ Running => CanGoOn)
  <2> SUFFICES ASSUME ShutdownTypeOK, ClockInv, main = "joining", ~CanGoOn
               PROVE  FALSE
    OBVIOUS
  <2>1. \A s \in Servers : waiter[s] \in {"polling", "done"}
    BY DEF CanGoOn, ShutdownTypeOK, ClockInv
  <2>2. PICK s \in Servers : waiter[s] = "polling"
    BY <2>1 DEF CanGoOn
  <2>3. clock < Grace
    BY <2>2, Numbers DEF CanGoOn
  <2>4. \A r \in Servers : waiter[r] = "polling" => Busy(r) /\ IdleConns(r) = {}
    BY DEF CanGoOn
  <2>5. \A c \in Conns : conn[c] \in Serving => conn[c] = "active" /\ left[c] > 0
    BY Numbers DEF CanGoOn, Serving
  <2> QED
    BY <2>1, <2>2, <2>3, <2>4, <2>5 DEF CanGoOn
<1>2. ShutdownSpec => []ClockInv
  <2>1. ShutdownInit => ClockInv
    BY DEF ShutdownInit, ClockInv
  <2>2. ASSUME ShutdownTypeOK, DrainInv, ClockInv, [ShutdownNext]_shutdownVars
        PROVE  ClockInv'
    <3>1. CASE UNCHANGED shutdownVars
      BY <2>2, <3>1 DEF shutdownVars, ClockInv
    <3> QED
      BY <2>2, <3>1, ClockStep
  <2> QED
    BY <2>1, <2>2, ShutdownTypes, DrainInvariant, PTL DEF ShutdownSpec
<1> QED
  BY <1>1, <1>2, ShutdownTypes, PTL

(* The steps a server's goroutines, a connection and main can still take.  *)
WaiterLeft(w) == CASE w = "none" -> 3 [] w = "begin" -> 2 [] w = "polling" -> 1 [] OTHER -> 0

ServerWork(s) == (IF server[s] = "starting" THEN 1 ELSE 0) + WaiterLeft(waiter[s])

StepsOf(k) ==
  CASE k = "none" -> 7 [] k = "new" -> 6 [] k = "active" -> 5 [] k = "timed" -> 4
    [] k = "summed" -> 3 [] k = "counted" -> 2 [] OTHER -> 0

ConnWork(c) == StepsOf(conn[c])

MainLeft(m) == CASE m = "boot" -> 2 [] m = "waiting" -> 1 [] OTHER -> 0

MainWork ==
  MainLeft(main) + (IF Running THEN 1 ELSE 0) + (Grace - clock)

WorkOK ==
  /\ \A s \in Servers : ServerWork(s) \in 0 .. 4
  /\ \A c \in Conns : ConnWork(c) \in 0 .. 7
  /\ MainWork \in 0 .. (Grace + 3)

ShutdownAdvances ==
  /\ \A s \in Servers : ServerWork(s)' <= ServerWork(s)
  /\ \A c \in Conns : ConnWork(c)' <= ConnWork(c)
  /\ MainWork' <= MainWork
  /\ \/ \E s \in Servers : ServerWork(s)' < ServerWork(s)
     \/ \E c \in Conns : ConnWork(c)' < ConnWork(c)
     \/ MainWork' < MainWork

LEMMA LeftFacts ==
  /\ WaiterLeft("none") = 3 /\ WaiterLeft("begin") = 2
  /\ WaiterLeft("polling") = 1 /\ WaiterLeft("done") = 0
  /\ StepsOf("none") = 7 /\ StepsOf("new") = 6 /\ StepsOf("active") = 5
  /\ StepsOf("timed") = 4 /\ StepsOf("summed") = 3 /\ StepsOf("counted") = 2
  /\ StepsOf("answered") = 0 /\ StepsOf("lost") = 0 /\ StepsOf("closed") = 0
  /\ MainLeft("boot") = 2 /\ MainLeft("waiting") = 1 /\ MainLeft("joining") = 0
<1>1. /\ WaiterLeft("none") = 3 /\ WaiterLeft("begin") = 2
      /\ WaiterLeft("polling") = 1 /\ WaiterLeft("done") = 0
  BY DEF WaiterLeft
<1>2. /\ StepsOf("none") = 7 /\ StepsOf("new") = 6 /\ StepsOf("active") = 5
      /\ StepsOf("timed") = 4 /\ StepsOf("summed") = 3 /\ StepsOf("counted") = 2
      /\ StepsOf("answered") = 0 /\ StepsOf("lost") = 0 /\ StepsOf("closed") = 0
  BY DEF StepsOf
<1>3. MainLeft("boot") = 2 /\ MainLeft("waiting") = 1 /\ MainLeft("joining") = 0
  BY DEF MainLeft
<1> QED
  BY <1>1, <1>2, <1>3

LEMMA LeftTypes ==
  /\ \A w : WaiterLeft(w) \in 0 .. 3
  /\ \A k : StepsOf(k) \in 0 .. 7
  /\ \A m : MainLeft(m) \in 0 .. 2
<1>1. \A w : WaiterLeft(w) \in 0 .. 3
  BY DEF WaiterLeft
<1>2. \A k : StepsOf(k) \in 0 .. 7
  BY DEF StepsOf
<1>3. \A m : MainLeft(m) \in 0 .. 2
  BY DEF MainLeft
<1> QED
  BY <1>1, <1>2, <1>3

LEMMA WorkNumbers ==
  /\ \A s : ServerWork(s) \in 0 .. 4 /\ ServerWork(s)' \in 0 .. 4
  /\ \A c : ConnWork(c) \in 0 .. 7 /\ ConnWork(c)' \in 0 .. 7
<1>1. \A s : ServerWork(s) \in 0 .. 4 /\ ServerWork(s)' \in 0 .. 4
  BY LeftTypes DEF ServerWork
<1>2. \A c : ConnWork(c) \in 0 .. 7 /\ ConnWork(c)' \in 0 .. 7
  BY LeftTypes DEF ConnWork
<1> QED
  BY <1>1, <1>2

LEMMA WorkTyped == ShutdownTypeOK => WorkOK
<1> SUFFICES ASSUME ShutdownTypeOK PROVE WorkOK
  OBVIOUS
<1>1. MainWork \in 0 .. (Grace + 3)
  BY Numbers, LeftTypes DEF MainWork
<1> QED
  BY <1>1, WorkNumbers DEF WorkOK

(* What leaves a part of the state alone leaves its work alone. *)
LEMMA WorkStays ==
  ASSUME ShutdownTypeOK
  PROVE  /\ UNCHANGED <<server, waiter>> => \A s \in Servers : ServerWork(s)' <= ServerWork(s)
         /\ UNCHANGED conn => \A c \in Conns : ConnWork(c)' <= ConnWork(c)
         /\ UNCHANGED <<main, exit, clock>> => MainWork' <= MainWork
<1>1. /\ \A s \in Servers : ServerWork(s) \in 0 .. 4
      /\ \A c \in Conns : ConnWork(c) \in 0 .. 7
      /\ MainWork \in Int
  BY WorkTyped, Numbers DEF WorkOK
<1>2. UNCHANGED <<server, waiter>> => \A s \in Servers : ServerWork(s)' = ServerWork(s)
  BY DEF ServerWork
<1>3. UNCHANGED conn => \A c \in Conns : ConnWork(c)' = ConnWork(c)
  BY DEF ConnWork
<1>4. UNCHANGED <<main, exit, clock>> => MainWork' = MainWork
  BY DEF MainWork, Running
<1> QED
  BY <1>1, <1>2, <1>3, <1>4

LEMMA ServerAdvances ==
  ASSUME ShutdownTypeOK, NEW s \in Servers, Bind(s) \/ BeginShutdown(s)
  PROVE  ShutdownAdvances
<1>1. UNCHANGED <<conn, main, exit, clock>>
  BY DEF Bind, BeginShutdown
<1>2. \A r \in Servers \ {s} : ServerWork(r)' = ServerWork(r)
  BY DEF Bind, BeginShutdown, ServerWork, ShutdownTypeOK
<1>3. ServerWork(s)' < ServerWork(s)
  <2>1. CASE Bind(s)
    <3>1. server[s] = "starting" /\ server'[s] # "starting" /\ waiter'[s] = waiter[s]
      BY <2>1 DEF Bind, ShutdownTypeOK
    <3> QED
      BY <3>1, LeftTypes DEF ServerWork
  <2>2. CASE BeginShutdown(s)
    <3>1. /\ waiter[s] = "begin" /\ waiter'[s] = "polling"
          /\ server'[s] = "starting" <=> server[s] = "starting"
      BY <2>2 DEF BeginShutdown, ShutdownTypeOK
    <3> QED
      BY <3>1, LeftFacts DEF ServerWork
  <2> QED
    BY <2>1, <2>2
<1>4. \A r \in Servers : ServerWork(r)' <= ServerWork(r)
  BY <1>2, <1>3, WorkNumbers
<1> QED
  BY <1>1, <1>3, <1>4, WorkStays DEF ShutdownAdvances

LEMMA ConnAdvances ==
  ASSUME ShutdownTypeOK, NEW c \in Conns,
         \/ Accept(c) \/ Abandon(c) \/ BeginRequest(c)
         \/ Reply(c) \/ ObserveDuration(c) \/ Middleware(c)
  PROVE  ShutdownAdvances
<1>1. UNCHANGED <<server, waiter, main, exit, clock>>
  BY DEF Accept, Abandon, BeginRequest, Reply, ObserveDuration, Middleware, ObserveSummary,
    CountRequest, Flush
<1>2. \E k : conn' = [conn EXCEPT ![c] = k] /\ StepsOf(k) < StepsOf(conn[c])
  BY LeftFacts DEF Accept, Abandon, BeginRequest, Reply, ObserveDuration, Middleware,
    ObserveSummary, CountRequest, Flush
<1>3. PICK k : conn' = [conn EXCEPT ![c] = k] /\ StepsOf(k) < StepsOf(conn[c])
  BY <1>2
<1>4. conn'[c] = k /\ \A d \in Conns \ {c} : conn'[d] = conn[d]
  BY <1>3 DEF ShutdownTypeOK
<1>5. ConnWork(c)' < ConnWork(c)
  BY <1>3, <1>4 DEF ConnWork
<1>6. \A d \in Conns \ {c} : ConnWork(d)' = ConnWork(d)
  BY <1>4 DEF ConnWork
<1>7. \A d \in Conns : ConnWork(d)' <= ConnWork(d)
  BY <1>5, <1>6, WorkNumbers
<1> QED
  BY <1>1, <1>5, <1>7, WorkStays DEF ShutdownAdvances

(* A poll closes connections, which have no step left then. *)
LEMMA PollAdvances ==
  ASSUME ShutdownTypeOK, NEW s \in Servers, CloseIdle(s) \/ ShutdownReturns(s)
  PROVE  ShutdownAdvances
<1>1. UNCHANGED <<server, main, exit, clock>>
  BY DEF CloseIdle, ShutdownReturns
<1>2. conn' = [c \in Conns |-> IF c \in IdleConns(s) THEN "closed" ELSE conn[c]]
  BY DEF CloseIdle, ShutdownReturns
<1>3. \A c \in IdleConns(s) : c \in Conns /\ conn[c] = "new" /\ conn'[c] = "closed"
  BY <1>2 DEF IdleConns
<1>4. \A c \in Conns \ IdleConns(s) : ConnWork(c)' = ConnWork(c)
  BY <1>2 DEF ConnWork
<1>5. \A c \in IdleConns(s) : ConnWork(c)' < ConnWork(c)
  BY <1>3, LeftFacts DEF ConnWork
<1>6. \A c \in Conns : ConnWork(c)' <= ConnWork(c)
  BY <1>4, <1>5, WorkNumbers
<1>7. CASE CloseIdle(s)
  <2>1. PICK c : c \in IdleConns(s)
    BY <1>7 DEF CloseIdle
  <2>2. UNCHANGED <<server, waiter>> /\ c \in Conns
    BY <1>3, <1>7, <2>1 DEF CloseIdle
  <2> QED
    BY <1>1, <1>5, <1>6, <2>1, <2>2, WorkStays DEF ShutdownAdvances
<1>8. CASE ShutdownReturns(s)
  <2>1. ServerWork(s)' < ServerWork(s)
    <3>1. waiter[s] = "polling" /\ waiter'[s] = "done" /\ server'[s] = server[s]
      BY <1>8 DEF ShutdownReturns, ShutdownTypeOK
    <3> QED
      BY <3>1, LeftFacts DEF ServerWork
  <2>2. \A r \in Servers \ {s} : ServerWork(r)' = ServerWork(r)
    BY <1>8 DEF ShutdownReturns, ServerWork, ShutdownTypeOK
  <2>3. \A r \in Servers : ServerWork(r)' <= ServerWork(r)
    BY <2>1, <2>2, WorkNumbers
  <2> QED
    BY <1>1, <1>6, <2>1, <2>3, WorkStays DEF ShutdownAdvances
<1> QED
  BY <1>7, <1>8

LEMMA MainAdvances ==
  ASSUME ShutdownTypeOK, DrainInv,
         \/ Notify \/ EarlySignal \/ Signal \/ MainReturns \/ Tick
         \/ \E s \in Servers : ServeFails(s) \/ ShutdownFails(s) \/ ShutdownTimesOut(s)
  PROVE  ShutdownAdvances
<1>1. UNCHANGED <<server, conn>>
  BY DEF Notify, EarlySignal, Signal, MainReturns, Tick, ServeFails, ShutdownFails,
    ShutdownTimesOut
<1>2. MainWork' < MainWork /\ MainWork' <= MainWork
  <2>1. MainLeft(main) \in 0 .. 2 /\ Grace \in Nat /\ clock \in Nat
    BY Numbers, LeftTypes
  <2>2. CASE Notify \/ Signal
    <3>1. /\ MainLeft(main') = MainLeft(main) - 1 /\ UNCHANGED <<exit, clock>>
      BY <2>2, LeftFacts DEF Notify, Signal
    <3> QED
      BY <2>1, <3>1 DEF MainWork, Running
  <2>3. CASE Tick
    BY <2>1, <2>3 DEF Tick, MainWork, Running
  <2>4. CASE \/ EarlySignal \/ MainReturns
             \/ \E s \in Servers : ServeFails(s) \/ ShutdownFails(s) \/ ShutdownTimesOut(s)
    <3>1. main' = main /\ clock' = clock /\ Running /\ ~Running'
      BY <2>4 DEF EarlySignal, MainReturns, ServeFails, ShutdownFails, ShutdownTimesOut,
        Exit, Running
    <3> QED
      BY <2>1, <3>1 DEF MainWork
  <2> QED
    BY <2>2, <2>3, <2>4
<1>3. \A s \in Servers : ServerWork(s)' <= ServerWork(s)
  <2>1. CASE Signal
    BY <2>1, LeftFacts DEF Signal, ServerWork, DrainInv
  <2>2. CASE UNCHANGED waiter
    BY <1>1, <2>2, WorkStays
  <2> QED
    BY <2>1, <2>2 DEF Notify, EarlySignal, MainReturns, Tick, ServeFails, ShutdownFails,
      ShutdownTimesOut
<1> QED
  BY <1>1, <1>2, <1>3, WorkStays DEF ShutdownAdvances

(* Every step leaves a goroutine of a server, a connection or main with    *)
(* less to do and none with more, of a total that the grace period and the *)
(* numbers of servers and connections fix: without any fairness, no poll,  *)
(* no tick and no order of requests keeps the process going.               *)
THEOREM ShutdownStepsRunOut ==
  ShutdownSpec => []WorkOK /\ [][ShutdownAdvances]_shutdownVars
<1>1. ASSUME ShutdownTypeOK, DrainInv, [ShutdownNext]_shutdownVars
      PROVE  [ShutdownAdvances]_shutdownVars
  <2> SUFFICES ASSUME ShutdownNext PROVE ShutdownAdvances
    BY <1>1
  <2> QED
    BY <1>1, ServerAdvances, ConnAdvances, PollAdvances, MainAdvances
    DEF ShutdownNext, ServerNext, Joining
<1> QED
  BY <1>1, WorkTyped, ShutdownTypes, DrainInvariant, PTL DEF ShutdownSpec
=============================================================================
