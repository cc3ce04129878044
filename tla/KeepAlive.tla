----------------------------- MODULE KeepAlive -----------------------------
(***************************************************************************)
(* session/keepalive/handler.go: the round tripper that starts a goroutine *)
(* at Login, which keeps the session alive with a periodic send, and stops *)
(* it at Logout or when send fails.                                        *)
(*                                                                         *)
(* Clients are goroutines of the program that use the handler.  Keep-alive *)
(* goroutine g owns stop channel g.  Start holds h.mu without blocking, so *)
(* it is one step; Stop may wait inside, so it is two.                     *)
(*                                                                         *)
(* Its names differ from those of SessionManager, the other side of the    *)
(* session, so that SessionProofs can extend both.                         *)
(***************************************************************************)
EXTENDS Integers, FiniteSets

CONSTANTS
    Clients,    \* goroutines that log in and out through the handler
    MaxLogins,  \* bound on the requests that call Start
    Kinds,      \* of handlers: TRUE is HandlerREST with its default send, FALSE HandlerSOAP
    Nobody      \* h.mu is not held

Goroutines == 1 .. MaxLogins    \* each request starts at most one
Actors == Clients \cup Goroutines

ASSUME KeepAliveAssumption ==
    /\ MaxLogins \in Nat
    /\ IsFiniteSet(Clients)
    /\ Kinds \subseteq BOOLEAN
    /\ Clients \cap Goroutines = {}
    /\ Nobody \notin Actors

VARIABLES
    mu,         \* h.mu: the actor that waits inside Stop, or Nobody
    notifyStop, \* h.notifyStop: a channel, or 0 for nil
    closed,     \* the stop channels that have been closed
    wg,         \* the counter of h.notifyWaitGroup
    started,    \* the keep-alive goroutines created so far are 1 .. started
    logins,     \* the requests so far that call Start
    place,      \* where each client and keep-alive goroutine is
    rest        \* the kind of the handler

handler == <<mu, notifyStop, closed, wg, started, logins, place, rest>>

Locations == {
    "idle",         \* a client between two requests
    "loginStart",   \* Login succeeded: at Start
    "checkStart",   \* a session check succeeded: at Start
    "stop",         \* at Stop's h.mu.Lock()
    "stopWait",     \* in Stop, at h.notifyWaitGroup.Wait()
    "unborn",       \* a goroutine that has not been created
    "select",       \* the goroutine waits for the channel or the timer
    "send",         \* in h.send()
    "sentStart",    \* in send, which succeeded: at Start (REST)
    "failedStart",  \* in send, which will fail: at Start (REST)
    "failed",       \* send returned an error
    "exited"}

HandlerInit ==
    /\ mu = Nobody
    /\ notifyStop = 0
    /\ closed = {}
    /\ wg = 0
    /\ started = 0
    /\ logins = 0
    /\ place = [a \in Actors |-> IF a \in Clients THEN "idle" ELSE "unborn"]
    /\ rest \in Kinds

-----------------------------------------------------------------------------
(* Faulty variants, each detected by a property at the end of the module.  *)

(* Stop that does not wait for the goroutine. *)
StopWithoutWait(a) ==
    /\ place[a] = "stopWait"
    /\ notifyStop' = 0
    /\ mu' = Nobody
    /\ place' = [place EXCEPT ![a] = IF a \in Clients THEN "idle" ELSE "exited"]
    /\ UNCHANGED <<closed, wg, started, logins, rest>>

(* Stop that does not close the channel. *)
StopWithoutClose(a) ==
    /\ place[a] = "stop"
    /\ mu = Nobody
    /\ mu' = IF notifyStop # 0 THEN a ELSE mu
    /\ place' = [place EXCEPT ![a] = IF notifyStop # 0 THEN "stopWait"
                                     ELSE IF a \in Clients THEN "idle" ELSE "exited"]
    /\ UNCHANGED <<closed, notifyStop, wg, started, logins, rest>>

(* A goroutine that stops itself before it is done, as Stop expects it to be. *)
StopBeforeDone(g) ==
    /\ place[g] = "failed"
    /\ place' = [place EXCEPT ![g] = "stop"]
    /\ UNCHANGED <<mu, notifyStop, closed, wg, started, logins, rest>>

-----------------------------------------------------------------------------
(* Start, called by a, which goes on to next. *)
Start(a, next) ==
    /\ mu = Nobody
    /\ IF notifyStop # 0
       THEN /\ place' = [place EXCEPT ![a] = next]
            /\ UNCHANGED <<notifyStop, wg, started>>
       ELSE /\ started' = started + 1
            /\ notifyStop' = started + 1
            /\ wg' = wg + 1
            /\ place' = [place EXCEPT ![a] = next, ![started + 1] = "select"]
    /\ UNCHANGED <<mu, closed, logins>>

(* Stop returns: a client's request goes on, a goroutine ends. *)
AfterStop(a) == IF a \in Clients THEN "idle" ELSE "exited"

StopEnter(a) ==
    /\ place[a] = "stop"
    /\ mu = Nobody
    /\ IF notifyStop # 0
       THEN /\ mu' = a
            /\ closed' = closed \cup {notifyStop}
            /\ place' = [place EXCEPT ![a] = "stopWait"]
       ELSE /\ place' = [place EXCEPT ![a] = AfterStop(a)]
            /\ UNCHANGED <<mu, closed>>
    /\ UNCHANGED <<notifyStop, wg, started, logins, rest>>

StopWait(a) ==
    /\ place[a] = "stopWait"
    /\ wg = 0
    /\ notifyStop' = 0
    /\ mu' = Nobody
    /\ place' = [place EXCEPT ![a] = AfterStop(a)]
    /\ UNCHANGED <<closed, wg, started, logins, rest>>

-----------------------------------------------------------------------------
(* RoundTrip.  Requests that fail in transport change nothing. *)

(* A Login request succeeded. *)
RoundTripLogin(c) ==
    /\ place[c] = "idle"
    /\ logins < MaxLogins
    /\ logins' = logins + 1
    /\ place' = [place EXCEPT ![c] = "loginStart"]
    /\ UNCHANGED <<mu, notifyStop, closed, wg, started, rest>>

LoginStart(c) ==
    /\ place[c] = "loginStart"
    /\ Start(c, "idle")
    /\ UNCHANGED rest

(* Client.Session POSTs to the session path, which RoundTrip takes for Login. *)
Check(c) ==
    /\ rest
    /\ place[c] = "idle"
    /\ logins < MaxLogins
    /\ logins' = logins + 1
    /\ place' = [place EXCEPT ![c] = "checkStart"]
    /\ UNCHANGED <<mu, notifyStop, closed, wg, started, rest>>

CheckStart(c) ==
    /\ place[c] = "checkStart"
    /\ Start(c, "idle")
    /\ UNCHANGED rest

RoundTripLogout(c) ==
    /\ place[c] = "idle"
    /\ place' = [place EXCEPT ![c] = "stop"]
    /\ UNCHANGED <<mu, notifyStop, closed, wg, started, logins, rest>>

-----------------------------------------------------------------------------
(* The keep-alive goroutine *)

(* The select reads the field h.notifyStop, not the channel of its Start. *)
Notified(g) ==
    /\ place[g] = "select"
    /\ notifyStop \in closed
    /\ wg' = wg - 1
    /\ place' = [place EXCEPT ![g] = "exited"]
    /\ UNCHANGED <<mu, notifyStop, closed, started, logins, rest>>

TimerFires(g) ==
    /\ place[g] = "select"
    /\ place' = [place EXCEPT ![g] = "send"]
    /\ UNCHANGED <<mu, notifyStop, closed, wg, started, logins, rest>>

(***************************************************************************)
(* send returns.  The default send of HandlerREST is a session check made  *)
(* through the handler: a response, even one that says the session is not  *)
(* authenticated, takes it through Start first.                            *)
(***************************************************************************)
SendSucceeds(g) ==
    /\ place[g] = "send"
    /\ place' = [place EXCEPT ![g] = IF rest THEN "sentStart" ELSE "select"]
    /\ UNCHANGED <<mu, notifyStop, closed, wg, started, logins, rest>>

SendUnauthorized(g) ==
    /\ place[g] = "send"
    /\ rest
    /\ place' = [place EXCEPT ![g] = "failedStart"]
    /\ UNCHANGED <<mu, notifyStop, closed, wg, started, logins, rest>>

SendFails(g) ==
    /\ place[g] = "send"
    /\ place' = [place EXCEPT ![g] = "failed"]
    /\ UNCHANGED <<mu, notifyStop, closed, wg, started, logins, rest>>

SentStart(g) ==
    /\ place[g] = "sentStart"
    /\ Start(g, "select")
    /\ UNCHANGED rest

FailedStart(g) ==
    /\ place[g] = "failedStart"
    /\ Start(g, "failed")
    /\ UNCHANGED rest

(* After an error the goroutine is done, and then stops the handler. *)
FailedDone(g) ==
    /\ place[g] = "failed"
    /\ wg' = wg - 1
    /\ place' = [place EXCEPT ![g] = "stop"]
    /\ UNCHANGED <<mu, notifyStop, closed, started, logins, rest>>

-----------------------------------------------------------------------------
ClientStep(c) == LoginStart(c) \/ CheckStart(c) \/ StopEnter(c) \/ StopWait(c)

GoroutineStep(g) ==
    \/ Notified(g) \/ TimerFires(g)
    \/ SendSucceeds(g) \/ SendUnauthorized(g) \/ SendFails(g)
    \/ SentStart(g) \/ FailedStart(g) \/ FailedDone(g)
    \/ StopEnter(g) \/ StopWait(g)

HandlerNext ==
    \/ \E c \in Clients : RoundTripLogin(c) \/ Check(c) \/ RoundTripLogout(c) \/ ClientStep(c)
    \/ \E g \in Goroutines : GoroutineStep(g)

(***************************************************************************)
(* Goroutines that can run do, and send returns.  The timer is reset to a  *)
(* positive idle time, so a select that finds the channel closed cannot    *)
(* prefer the timer forever: hence strong fairness of Notified.            *)
(***************************************************************************)
Fairness ==
    /\ \A c \in Clients : WF_handler(ClientStep(c))
    /\ \A g \in Goroutines : WF_handler(GoroutineStep(g)) /\ SF_handler(Notified(g))

HandlerSpec == HandlerInit /\ [][HandlerNext]_handler /\ Fairness

-----------------------------------------------------------------------------
(* The goroutines that have not called Done yet. *)
Running == {g \in Goroutines :
    place[g] \in {"select", "send", "sentStart", "failedStart", "failed"}}

(* Every variable has its type. *)
HandlerTypeOK ==
    /\ mu \in Actors \cup {Nobody}
    /\ notifyStop \in 0 .. MaxLogins
    /\ closed \subseteq Goroutines
    /\ wg \in Nat
    /\ started \in 0 .. MaxLogins
    /\ logins \in 0 .. MaxLogins
    /\ place \in [Actors -> Locations]
    /\ rest \in Kinds

(* The handler never has two keep-alive goroutines at work. *)
OneKeepAlive == \A g, h \in Running : g = h

(***************************************************************************)
(* The channel in the field, which Stop closes and select reads without a  *)
(* lock, is that of the running goroutine: no goroutine is out of reach.   *)
(***************************************************************************)
Stoppable == \A g \in Running : notifyStop = g

(* The wait group counts the running goroutines: Stop waits for all of them. *)
WaitGroupCounts == wg = Cardinality(Running)

(* When a Stop that closed the channel returns, no goroutine is running. *)
StopLeavesNone ==
    [][\A a \in Actors : place[a] = "stopWait" /\ place'[a] # "stopWait" => Running' = {}]_handler

(* The keep-alive goroutine, in the default send of HandlerREST, is at Start  *)
(* while a Stop holds h.mu and waits for the goroutine: neither goes on, ever. *)
SendStuck == \E g \in Goroutines : place[g] \in {"sentStart", "failedStart"} /\ mu # Nobody

(* Logout returns, although Stop waits for the goroutine with h.mu held and  *)
(* the goroutine itself calls Stop after an error; the one way for it to hang *)
(* is a REST send that comes back through the handler.                       *)
StopReturns ==
    \A c \in Clients : place[c] = "stop" ~> place[c] = "idle" \/ SendStuck

(***************************************************************************)
(* The inductive invariant behind the safety properties.                   *)
(***************************************************************************)
Pending == {c \in Clients : place[c] \in {"loginStart", "checkStart"}}

(* Where clients and goroutines can be; goroutines are created in order. *)
Places ==
    /\ \A c \in Clients :
         place[c] \in {"idle", "loginStart", "checkStart", "stop", "stopWait"}
    /\ \A g \in Goroutines : place[g] \notin {"idle", "loginStart", "checkStart"}
    /\ \A g \in Goroutines : place[g] = "unborn" <=> g > started

(* The mutex is held across a step only by the actor that waits in Stop. *)
MuOwner == \A a \in Actors : place[a] = "stopWait" <=> mu = a

HandlerInv ==
    /\ HandlerTypeOK /\ Places /\ MuOwner /\ Stoppable
    /\ wg = IF Running = {} THEN 0 ELSE 1
    /\ started + Cardinality(Pending) <= logins
=============================================================================
