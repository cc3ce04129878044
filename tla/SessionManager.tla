--------------------------- MODULE SessionManager ---------------------------
(***************************************************************************)
(* simulator/session_manager.go: the sessions of the simulator.            *)
(*                                                                         *)
(* Workers are the goroutines that serve SOAP requests.  A request first   *)
(* maps its cookie to a session (Context.mapSession: a get, then a put of  *)
(* the renewed copy), then Service.call checks that it is authenticated,   *)
(* then the method runs.  SessionManager opts out of object locking, so    *)
(* only each single get, put and delete of the map is atomic.  If the      *)
(* sessionTimeout option is set, a watcher goroutine per login deletes the *)
(* session once it has been idle; by default there is no such option and   *)
(* no session expires.                                                     *)
(***************************************************************************)
EXTENDS Integers, FiniteSets

CONSTANTS
    Workers,
    MaxKeys,        \* bound on the session keys (uuids) handed out
    MaxRequests,    \* bound on the requests served
    MaxNow,         \* bound on the clock
    Timeout,        \* config.vmacore.soap.sessionTimeout, where it is set
    None            \* no session, no cookie

Keys == 1 .. MaxKeys
Times == 0 .. MaxNow
Ops == {"Login", "Logout", "TerminateSession", "AcquireCloneTicket",
        "CloneSession", "ImpersonateUser", "UpdateOptions", "Other"}

ASSUME SessionAssumption ==
    /\ MaxKeys \in Nat /\ MaxRequests \in Nat /\ MaxNow \in Nat
    /\ Timeout \in Nat \ {0}
    /\ None \notin Int

VARIABLES
    sessions,   \* m.sessions: the LastActiveTime of each key in the map, or None
    issued,     \* keys 1 .. issued have been handed out
    tickets,    \* the keys handed out by AcquireCloneTicket
    watch,      \* the idle watcher of each key
    due,        \* when that watcher's timer fires
    start,      \* when that watcher was started
    since,      \* the keys handed out when sessionTimeout was set, or None: not set
    now,        \* the clock
    served,     \* requests received so far
    pc,         \* where each worker is
    req,        \* the request each worker serves: its method and arguments
    session,    \* ctx.Session of each worker: a key, or None
    ended       \* keys deleted at least once, for whatever reason

vars == <<sessions, issued, tickets, watch, due, start, since, now, served, pc, req,
          session, ended>>
watchers == <<watch, due, start, since>>

Live == {k \in Keys : sessions[k] # None}
Issued == 1 .. issued

Requests == [op : Ops, cookie : Keys \cup {None}, arg : Keys \cup {None}]
NoRequest == [op |-> "Other", cookie |-> None, arg |-> None]

Init ==
    /\ sessions = [k \in Keys |-> None]
    /\ issued = 0
    /\ tickets = {}
    /\ watch = [k \in Keys |-> "none"]
    /\ due = [k \in Keys |-> 0]
    /\ start = [k \in Keys |-> 0]
    /\ since \in {None, 0}
    /\ now = 0
    /\ served = 0
    /\ pc = [w \in Workers |-> "ready"]
    /\ req = [w \in Workers |-> NoRequest]
    /\ session = [w \in Workers |-> None]
    /\ ended = {}

-----------------------------------------------------------------------------
(* delSession: the deletion of k; ended remembers it. *)
delSession(k) ==
    /\ sessions' = [sessions EXCEPT ![k] = None]
    /\ ended' = IF k \in Live THEN ended \cup {k} ELSE ended

(* SetSession(_, true): a session under a new key.  The login event is posted *)
(* before SessionIdleWatch is called, so others may run in between.           *)
NewSession(w) ==
    /\ issued < MaxKeys
    /\ issued' = issued + 1
    /\ sessions' = [sessions EXCEPT ![issued + 1] = now]
    /\ session' = [session EXCEPT ![w] = issued + 1]
    /\ pc' = [pc EXCEPT ![w] = "watch"]
    /\ req' = [req EXCEPT ![w] = NoRequest]

(* The method or a fault is the end of the request. *)
Reply(w) ==
    /\ pc' = [pc EXCEPT ![w] = "ready"]
    /\ session' = [session EXCEPT ![w] = None]
    /\ req' = [req EXCEPT ![w] = NoRequest]

(* Service.call dispatches op: without a session only these are allowed. *)
Calls(w, op) ==
    /\ pc[w] = "call"
    /\ req[w].op = op
    /\ session[w] # None \/ op \in {"Login", "CloneSession"}

-----------------------------------------------------------------------------
(* Faulty variants, each detected by a property at the end of the module.  *)

(* A watcher that allows one timeout too many. *)
WatchLate(k) ==
    /\ watch[k] = "sleep" /\ due[k] <= now
    /\ IF sessions[k] = None
       THEN watch' = [watch EXCEPT ![k] = "gone"] /\ UNCHANGED due
       ELSE IF due[k] - sessions[k] > 2 * Timeout
       THEN watch' = [watch EXCEPT ![k] = "delete"] /\ UNCHANGED due
       ELSE due' = [due EXCEPT ![k] = now + Timeout] /\ UNCHANGED watch
    /\ UNCHANGED <<sessions, issued, tickets, start, since, now, served, pc, req, session, ended>>

(* ImpersonateUser that keeps the key of the session it found. *)
ImpersonateInPlace(w) ==
    /\ Calls(w, "ImpersonateUser")
    /\ \E k \in Issued : sessions' = [sessions EXCEPT ![k] = now]
    /\ Reply(w)
    /\ UNCHANGED <<issued, tickets, watchers, now, served, ended>>

-----------------------------------------------------------------------------
(* mapSession: look the cookie up ... *)
Receive(w) ==
    /\ pc[w] = "ready"
    /\ served < MaxRequests
    /\ served' = served + 1
    /\ \E r \in [op : Ops, cookie : Issued \cup {None}, arg : Issued \cup {None}] :
         /\ r.op \in {"TerminateSession", "CloneSession"} <=> r.arg # None
         /\ req' = [req EXCEPT ![w] = r]
         /\ pc' = [pc EXCEPT ![w] =
              IF r.cookie # None /\ sessions[r.cookie] # None THEN "renew" ELSE "call"]
    /\ UNCHANGED <<sessions, issued, tickets, watchers, now, session, ended>>

(* ... and put the copy back with a new LastActiveTime. *)
Renew(w) ==
    /\ pc[w] = "renew"
    /\ sessions' = [sessions EXCEPT ![req[w].cookie] = now]
    /\ session' = [session EXCEPT ![w] = req[w].cookie]
    /\ pc' = [pc EXCEPT ![w] = "call"]
    /\ UNCHANGED <<issued, tickets, watchers, now, served, req, ended>>

-----------------------------------------------------------------------------
(* No session and a method that needs one. *)
NotAuthenticated(w) ==
    /\ pc[w] = "call"
    /\ session[w] = None
    /\ req[w].op \notin {"Login", "CloneSession"}
    /\ Reply(w)
    /\ UNCHANGED <<sessions, issued, tickets, watchers, now, served, ended>>

(* Login, LoginByToken and LoginExtensionByCertificate, with valid input. *)
Login(w) ==
    /\ Calls(w, "Login")
    /\ session[w] = None
    /\ NewSession(w)
    /\ UNCHANGED <<tickets, watchers, now, served, ended>>

Logout(w) ==
    /\ Calls(w, "Logout")
    /\ delSession(session[w])
    /\ Reply(w)
    /\ UNCHANGED <<issued, tickets, watchers, now, served>>

TerminateSession(w) ==
    /\ Calls(w, "TerminateSession")
    /\ req[w].arg # session[w]
    /\ sessions[req[w].arg] # None
    /\ pc' = [pc EXCEPT ![w] = "terminate"]
    /\ UNCHANGED <<sessions, issued, tickets, watchers, now, served, req, session, ended>>

TerminateDel(w) ==
    /\ pc[w] = "terminate"
    /\ delSession(req[w].arg)
    /\ Reply(w)
    /\ UNCHANGED <<issued, tickets, watchers, now, served>>

(* A ticket is an unwatched copy of the session, under a key of its own. *)
AcquireCloneTicket(w) ==
    /\ Calls(w, "AcquireCloneTicket")
    /\ issued < MaxKeys
    /\ issued' = issued + 1
    /\ sessions' = [sessions EXCEPT ![issued + 1] = now]
    /\ tickets' = tickets \cup {issued + 1}
    /\ Reply(w)
    /\ UNCHANGED <<watchers, now, served, ended>>

CloneSession(w) ==
    /\ Calls(w, "CloneSession")
    /\ sessions[req[w].arg] # None
    /\ pc' = [pc EXCEPT ![w] = "clone"]
    /\ UNCHANGED <<sessions, issued, tickets, watchers, now, served, req, session, ended>>

CloneDel(w) ==
    /\ pc[w] = "clone"
    /\ delSession(req[w].arg)
    /\ pc' = [pc EXCEPT ![w] = "copy"]
    /\ UNCHANGED <<issued, tickets, watchers, now, served, req, session>>

(* findSession: any live session stands for one of the user's. *)
ImpersonateUser(w) ==
    /\ Calls(w, "ImpersonateUser")
    /\ Live # {}
    /\ pc' = [pc EXCEPT ![w] = "copy"]
    /\ UNCHANGED <<sessions, issued, tickets, watchers, now, served, req, session, ended>>

(* CloneSession and ImpersonateUser end by setting a copy under a new key. *)
SetCopy(w) ==
    /\ pc[w] = "copy"
    /\ NewSession(w)
    /\ UNCHANGED <<tickets, watchers, now, served, ended>>

(* SessionIdleWatch ends the login: no option, no watcher. *)
SessionIdleWatch(w) ==
    /\ pc[w] = "watch"
    /\ \/ /\ since = None
          /\ watch' = [watch EXCEPT ![session[w]] = "off"]
          /\ UNCHANGED <<due, start>>
       \/ /\ since # None
          /\ watch' = [watch EXCEPT ![session[w]] = "sleep"]
          /\ due' = [due EXCEPT ![session[w]] = now + Timeout]
          /\ start' = [start EXCEPT ![session[w]] = now]
    /\ Reply(w)
    /\ UNCHANGED <<sessions, issued, tickets, since, now, served, ended>>

(* OptionManager.UpdateOptions: from now on logins find the option. *)
UpdateOptions(w) ==
    /\ Calls(w, "UpdateOptions")
    /\ since' = IF since = None THEN issued ELSE since
    /\ Reply(w)
    /\ UNCHANGED <<sessions, issued, tickets, watch, due, start, now, served, ended>>

(* InvalidLogin, InvalidArgument and NotFound faults. *)
Fault(w) ==
    /\ \/ Calls(w, "Login") /\ session[w] # None
       \/ Calls(w, "TerminateSession")
          /\ (req[w].arg = session[w] \/ sessions[req[w].arg] = None)
       \/ Calls(w, "CloneSession") /\ sessions[req[w].arg] = None
       \/ Calls(w, "ImpersonateUser") /\ Live = {}
    /\ Reply(w)
    /\ UNCHANGED <<sessions, issued, tickets, watchers, now, served, ended>>

(* Any other method, SessionIsActive included. *)
Other(w) ==
    /\ Calls(w, "Other")
    /\ Reply(w)
    /\ UNCHANGED <<sessions, issued, tickets, watchers, now, served, ended>>

-----------------------------------------------------------------------------
(* expiredSession, called when the watcher's timer fires: the check ... *)
WatchCheck(k) ==
    /\ watch[k] = "sleep" /\ due[k] <= now
    /\ IF sessions[k] = None
       THEN watch' = [watch EXCEPT ![k] = "gone"] /\ UNCHANGED due
       ELSE IF due[k] - sessions[k] > Timeout
       THEN watch' = [watch EXCEPT ![k] = "delete"] /\ UNCHANGED due
       ELSE due' = [due EXCEPT ![k] = now + Timeout] /\ UNCHANGED watch
    /\ UNCHANGED <<sessions, issued, tickets, start, since, now, served, pc, req, session, ended>>

(* ... and the deletion, after which the watcher exits. *)
WatchDel(k) ==
    /\ watch[k] = "delete"
    /\ delSession(k)
    /\ watch' = [watch EXCEPT ![k] = "gone"]
    /\ UNCHANGED <<issued, tickets, due, start, since, now, served, pc, req, session>>

(***************************************************************************)
(* Time passes when no timer is waiting to be served: a timeout is long    *)
(* against the time a watcher takes.  Requests take any amount of time.    *)
(***************************************************************************)
Tick ==
    /\ now < MaxNow
    /\ \A k \in Keys : watch[k] # "delete" /\ ~(watch[k] = "sleep" /\ due[k] <= now)
    /\ now' = now + 1
    /\ UNCHANGED <<sessions, issued, tickets, watchers, served, pc, req, session, ended>>

-----------------------------------------------------------------------------
Serve(w) ==
    \/ Receive(w) \/ Renew(w) \/ NotAuthenticated(w) \/ Fault(w) \/ Other(w)
    \/ Login(w) \/ Logout(w) \/ TerminateSession(w) \/ TerminateDel(w)
    \/ AcquireCloneTicket(w) \/ CloneSession(w) \/ CloneDel(w)
    \/ ImpersonateUser(w) \/ SetCopy(w) \/ SessionIdleWatch(w) \/ UpdateOptions(w)

Next ==
    \/ \E w \in Workers : Serve(w)
    \/ \E k \in Keys : WatchCheck(k) \/ WatchDel(k)
    \/ Tick

Spec == Init /\ [][Next]_vars

-----------------------------------------------------------------------------
(* Every variable has its type. *)
TypeOK ==
    /\ sessions \in [Keys -> Times \cup {None}]
    /\ issued \in 0 .. MaxKeys
    /\ tickets \subseteq Issued
    /\ watch \in [Keys -> {"none", "off", "sleep", "delete", "gone"}]
    /\ due \in [Keys -> Nat]
    /\ start \in [Keys -> Times]
    /\ since \in (0 .. issued) \cup {None}
    /\ now \in Times
    /\ served \in 0 .. MaxRequests
    /\ pc \in [Workers -> {"ready", "renew", "call", "terminate", "clone", "copy", "watch"}]
    /\ req \in [Workers -> Requests]
    /\ session \in [Workers -> Keys \cup {None}]
    /\ ended \subseteq Issued

Watches(k) == watch[k] \in {"sleep", "delete"}

(* The logins and copies whose session was never deleted.  (One that is put    *)
(* back after its deletion may be left without a watcher: nothing expires it.) *)
Undeleted == Live \ (tickets \cup ended)

(***************************************************************************)
(* A session handed out since the option was set is watched, unless it is  *)
(* a ticket or its login is still about to start the watcher; no watcher   *)
(* gives up a session before it is deleted; without the option there are   *)
(* no watchers.                                                            *)
(***************************************************************************)
Watched ==
    /\ \A k \in Undeleted : watch[k] # "gone"
    /\ \A k \in Keys : since = None => ~Watches(k)
    /\ \A k \in Undeleted : since # None /\ k > since =>
         Watches(k) \/ \E w \in Workers : pc[w] = "watch" /\ session[w] = k

(***************************************************************************)
(* A watched session survives at most two timeouts without a request, or   *)
(* one from the start of its watcher: the watcher looks once per timeout   *)
(* and deletes what has been idle for more than one.                       *)
(***************************************************************************)
IdleBound ==
    \A k \in Undeleted : Watches(k) =>
        now <= sessions[k] + 2 * Timeout \/ now <= start[k] + Timeout

(* Where the option is set, every session that was never deleted is watched   *)
(* and goes when it is idle, whatever requests renew, clone or end meanwhile. *)
SessionsOK == TypeOK /\ Watched /\ IdleBound

(***************************************************************************)
(* A deleted session comes back only through a request that looked it up   *)
(* before the deletion and puts its copy back after it.                    *)
(***************************************************************************)
ComesBackInFlight ==
    [][\A k \in ended \ Live :
         sessions'[k] # None => \E w \in Workers : pc[w] = "renew" /\ req[w].cookie = k]_vars
=============================================================================
