---------------------------- MODULE SessionProofs ----------------------------
(***************************************************************************)
(* Sessions, on both sides.                                                *)
(*                                                                         *)
(* SessionManager is safe for any number of workers, keys and requests and *)
(* for any timeout: with the option set a session that was never deleted   *)
(* is watched and is gone after two idle timeouts, and a deleted one comes *)
(* back only through a request that was already under way.                 *)
(*                                                                         *)
(* KeepAlive is safe for any number of clients and requests and for both   *)
(* kinds of handlers: HandlerInv is inductive, so there is never more than *)
(* one keep-alive goroutine, Stop reaches it, and a Stop that waits        *)
(* returns with none left.                                                 *)
(***************************************************************************)
EXTENDS SessionManager, KeepAlive, FiniteSetTheorems, TLAPS

(* Only keys that have been handed out are in the map. *)
LiveOK == Live \subseteq Issued

(* The keys a worker is about to put or delete have been handed out. *)
WorkersOK ==
    \A w \in Workers :
        /\ pc[w] = "renew" => req[w].cookie \in Issued
        /\ session[w] \in Issued \cup {None}
        /\ pc[w] = "watch" => session[w] \in Issued
        /\ \/ pc[w] \in {"terminate", "clone"}
           \/ pc[w] \in {"renew", "call"} /\ req[w].op \in {"TerminateSession", "CloneSession"}
           => req[w].arg \in Issued

(* The keys of logins and copies whose session was never deleted. *)
Kept == Issued \ (tickets \cup ended)

(***************************************************************************)
(* Such a session is in the map and was last active in the past.  If it is *)
(* watched its timer fires in the future, and no later than two timeouts   *)
(* after the activity, or one after the start of the watcher: the check    *)
(* that finds it idle for one timeout or less sets the timer for one more. *)
(***************************************************************************)
WatchOK ==
    \A k \in Kept :
        /\ sessions[k] \in Times /\ sessions[k] <= now
        /\ watch[k] # "gone"
        /\ Watches(k) => /\ now <= due[k]
                         /\ due[k] <= sessions[k] + 2 * Timeout \/ due[k] <= start[k] + Timeout

(* Keys not handed out have no watcher, nor has any key without the option. *)
FreshOK ==
    \A k \in Keys : /\ k > issued => watch[k] = "none"
                    /\ since = None => ~Watches(k)

(* A login has put k and is about to start its watcher. *)
ToWatch(k) == \E w \in Workers : pc[w] = "watch" /\ session[w] = k

(* Nothing comes between such a login and the watcher of its session. *)
ToWatchOK == \A k \in Kept : since # None /\ k > since => Watches(k) \/ ToWatch(k)

IInv == TypeOK /\ LiveOK /\ WorkersOK /\ WatchOK /\ FreshOK /\ ToWatchOK
-----------------------------------------------------------------------------
(***************************************************************************)
(* What a watcher's check does: it exits, goes on to delete a session that *)
(* has been idle for more than a timeout, or sets its timer again.         *)
(***************************************************************************)
LEMMA CheckOutcomes ==
    ASSUME NEW k \in Keys, WatchCheck(k)
    PROVE  /\ watch[k] = "sleep" /\ due[k] <= now
           /\ \/ sessions[k] = None /\ watch' = [watch EXCEPT ![k] = "gone"] /\ due' = due
              \/ sessions[k] # None /\ watch' = [watch EXCEPT ![k] = "delete"] /\ due' = due
              \/ /\ sessions[k] # None /\ ~(due[k] - sessions[k] > Timeout)
                 /\ due' = [due EXCEPT ![k] = now + Timeout] /\ watch' = watch
           /\ UNCHANGED <<sessions, issued, tickets, start, since, now, served, pc, req,
                          session, ended>>
<1>1. CASE sessions[k] = None
  BY <1>1 DEF WatchCheck
<1>2. CASE sessions[k] # None /\ due[k] - sessions[k] > Timeout
  BY <1>2 DEF WatchCheck
<1>3. CASE sessions[k] # None /\ ~(due[k] - sessions[k] > Timeout)
  BY <1>3 DEF WatchCheck
<1> QED
  BY <1>1, <1>2, <1>3

(* A login's put: a new key, and a worker about to start its watcher. *)
LEMMA NewSessionTypes ==
    ASSUME IInv, NEW w \in Workers, NewSession(w), UNCHANGED <<tickets, watchers, now, served, ended>>
    PROVE  TypeOK'
<1>1. /\ issued \in Int /\ issued + 1 \in Keys /\ issued' = issued + 1 /\ issued' \in 0 .. MaxKeys
      /\ Issued \subseteq Issued' /\ since' \in (0 .. issued') \cup {None}
  BY SessionAssumption DEF NewSession, IInv, TypeOK, Keys, Issued, watchers
<1>2. tickets' \subseteq Issued' /\ ended' \subseteq Issued'
  BY <1>1 DEF IInv, TypeOK
<1>3. sessions' \in [Keys -> Times \cup {None}] /\ session' \in [Workers -> Keys \cup {None}]
  BY <1>1 DEF NewSession, IInv, TypeOK
<1>4. /\ req' \in [Workers -> Requests]
      /\ pc' \in [Workers -> {"ready", "renew", "call", "terminate", "clone", "copy", "watch"}]
  BY DEF NewSession, NoRequest, IInv, TypeOK, Requests, Ops
<1> QED
  BY <1>1, <1>2, <1>3, <1>4 DEF IInv, TypeOK, watchers

(* The new session is active now, and not watched yet. *)
LEMMA NewSessionWatch ==
    ASSUME IInv, NEW w \in Workers, NewSession(w), UNCHANGED <<tickets, watchers, now, served, ended>>
    PROVE  WatchOK'
<1> SUFFICES ASSUME NEW k \in Kept'
             PROVE  /\ sessions'[k] \in Times /\ sessions'[k] <= now
                    /\ watch[k] # "gone"
                    /\ Watches(k) => /\ now <= due[k]
                                     /\ \/ due[k] <= sessions'[k] + 2 * Timeout
                                        \/ due[k] <= start[k] + Timeout
  BY DEF WatchOK, Watches, watchers
<1>1. /\ issued \in Int /\ issued + 1 \in Keys /\ now \in Times /\ now \in Int
      /\ sessions' = [sessions EXCEPT ![issued + 1] = now] /\ sessions \in [Keys -> Times \cup {None}]
      /\ k \in Kept \/ k = issued + 1
  BY SessionAssumption DEF NewSession, IInv, TypeOK, Keys, Times, Kept, Issued
<1>2. CASE k = issued + 1
  BY <1>1, <1>2 DEF IInv, FreshOK, Watches
<1>3. CASE k \in Kept
  <2>1. k \in Keys /\ k # issued + 1
    BY <1>1, <1>3, SessionAssumption DEF Kept, Issued, Keys, IInv, TypeOK
  <2> QED
    BY <1>1, <1>3, <2>1 DEF IInv, WatchOK
<1> QED
  BY <1>1, <1>2, <1>3

(* Every step keeps the types: what is put or deleted is a key. *)
LEMMA TypeStep == IInv /\ [Next]_vars => TypeOK'
<1> SUFFICES ASSUME IInv, [Next]_vars PROVE TypeOK'
  OBVIOUS
<1>1. ASSUME NEW w \in Workers, Receive(w) PROVE TypeOK'
  <2>1. PICK r \in [op : Ops, cookie : Issued \cup {None}, arg : Issued \cup {None}] :
          /\ req' = [req EXCEPT ![w] = r]
          /\ pc' = [pc EXCEPT ![w] =
               IF r.cookie # None /\ sessions[r.cookie] # None THEN "renew" ELSE "call"]
    BY <1>1 DEF Receive
  <2>2. r \in Requests
    BY SessionAssumption DEF IInv, TypeOK, Issued, Keys, Requests
  <2>3. /\ req' \in [Workers -> Requests]
        /\ pc' \in [Workers -> {"ready", "renew", "call", "terminate", "clone", "copy", "watch"}]
    BY <2>1, <2>2 DEF IInv, TypeOK
  <2>4. served' \in 0 .. MaxRequests
    BY <1>1, SessionAssumption DEF Receive, IInv, TypeOK
  <2> QED
    BY <1>1, <2>3, <2>4 DEF Receive, IInv, TypeOK, Issued, watchers
<1>2. ASSUME NEW w \in Workers, Renew(w) PROVE TypeOK'
  BY <1>2, SessionAssumption
    DEF Renew, IInv, TypeOK, LiveOK, WorkersOK, Keys, Times, Issued, Live, Ops, Requests,
        watchers
<1>3. ASSUME NEW w \in Workers, NotAuthenticated(w) PROVE TypeOK'
  BY <1>3, SessionAssumption
    DEF NotAuthenticated, Reply, NoRequest, IInv, TypeOK, LiveOK, WorkersOK, Keys, Times,
        Issued, Live,
        Ops, Requests, watchers
<1>4. ASSUME NEW w \in Workers, Login(w) PROVE TypeOK'
  BY <1>4, NewSessionTypes DEF Login
<1>5. ASSUME NEW w \in Workers, Logout(w) PROVE TypeOK'
  BY <1>5, SessionAssumption
    DEF Logout, delSession, Reply, NoRequest, Calls, IInv, TypeOK, LiveOK, WorkersOK, Keys, Times,
        Issued, Live, Ops, Requests, watchers
<1>6. ASSUME NEW w \in Workers, TerminateSession(w) PROVE TypeOK'
  BY <1>6, SessionAssumption
    DEF TerminateSession, Calls, IInv, TypeOK, LiveOK, WorkersOK, Keys, Times, Issued, Live,
        Ops, Requests, watchers
<1>7. ASSUME NEW w \in Workers, TerminateDel(w) PROVE TypeOK'
  BY <1>7, SessionAssumption
    DEF TerminateDel, delSession, Reply, NoRequest, IInv, TypeOK, LiveOK, WorkersOK, Keys, Times,
        Issued, Live, Ops, Requests, watchers
<1>8. ASSUME NEW w \in Workers, AcquireCloneTicket(w) PROVE TypeOK'
  <2>1. issued + 1 \in Keys /\ issued' = issued + 1 /\ issued' \in 0 .. MaxKeys /\ Issued \subseteq Issued'
    BY <1>8, SessionAssumption DEF AcquireCloneTicket, IInv, TypeOK, Keys, Issued
  <2>2. tickets' \subseteq Issued' /\ ended' \subseteq Issued'
    BY <1>8, <2>1 DEF AcquireCloneTicket, IInv, TypeOK, Issued
  <2>3. sessions' \in [Keys -> Times \cup {None}]
    BY <1>8, <2>1 DEF AcquireCloneTicket, IInv, TypeOK
  <2>4. /\ req' \in [Workers -> Requests] /\ session' \in [Workers -> Keys \cup {None}]
        /\ pc' \in [Workers -> {"ready", "renew", "call", "terminate", "clone", "copy", "watch"}]
    BY <1>8 DEF AcquireCloneTicket, Reply, NoRequest, IInv, TypeOK, Requests, Ops
  <2> QED
    BY <1>8, <2>1, <2>2, <2>3, <2>4 DEF AcquireCloneTicket, IInv, TypeOK, watchers
<1>9. ASSUME NEW w \in Workers, CloneSession(w) PROVE TypeOK'
  BY <1>9, SessionAssumption
    DEF CloneSession, Calls, IInv, TypeOK, LiveOK, WorkersOK, Keys, Times, Issued, Live,
        Ops, Requests, watchers
<1>10. ASSUME NEW w \in Workers, CloneDel(w) PROVE TypeOK'
  BY <1>10, SessionAssumption
    DEF CloneDel, delSession, IInv, TypeOK, LiveOK, WorkersOK, Keys, Times, Issued, Live,
        Ops, Requests, watchers
<1>11. ASSUME NEW w \in Workers, ImpersonateUser(w) PROVE TypeOK'
  BY <1>11, SessionAssumption
    DEF ImpersonateUser, Calls, IInv, TypeOK, LiveOK, WorkersOK, Keys, Times, Issued, Live,
        Ops, Requests, watchers
<1>12. ASSUME NEW w \in Workers, SetCopy(w) PROVE TypeOK'
  BY <1>12, NewSessionTypes DEF SetCopy
<1>13. ASSUME NEW w \in Workers, Fault(w) PROVE TypeOK'
  BY <1>13, SessionAssumption
    DEF Fault, Reply, NoRequest, Calls, IInv, TypeOK, LiveOK, WorkersOK, Keys, Times, Issued,
        Live,
        Ops, Requests, watchers
<1>14. ASSUME NEW w \in Workers, Other(w) PROVE TypeOK'
  BY <1>14, SessionAssumption
    DEF Other, Reply, NoRequest, Calls, IInv, TypeOK, LiveOK, WorkersOK, Keys, Times, Issued,
        Live,
        Ops, Requests, watchers
<1>15. ASSUME NEW k \in Keys, WatchCheck(k) PROVE TypeOK'
  <2>1. now + Timeout \in Nat
    BY SessionAssumption DEF IInv, TypeOK, Times
  <2>2. watch' \in [Keys -> {"none", "off", "sleep", "delete", "gone"}] /\ due' \in [Keys -> Nat]
    BY <1>15, <2>1, CheckOutcomes DEF IInv, TypeOK
  <2> QED
    BY <1>15, <2>2, CheckOutcomes DEF IInv, TypeOK, Issued
<1>16. ASSUME NEW k \in Keys, WatchDel(k) PROVE TypeOK'
  BY <1>16, SessionAssumption
    DEF WatchDel, delSession, IInv, TypeOK, LiveOK, WorkersOK, Keys, Times, Issued, Live,
        Ops, Requests
<1>17. CASE Tick
  <2>1. now' \in Times
    BY <1>17, SessionAssumption DEF Tick, IInv, TypeOK, Times
  <2> QED
    BY <1>17, <2>1 DEF Tick, IInv, TypeOK, Issued, watchers
<1>18. CASE UNCHANGED vars
  BY <1>18, SessionAssumption
    DEF IInv, TypeOK, LiveOK, WorkersOK, Keys, Times, Issued, Live, Ops, Requests, vars,
        watchers
<1>19. ASSUME NEW w \in Workers, SessionIdleWatch(w) PROVE TypeOK'
  <2>1. session[w] \in Keys /\ now + Timeout \in Nat
    BY <1>19, SessionAssumption DEF SessionIdleWatch, IInv, WorkersOK, TypeOK, Issued, Keys, Times
  <2>2. /\ watch' \in [Keys -> {"none", "off", "sleep", "delete", "gone"}]
        /\ due' \in [Keys -> Nat] /\ start' \in [Keys -> Times]
    BY <1>19, <2>1 DEF SessionIdleWatch, IInv, TypeOK
  <2>3. /\ req' \in [Workers -> Requests] /\ session' \in [Workers -> Keys \cup {None}]
        /\ pc' \in [Workers -> {"ready", "renew", "call", "terminate", "clone", "copy", "watch"}]
    BY <1>19 DEF SessionIdleWatch, Reply, NoRequest, IInv, TypeOK, Requests, Ops
  <2> QED
    BY <1>19, <2>2, <2>3 DEF SessionIdleWatch, IInv, TypeOK, Issued
<1>20. ASSUME NEW w \in Workers, UpdateOptions(w) PROVE TypeOK'
  <2>1. since' \in (0 .. issued) \cup {None} /\ issued' = issued
    BY <1>20 DEF UpdateOptions, IInv, TypeOK
  <2>2. /\ req' \in [Workers -> Requests] /\ session' \in [Workers -> Keys \cup {None}]
        /\ pc' \in [Workers -> {"ready", "renew", "call", "terminate", "clone", "copy", "watch"}]
    BY <1>20 DEF UpdateOptions, Reply, NoRequest, IInv, TypeOK, Requests, Ops
  <2> QED
    BY <1>20, <2>1, <2>2 DEF UpdateOptions, IInv, TypeOK, Issued
<1> QED
  BY <1>1, <1>2, <1>3, <1>4, <1>5, <1>6, <1>7, <1>8, <1>9, <1>10, <1>11, <1>12, <1>13, <1>14,
     <1>15, <1>16, <1>17, <1>18, <1>19, <1>20
    DEF Next, Serve

(* Only keys that have been handed out enter the map. *)
LEMMA LiveStep == IInv /\ [Next]_vars => LiveOK'
<1> SUFFICES ASSUME IInv, [Next]_vars PROVE LiveOK'
  OBVIOUS
<1>1. ASSUME NEW w \in Workers, Receive(w) PROVE LiveOK'
  BY <1>1, SessionAssumption
    DEF Receive, IInv, TypeOK, LiveOK, WorkersOK, Live, Issued, Keys, watchers
<1>2. ASSUME NEW w \in Workers, Renew(w) PROVE LiveOK'
  BY <1>2, SessionAssumption
    DEF Renew, IInv, TypeOK, LiveOK, WorkersOK, Live, Issued, Keys, watchers
<1>3. ASSUME NEW w \in Workers, NotAuthenticated(w) PROVE LiveOK'
  BY <1>3, SessionAssumption
    DEF NotAuthenticated, Reply, NoRequest, IInv, TypeOK, LiveOK, WorkersOK, Live, Issued, Keys,
        watchers
<1>4. ASSUME NEW w \in Workers, Login(w) PROVE LiveOK'
  BY <1>4, SessionAssumption
    DEF Login, NewSession, NoRequest, Calls, IInv, TypeOK, LiveOK, WorkersOK, Live, Issued, Keys
<1>5. ASSUME NEW w \in Workers, Logout(w) PROVE LiveOK'
  BY <1>5, SessionAssumption
    DEF Logout, delSession, Reply, NoRequest, Calls, IInv, TypeOK, LiveOK, WorkersOK, Live,
        Issued,
        Keys, watchers
<1>6. ASSUME NEW w \in Workers, TerminateSession(w) PROVE LiveOK'
  BY <1>6, SessionAssumption
    DEF TerminateSession, Calls, IInv, TypeOK, LiveOK, WorkersOK, Live, Issued, Keys,
        watchers
<1>7. ASSUME NEW w \in Workers, TerminateDel(w) PROVE LiveOK'
  BY <1>7, SessionAssumption
    DEF TerminateDel, delSession, Reply, NoRequest, IInv, TypeOK, LiveOK, WorkersOK, Live, Issued,
        Keys, watchers
<1>8. ASSUME NEW w \in Workers, AcquireCloneTicket(w) PROVE LiveOK'
  BY <1>8, SessionAssumption
    DEF AcquireCloneTicket, Reply, NoRequest, Calls, IInv, TypeOK, LiveOK, WorkersOK, Live,
        Issued,
        Keys, watchers
<1>9. ASSUME NEW w \in Workers, CloneSession(w) PROVE LiveOK'
  BY <1>9, SessionAssumption
    DEF CloneSession, Calls, IInv, TypeOK, LiveOK, WorkersOK, Live, Issued, Keys, watchers
<1>10. ASSUME NEW w \in Workers, CloneDel(w) PROVE LiveOK'
  BY <1>10, SessionAssumption
    DEF CloneDel, delSession, IInv, TypeOK, LiveOK, WorkersOK, Live, Issued, Keys, watchers
<1>11. ASSUME NEW w \in Workers, ImpersonateUser(w) PROVE LiveOK'
  BY <1>11, SessionAssumption
    DEF ImpersonateUser, Calls, IInv, TypeOK, LiveOK, WorkersOK, Live, Issued, Keys,
        watchers
<1>12. ASSUME NEW w \in Workers, SetCopy(w) PROVE LiveOK'
  BY <1>12, SessionAssumption
    DEF SetCopy, NewSession, NoRequest, IInv, TypeOK, LiveOK, WorkersOK, Live, Issued, Keys
<1>13. ASSUME NEW w \in Workers, Fault(w) PROVE LiveOK'
  BY <1>13, SessionAssumption
    DEF Fault, Reply, NoRequest, Calls, IInv, TypeOK, LiveOK, WorkersOK, Live, Issued, Keys,
        watchers
<1>14. ASSUME NEW w \in Workers, Other(w) PROVE LiveOK'
  BY <1>14, SessionAssumption
    DEF Other, Reply, NoRequest, Calls, IInv, TypeOK, LiveOK, WorkersOK, Live, Issued, Keys,
        watchers
<1>15. ASSUME NEW k \in Keys, WatchCheck(k) PROVE LiveOK'
  BY <1>15, SessionAssumption
    DEF WatchCheck, IInv, TypeOK, LiveOK, WorkersOK, Live, Issued, Keys
<1>16. ASSUME NEW k \in Keys, WatchDel(k) PROVE LiveOK'
  BY <1>16, SessionAssumption
    DEF WatchDel, delSession, IInv, TypeOK, LiveOK, WorkersOK, Live, Issued, Keys
<1>17. CASE Tick
  BY <1>17, SessionAssumption
    DEF Tick, IInv, TypeOK, LiveOK, WorkersOK, Live, Issued, Keys, watchers
<1>18. CASE UNCHANGED vars
  BY <1>18, SessionAssumption
    DEF IInv, TypeOK, LiveOK, WorkersOK, Live, Issued, Keys, vars, watchers
<1>19. ASSUME NEW w \in Workers, SessionIdleWatch(w) PROVE LiveOK'
  BY <1>19, SessionAssumption
    DEF SessionIdleWatch, Reply, NoRequest, IInv, TypeOK, LiveOK, WorkersOK, Live, Issued, Keys
<1>20. ASSUME NEW w \in Workers, UpdateOptions(w) PROVE LiveOK'
  BY <1>20, SessionAssumption
    DEF UpdateOptions, Reply, NoRequest, Calls, IInv, TypeOK, LiveOK, WorkersOK, Live, Issued,
        Keys
<1> QED
  BY <1>1, <1>2, <1>3, <1>4, <1>5, <1>6, <1>7, <1>8, <1>9, <1>10, <1>11, <1>12, <1>13, <1>14,
     <1>15, <1>16, <1>17, <1>18, <1>19, <1>20
    DEF Next, Serve

(* A worker keeps to keys that have been handed out. *)
LEMMA WorkersStep == IInv /\ [Next]_vars => WorkersOK'
<1> SUFFICES ASSUME IInv, [Next]_vars PROVE WorkersOK'
  OBVIOUS
<1>1. ASSUME NEW w \in Workers, Receive(w) PROVE WorkersOK'
  BY <1>1, SessionAssumption
    DEF Receive, IInv, TypeOK, WorkersOK, Issued, Keys, Ops, Requests, watchers
<1>2. ASSUME NEW w \in Workers, Renew(w) PROVE WorkersOK'
  <2>1. /\ req[w].cookie \in Issued /\ pc' = [pc EXCEPT ![w] = "call"] /\ pc[w] = "renew"
        /\ session' = [session EXCEPT ![w] = req[w].cookie] /\ UNCHANGED <<req, issued>>
    BY <1>2 DEF Renew, IInv, WorkersOK
  <2>2. req[w].op \in {"TerminateSession", "CloneSession"} => req[w].arg \in Issued
    BY <2>1 DEF IInv, WorkersOK
  <2> QED
    BY <2>1, <2>2 DEF IInv, TypeOK, WorkersOK, Issued
<1>3. ASSUME NEW w \in Workers, NotAuthenticated(w) PROVE WorkersOK'
  BY <1>3, SessionAssumption
    DEF NotAuthenticated, Reply, NoRequest, IInv, TypeOK, WorkersOK, Issued, Keys, watchers
<1>4. ASSUME NEW w \in Workers, Login(w) PROVE WorkersOK'
  BY <1>4, SessionAssumption
    DEF Login, NewSession, NoRequest, Calls, IInv, TypeOK, WorkersOK, Issued, Keys
<1>5. ASSUME NEW w \in Workers, Logout(w) PROVE WorkersOK'
  BY <1>5, SessionAssumption
    DEF Logout, delSession, Reply, NoRequest, Calls, IInv, TypeOK, WorkersOK, Issued, Keys,
        watchers
<1>6. ASSUME NEW w \in Workers, TerminateSession(w) PROVE WorkersOK'
  BY <1>6, SessionAssumption
    DEF TerminateSession, Calls, IInv, TypeOK, WorkersOK, Issued, Keys, watchers
<1>7. ASSUME NEW w \in Workers, TerminateDel(w) PROVE WorkersOK'
  BY <1>7, SessionAssumption
    DEF TerminateDel, delSession, Reply, NoRequest, IInv, TypeOK, WorkersOK, Issued, Keys,
        watchers
<1>8. ASSUME NEW w \in Workers, AcquireCloneTicket(w) PROVE WorkersOK'
  BY <1>8, SessionAssumption
    DEF AcquireCloneTicket, Reply, NoRequest, Calls, IInv, TypeOK, WorkersOK, Issued, Keys,
        watchers
<1>9. ASSUME NEW w \in Workers, CloneSession(w) PROVE WorkersOK'
  BY <1>9, SessionAssumption
    DEF CloneSession, Calls, IInv, TypeOK, WorkersOK, Issued, Keys, watchers
<1>10. ASSUME NEW w \in Workers, CloneDel(w) PROVE WorkersOK'
  BY <1>10, SessionAssumption
    DEF CloneDel, delSession, IInv, TypeOK, WorkersOK, Issued, Keys, watchers
<1>11. ASSUME NEW w \in Workers, ImpersonateUser(w) PROVE WorkersOK'
  BY <1>11, SessionAssumption
    DEF ImpersonateUser, Calls, IInv, TypeOK, WorkersOK, Issued, Keys, watchers
<1>12. ASSUME NEW w \in Workers, SetCopy(w) PROVE WorkersOK'
  BY <1>12, SessionAssumption
    DEF SetCopy, NewSession, NoRequest, IInv, TypeOK, WorkersOK, Issued, Keys
<1>13. ASSUME NEW w \in Workers, Fault(w) PROVE WorkersOK'
  BY <1>13, SessionAssumption
    DEF Fault, Reply, NoRequest, Calls, IInv, TypeOK, WorkersOK, Issued, Keys, watchers
<1>14. ASSUME NEW w \in Workers, Other(w) PROVE WorkersOK'
  BY <1>14, SessionAssumption
    DEF Other, Reply, NoRequest, Calls, IInv, TypeOK, WorkersOK, Issued, Keys, watchers
<1>15. ASSUME NEW k \in Keys, WatchCheck(k) PROVE WorkersOK'
  BY <1>15, SessionAssumption DEF WatchCheck, IInv, TypeOK, WorkersOK, Issued, Keys
<1>16. ASSUME NEW k \in Keys, WatchDel(k) PROVE WorkersOK'
  BY <1>16, SessionAssumption DEF WatchDel, delSession, IInv, TypeOK, WorkersOK, Issued, Keys
<1>17. CASE Tick
  BY <1>17, SessionAssumption DEF Tick, IInv, TypeOK, WorkersOK, Issued, Keys, watchers
<1>18. CASE UNCHANGED vars
  BY <1>18, SessionAssumption DEF IInv, TypeOK, WorkersOK, Issued, Keys, vars, watchers
<1>19. ASSUME NEW w \in Workers, SessionIdleWatch(w) PROVE WorkersOK'
  BY <1>19, SessionAssumption
    DEF SessionIdleWatch, Reply, NoRequest, IInv, TypeOK, WorkersOK, Issued, Keys
<1>20. ASSUME NEW w \in Workers, UpdateOptions(w) PROVE WorkersOK'
  BY <1>20, SessionAssumption
    DEF UpdateOptions, Reply, NoRequest, Calls, IInv, TypeOK, WorkersOK, Issued, Keys
<1> QED
  BY <1>1, <1>2, <1>3, <1>4, <1>5, <1>6, <1>7, <1>8, <1>9, <1>10, <1>11, <1>12, <1>13, <1>14,
     <1>15, <1>16, <1>17, <1>18, <1>19, <1>20
    DEF Next, Serve

(* Every step keeps the timer of a kept session in time. *)
LEMMA WatchStep == IInv /\ [Next]_vars => WatchOK'
<1> SUFFICES ASSUME IInv, [Next]_vars PROVE WatchOK'
  OBVIOUS
<1>1. ASSUME NEW w \in Workers, Receive(w) PROVE WatchOK'
  BY <1>1, SessionAssumption
    DEF Receive, IInv, TypeOK, WorkersOK, WatchOK, FreshOK, Watches, Kept, Issued, Keys, Times,
        Live, watchers
<1>2. ASSUME NEW w \in Workers, Renew(w) PROVE WatchOK'
  <2> SUFFICES ASSUME NEW k \in Kept
               PROVE  /\ sessions'[k] \in Times /\ sessions'[k] <= now
                      /\ Watches(k) => \/ due[k] <= sessions'[k] + 2 * Timeout
                                       \/ due[k] <= start[k] + Timeout
    BY <1>2 DEF Renew, IInv, WatchOK, Kept, Issued, Watches, watchers
  <2>1. /\ k \in Keys /\ now \in Times /\ now \in Int /\ sessions[k] \in Int /\ due[k] \in Int
        /\ start[k] \in Int /\ Timeout \in Int
    BY SessionAssumption DEF IInv, TypeOK, WatchOK, Kept, Issued, Keys, Times
  <2>2. sessions'[k] = sessions[k] \/ sessions'[k] = now
    BY <1>2, <2>1 DEF Renew, IInv, TypeOK
  <2> QED
    BY <2>1, <2>2 DEF IInv, WatchOK
<1>3. ASSUME NEW w \in Workers, NotAuthenticated(w) PROVE WatchOK'
  BY <1>3, SessionAssumption
    DEF NotAuthenticated, Reply, NoRequest, IInv, TypeOK, WorkersOK, WatchOK, FreshOK, Watches,
        Kept, Issued, Keys,
        Times, Live, watchers
<1>4. ASSUME NEW w \in Workers, Login(w) PROVE WatchOK'
  BY <1>4, NewSessionWatch DEF Login
<1>5. ASSUME NEW w \in Workers, Logout(w) PROVE WatchOK'
  BY <1>5, SessionAssumption
    DEF Logout, delSession, Reply, NoRequest, Calls, IInv, TypeOK, WorkersOK, WatchOK, FreshOK,
        Watches, Kept, Issued,
        Keys, Times, Live, watchers
<1>6. ASSUME NEW w \in Workers, TerminateSession(w) PROVE WatchOK'
  BY <1>6, SessionAssumption
    DEF TerminateSession, Calls, IInv, TypeOK, WorkersOK, WatchOK, FreshOK, Watches, Kept,
        Issued, Keys,
        Times, Live, watchers
<1>7. ASSUME NEW w \in Workers, TerminateDel(w) PROVE WatchOK'
  BY <1>7, SessionAssumption
    DEF TerminateDel, delSession, Reply, NoRequest, IInv, TypeOK, WorkersOK, WatchOK, FreshOK,
        Watches, Kept, Issued,
        Keys, Times, Live, watchers
<1>8. ASSUME NEW w \in Workers, AcquireCloneTicket(w) PROVE WatchOK'
  BY <1>8, SessionAssumption
    DEF AcquireCloneTicket, Reply, NoRequest, Calls, IInv, TypeOK, WorkersOK, WatchOK, FreshOK,
        Watches, Kept, Issued,
        Keys, Times, Live, watchers
<1>9. ASSUME NEW w \in Workers, CloneSession(w) PROVE WatchOK'
  BY <1>9, SessionAssumption
    DEF CloneSession, Calls, IInv, TypeOK, WorkersOK, WatchOK, FreshOK, Watches, Kept, Issued,
        Keys, Times,
        Live, watchers
<1>10. ASSUME NEW w \in Workers, CloneDel(w) PROVE WatchOK'
  BY <1>10, SessionAssumption
    DEF CloneDel, delSession, IInv, TypeOK, WorkersOK, WatchOK, FreshOK, Watches, Kept, Issued,
        Keys, Times,
        Live, watchers
<1>11. ASSUME NEW w \in Workers, ImpersonateUser(w) PROVE WatchOK'
  BY <1>11, SessionAssumption
    DEF ImpersonateUser, Calls, IInv, TypeOK, WorkersOK, WatchOK, FreshOK, Watches, Kept,
        Issued, Keys, Times,
        Live, watchers
<1>12. ASSUME NEW w \in Workers, SetCopy(w) PROVE WatchOK'
  BY <1>12, NewSessionWatch DEF SetCopy
<1>13. ASSUME NEW w \in Workers, Fault(w) PROVE WatchOK'
  BY <1>13, SessionAssumption
    DEF Fault, Reply, NoRequest, Calls, IInv, TypeOK, WorkersOK, WatchOK, FreshOK, Watches,
        Kept, Issued, Keys, Times,
        Live, watchers
<1>14. ASSUME NEW w \in Workers, Other(w) PROVE WatchOK'
  BY <1>14, SessionAssumption
    DEF Other, Reply, NoRequest, Calls, IInv, TypeOK, WorkersOK, WatchOK, FreshOK, Watches,
        Kept, Issued, Keys, Times,
        Live, watchers
<1>15. ASSUME NEW k \in Keys, WatchCheck(k) PROVE WatchOK'
  <2> SUFFICES ASSUME NEW j \in Kept
               PROVE  /\ sessions[j] \in Times /\ sessions[j] <= now /\ watch'[j] # "gone"
                      /\ watch'[j] \in {"sleep", "delete"} =>
                           /\ now <= due'[j]
                           /\ \/ due'[j] <= sessions[j] + 2 * Timeout
                              \/ due'[j] <= start[j] + Timeout
    BY <1>15, CheckOutcomes DEF WatchOK, Kept, Issued, Watches
  <2>1. /\ j \in Keys /\ sessions[j] \in Int /\ now \in Int /\ due[j] \in Int /\ Timeout \in Nat
        /\ start[j] \in Int
        /\ sessions[j] # None /\ sessions[j] \in Times /\ sessions[j] <= now /\ watch[j] # "gone"
        /\ watch[j] \in {"sleep", "delete"} =>
             /\ now <= due[j]
             /\ due[j] <= sessions[j] + 2 * Timeout \/ due[j] <= start[j] + Timeout
    BY SessionAssumption DEF IInv, TypeOK, WatchOK, Watches, Kept, Issued, Keys, Times
  <2>2. CASE j = k
    BY <1>15, <2>1, <2>2, CheckOutcomes DEF IInv, TypeOK
  <2>3. CASE j # k
    BY <1>15, <2>1, <2>3, CheckOutcomes DEF IInv, TypeOK
  <2> QED
    BY <2>2, <2>3
<1>16. ASSUME NEW k \in Keys, WatchDel(k) PROVE WatchOK'
  BY <1>16, SessionAssumption
    DEF WatchDel, delSession, IInv, TypeOK, WorkersOK, WatchOK, FreshOK, Watches, Kept, Issued,
        Keys, Times,
        Live
<1>17. CASE Tick
  BY <1>17, SessionAssumption
    DEF Tick, IInv, TypeOK, WorkersOK, WatchOK, FreshOK, Watches, Kept, Issued, Keys, Times,
        Live, watchers
<1>18. CASE UNCHANGED vars
  BY <1>18, SessionAssumption
    DEF IInv, TypeOK, WorkersOK, WatchOK, FreshOK, Watches, Kept, Issued, Keys, Times, Live,
        vars, watchers
<1>19. ASSUME NEW w \in Workers, SessionIdleWatch(w) PROVE WatchOK'
  <2> SUFFICES ASSUME NEW k \in Kept
               PROVE  /\ sessions[k] \in Times /\ sessions[k] <= now
                      /\ watch'[k] # "gone"
                      /\ watch'[k] \in {"sleep", "delete"} =>
                           /\ now <= due'[k]
                           /\ \/ due'[k] <= sessions[k] + 2 * Timeout
                              \/ due'[k] <= start'[k] + Timeout
    BY <1>19 DEF SessionIdleWatch, WatchOK, Kept, Issued, Watches
  <2>1. k \in Keys /\ now \in Int /\ Timeout \in Nat
    BY SessionAssumption DEF IInv, TypeOK, Kept, Issued, Keys, Times
  <2>2. CASE k = session[w]
    BY <1>19, <2>1, <2>2 DEF SessionIdleWatch, IInv, TypeOK, WatchOK
  <2>3. CASE k # session[w]
    <3>1. watch'[k] = watch[k] /\ due'[k] = due[k] /\ start'[k] = start[k]
      BY <1>19, <2>1, <2>3 DEF SessionIdleWatch, IInv, TypeOK
    <3> QED
      BY <3>1 DEF IInv, WatchOK, Watches
  <2> QED
    BY <2>2, <2>3
<1>20. ASSUME NEW w \in Workers, UpdateOptions(w) PROVE WatchOK'
  BY <1>20, SessionAssumption
    DEF UpdateOptions, Reply, NoRequest, Calls, IInv, TypeOK, WorkersOK, WatchOK, FreshOK,
        Watches, Kept, Issued, Keys, Times, Live
<1> QED
  BY <1>1, <1>2, <1>3, <1>4, <1>5, <1>6, <1>7, <1>8, <1>9, <1>10, <1>11, <1>12, <1>13, <1>14,
     <1>15, <1>16, <1>17, <1>18, <1>19, <1>20
    DEF Next, Serve

(* A step of w leaves the other workers where they are. *)
Alone(w) == \A v \in Workers \ {w} : pc'[v] = pc[v] /\ session'[v] = session[v]

(* The steps of a worker that is not about to start a watcher. *)
Ordinary(w) ==
    \/ Receive(w) \/ Renew(w) \/ NotAuthenticated(w) \/ Fault(w) \/ Other(w)
    \/ Logout(w) \/ TerminateSession(w) \/ TerminateDel(w)
    \/ AcquireCloneTicket(w) \/ CloneSession(w) \/ CloneDel(w) \/ ImpersonateUser(w)

(* What such a step leaves alone, and that it makes no key a kept one. *)
LEMMA OrdinaryEffect ==
    ASSUME IInv, NEW w \in Workers, Ordinary(w)
    PROVE  pc[w] # "watch" /\ Alone(w) /\ UNCHANGED watchers /\ Kept' \subseteq Kept
<1>1. CASE \/ Receive(w) \/ Renew(w) \/ NotAuthenticated(w) \/ Fault(w) \/ Other(w)
           \/ TerminateSession(w) \/ CloneSession(w) \/ ImpersonateUser(w)
  BY <1>1 DEF Receive, Renew, NotAuthenticated, Fault, Other, TerminateSession, CloneSession,
     ImpersonateUser, Calls, Reply, Alone, Kept, Issued, IInv, TypeOK
<1>2. CASE Logout(w) \/ TerminateDel(w) \/ CloneDel(w)
  BY <1>2 DEF Logout, TerminateDel, CloneDel, delSession, Calls, Reply, Alone, Kept, Issued,
     IInv, TypeOK
<1>3. CASE AcquireCloneTicket(w)
  <2>1. pc[w] # "watch" /\ Alone(w) /\ UNCHANGED watchers
    BY <1>3 DEF AcquireCloneTicket, Calls, Reply, Alone, IInv, TypeOK
  <2>2. Kept' \subseteq Kept
    BY <1>3, SessionAssumption DEF AcquireCloneTicket, Kept, Issued, IInv, TypeOK
  <2> QED
    BY <2>1, <2>2
<1> QED
  BY <1>1, <1>2, <1>3 DEF Ordinary

(* A login that is about to start a watcher stays so when others step. *)
LEMMA ToWatchStays ==
    ASSUME NEW w \in Workers, pc[w] # "watch", Alone(w), NEW k, ToWatch(k)
    PROVE  ToWatch(k)'
<1>1. PICK v \in Workers : pc[v] = "watch" /\ session[v] = k
  BY DEF ToWatch
<1> QED
  BY <1>1 DEF ToWatch, Alone

(* No watcher is started for a key not handed out, or without the option. *)
LEMMA FreshStep == IInv /\ [Next]_vars => FreshOK'
<1> SUFFICES ASSUME IInv, [Next]_vars PROVE FreshOK'
  OBVIOUS
<1>1. issued \in Int /\ FreshOK /\ Keys \subseteq Int
  BY SessionAssumption DEF IInv, TypeOK, Keys
<1>2. ASSUME NEW w \in Workers, Ordinary(w) PROVE FreshOK'
  <2>1. UNCHANGED watchers
    BY <1>2, OrdinaryEffect
  <2>2. issued' = issued \/ issued' = issued + 1
    BY <1>2 DEF Ordinary, Receive, Renew, NotAuthenticated, Fault, Other, Logout,
       TerminateSession, TerminateDel, AcquireCloneTicket, CloneSession, CloneDel,
       ImpersonateUser
  <2> QED
    BY <1>1, <2>1, <2>2 DEF FreshOK, Watches, watchers
<1>3. ASSUME NEW w \in Workers, Login(w) \/ SetCopy(w) PROVE FreshOK'
  BY <1>1, <1>3 DEF Login, SetCopy, NewSession, FreshOK, Watches, watchers
<1>4. ASSUME NEW w \in Workers, SessionIdleWatch(w) PROVE FreshOK'
  <2>1. session[w] \in Issued /\ issued' = issued /\ since' = since
    BY <1>4 DEF SessionIdleWatch, IInv, WorkersOK
  <2>2. session[w] \in Keys /\ ~(session[w] > issued)
    BY <2>1, SessionAssumption DEF Issued, Keys, IInv, TypeOK
  <2> QED
    BY <1>1, <1>4, <2>1, <2>2 DEF SessionIdleWatch, FreshOK, Watches, IInv, TypeOK
<1>5. ASSUME NEW w \in Workers, UpdateOptions(w) PROVE FreshOK'
  BY <1>1, <1>5, SessionAssumption DEF UpdateOptions, FreshOK, Watches
<1>6. ASSUME NEW k \in Keys, WatchCheck(k) \/ WatchDel(k) PROVE FreshOK'
  <2>1. Watches(k) /\ issued' = issued /\ since' = since
        /\ \A j \in Keys : j # k => watch'[j] = watch[j]
    BY <1>6, CheckOutcomes DEF WatchDel, Watches, IInv, TypeOK
  <2> QED
    BY <1>1, <2>1 DEF FreshOK, Watches
<1>7. CASE Tick \/ UNCHANGED vars
  BY <1>1, <1>7 DEF Tick, FreshOK, Watches, vars, watchers
<1> QED
  BY <1>2, <1>3, <1>4, <1>5, <1>6, <1>7 DEF Next, Serve, Ordinary

(* Every login that has put its session still starts its watcher. *)
LEMMA ToWatchStep == IInv /\ [Next]_vars => ToWatchOK'
<1> SUFFICES ASSUME IInv, [Next]_vars, NEW k \in Kept', since' # None, k > since'
             PROVE  Watches(k)' \/ ToWatch(k)'
  BY DEF ToWatchOK
<1>2. ASSUME NEW w \in Workers, Ordinary(w) PROVE Watches(k)' \/ ToWatch(k)'
  <2>1. Watches(k) \/ ToWatch(k)
    BY <1>2, OrdinaryEffect DEF IInv, ToWatchOK, watchers
  <2> QED
    BY <1>2, <2>1, OrdinaryEffect, ToWatchStays DEF Watches, watchers
<1>3. ASSUME NEW w \in Workers, Login(w) \/ SetCopy(w) PROVE Watches(k)' \/ ToWatch(k)'
  <2>1. /\ pc[w] # "watch" /\ Alone(w) /\ UNCHANGED watchers /\ UNCHANGED <<tickets, ended>>
        /\ issued' = issued + 1 /\ pc'[w] = "watch" /\ session'[w] = issued + 1
    BY <1>3 DEF Login, SetCopy, NewSession, Calls, Alone, IInv, TypeOK
  <2>2. k \in Kept \/ k = issued + 1
    BY <2>1, SessionAssumption DEF Kept, Issued, IInv, TypeOK
  <2>3. CASE k = issued + 1
    BY <2>1, <2>3 DEF ToWatch
  <2>4. CASE k \in Kept
    BY <2>1, <2>4, ToWatchStays DEF IInv, ToWatchOK, Watches, watchers
  <2> QED
    BY <2>2, <2>3, <2>4
<1>4. ASSUME NEW w \in Workers, SessionIdleWatch(w) PROVE Watches(k)' \/ ToWatch(k)'
  <2>1. /\ k \in Kept /\ since # None /\ since' = since /\ Alone(w) /\ pc[w] = "watch"
        /\ watch' = [watch EXCEPT ![session[w]] = "sleep"]
    BY <1>4 DEF SessionIdleWatch, Reply, Alone, Kept, Issued, IInv, TypeOK
  <2>2. k \in Keys
    BY <2>1, SessionAssumption DEF Kept, Issued, Keys, IInv, TypeOK
  <2>3. CASE session[w] = k
    BY <2>1, <2>2, <2>3 DEF Watches, IInv, TypeOK
  <2>4. CASE session[w] # k
    <3>1. CASE Watches(k)
      BY <2>1, <2>2, <2>4, <3>1 DEF Watches, IInv, TypeOK
    <3>2. CASE ToWatch(k)
      <4>1. PICK v \in Workers : pc[v] = "watch" /\ session[v] = k
        BY <3>2 DEF ToWatch
      <4> QED
        BY <2>1, <2>4, <4>1 DEF ToWatch, Alone
    <3> QED
      BY <2>1, <3>1, <3>2 DEF IInv, ToWatchOK
  <2> QED
    BY <2>3, <2>4
<1>5. ASSUME NEW w \in Workers, UpdateOptions(w) PROVE Watches(k)' \/ ToWatch(k)'
  <2>1. k \in Kept /\ k <= issued /\ issued \in Int /\ k \in Int
    BY <1>5, SessionAssumption DEF UpdateOptions, Kept, Issued, IInv, TypeOK
  <2>2. since # None /\ since' = since /\ watch' = watch
    BY <1>5, <2>1 DEF UpdateOptions
  <2>3. pc[w] # "watch" /\ Alone(w)
    BY <1>5 DEF UpdateOptions, Calls, Reply, Alone, IInv, TypeOK
  <2> QED
    BY <2>1, <2>2, <2>3, ToWatchStays DEF IInv, ToWatchOK, Watches
<1>6. ASSUME NEW j \in Keys, WatchCheck(j) \/ WatchDel(j) PROVE Watches(k)' \/ ToWatch(k)'
  <2>1. /\ issued' = issued /\ since' = since /\ UNCHANGED <<pc, session, tickets>>
        /\ k \in Kept /\ k \in Keys
    BY <1>6, CheckOutcomes, SessionAssumption
      DEF WatchDel, delSession, Kept, Issued, Keys, IInv, TypeOK
  <2>2. sessions[k] # None
    BY <2>1, SessionAssumption DEF IInv, WatchOK, Times
  <2>3. Watches(k) => Watches(k)'
    <3>1. CASE k # j
      BY <1>6, <2>1, <3>1, CheckOutcomes DEF WatchDel, Watches, IInv, TypeOK
    <3>2. CASE k = j /\ WatchCheck(j)
      BY <2>1, <2>2, <3>2, CheckOutcomes DEF Watches, IInv, TypeOK
    <3>3. CASE k = j /\ WatchDel(j)
      BY <2>1, <2>2, <3>3 DEF WatchDel, delSession, Kept, Live
    <3> QED
      BY <1>6, <3>1, <3>2, <3>3
  <2> QED
    BY <2>1, <2>3 DEF IInv, ToWatchOK, ToWatch
<1>7. CASE Tick \/ UNCHANGED vars
  BY <1>7 DEF Tick, IInv, ToWatchOK, ToWatch, Watches, Kept, Issued, vars, watchers
<1> QED
  BY <1>2, <1>3, <1>4, <1>5, <1>6, <1>7 DEF Next, Serve, Ordinary

-----------------------------------------------------------------------------
(* At first nobody has logged in. *)
LEMMA InitIInv == Init => IInv
BY SessionAssumption DEF Init, IInv, ToWatchOK, NoRequest, TypeOK, LiveOK, WorkersOK, WatchOK,
        FreshOK, Watches, Kept, Live, Issued, Keys,
   Times, Requests, Ops

(* The invariant holds throughout every behaviour. *)
THEOREM Invariance == Spec => []IInv
<1>1. Init => IInv
  BY InitIInv
<1>2. IInv /\ [Next]_vars => IInv'
  BY TypeStep, LiveStep, WorkersStep, WatchStep, FreshStep, ToWatchStep DEF IInv
<1> QED
  BY <1>1, <1>2, PTL DEF Spec

(***************************************************************************)
(* With the option set every session that was never deleted is watched, or *)
(* its login is about to start its watcher, and a watched one is idle for  *)
(* at most two timeouts, whatever any number of requests renew, clone or   *)
(* end; without the option none is watched.                                *)
(***************************************************************************)
THEOREM SessionsExpire == Spec => []SessionsOK
<1>1. IInv => SessionsOK
  <2> SUFFICES ASSUME IInv PROVE Watched /\ IdleBound
    BY DEF SessionsOK, IInv
  <2>1. \A k \in Undeleted : k \in Kept /\ k \in Keys
    BY DEF IInv, LiveOK, Kept, Live, Undeleted
  <2>2. Watched
    BY <2>1 DEF Watched, IInv, WatchOK, FreshOK, ToWatchOK, ToWatch
  <2>3. ASSUME NEW k \in Undeleted, Watches(k)
        PROVE  now <= sessions[k] + 2 * Timeout \/ now <= start[k] + Timeout
    <3>1. /\ sessions[k] \in Int /\ now \in Int /\ due[k] \in Int /\ start[k] \in Int
          /\ Timeout \in Int
      BY <2>1, SessionAssumption DEF IInv, TypeOK, WatchOK, Times
    <3>2. /\ now <= due[k]
          /\ due[k] <= sessions[k] + 2 * Timeout \/ due[k] <= start[k] + Timeout
      BY <2>1, <2>3 DEF IInv, WatchOK
    <3> QED
      BY <3>1, <3>2
  <2> QED
    BY <2>2, <2>3 DEF IdleBound
<1> QED
  BY <1>1, Invariance, PTL

(***************************************************************************)
(* Only the put of mapSession, by a request that found the session before  *)
(* it was deleted, brings a deleted session back: no login, ticket, clone  *)
(* or impersonation ever reuses its key.                                   *)
(***************************************************************************)
THEOREM OnlyInFlight == Spec => ComesBackInFlight
<1>1. ASSUME IInv, Next, NEW k \in ended \ Live, sessions'[k] # None
      PROVE  \E w \in Workers : pc[w] = "renew" /\ req[w].cookie = k
  <2>0. k \in Keys /\ k \in Issued /\ sessions[k] = None /\ k # issued + 1
    BY <1>1, SessionAssumption DEF IInv, TypeOK, Live, Issued, Keys
  <2>1. ASSUME NEW w \in Workers, Renew(w) PROVE pc[w] = "renew" /\ req[w].cookie = k
    BY <1>1, <2>0, <2>1 DEF Renew, IInv, TypeOK
  <2>2. ASSUME NEW w \in Workers, Login(w) \/ SetCopy(w) \/ AcquireCloneTicket(w) PROVE FALSE
    BY <1>1, <2>0, <2>2 DEF Login, SetCopy, AcquireCloneTicket, NewSession, IInv, TypeOK
  <2>3. ASSUME NEW w \in Workers, Logout(w) \/ TerminateDel(w) \/ CloneDel(w) PROVE FALSE
    BY <1>1, <2>0, <2>3 DEF Logout, TerminateDel, CloneDel, delSession, IInv, TypeOK
  <2>4. ASSUME NEW j \in Keys, WatchDel(j) PROVE FALSE
    BY <1>1, <2>0, <2>4 DEF WatchDel, delSession, IInv, TypeOK
  <2>5. CASE UNCHANGED sessions
    BY <1>1, <2>0, <2>5
  <2>6. \/ \E w \in Workers : Renew(w)
        \/ \E w \in Workers : Login(w) \/ SetCopy(w) \/ AcquireCloneTicket(w)
        \/ \E w \in Workers : Logout(w) \/ TerminateDel(w) \/ CloneDel(w)
        \/ \E j \in Keys : WatchDel(j)
        \/ UNCHANGED sessions
    BY <1>1 DEF Next, Serve, Receive, NotAuthenticated, TerminateSession, CloneSession,
       ImpersonateUser, Fault, Other, SessionIdleWatch, UpdateOptions, WatchCheck, Tick
  <2> QED
    BY <2>1, <2>2, <2>3, <2>4, <2>5, <2>6
<1>2. IInv /\ [Next]_vars =>
        [\A k \in ended \ Live :
            sessions'[k] # None => \E w \in Workers : pc[w] = "renew" /\ req[w].cookie = k]_vars
  BY <1>1
<1> QED
  BY <1>2, Invariance, PTL DEF Spec, ComesBackInFlight

-----------------------------------------------------------------------------
(* Adding a client to, or removing one from, the clients about to Start. *)
LEMMA PendingCount ==
    ASSUME NEW S \in SUBSET Clients, NEW c
    PROVE  /\ Cardinality(S) \in Nat
           /\ c \in S => Cardinality(S \ {c}) = Cardinality(S) - 1 /\ Cardinality(S) >= 1
           /\ c \notin S => Cardinality(S \cup {c}) = Cardinality(S) + 1
<1>1. IsFiniteSet(S)
  BY FS_Subset, KeepAliveAssumption
<1>2. Cardinality(S) \in Nat /\ (Cardinality(S) = 0 <=> S = {})
  BY <1>1, FS_CardinalityType, FS_EmptySet
<1>3. c \in S => Cardinality(S \ {c}) = Cardinality(S) - 1
  BY <1>1, FS_RemoveElement
<1>4. c \notin S => Cardinality(S \cup {c}) = Cardinality(S) + 1
  BY <1>1, FS_AddElement
<1> QED
  BY <1>2, <1>3, <1>4

(* The initial state satisfies the inductive invariant. *)
LEMMA HandlerInitInv == HandlerInit => HandlerInv
<1> SUFFICES ASSUME HandlerInit PROVE HandlerInv
  OBVIOUS
<1>1. HandlerTypeOK
  <2>1. 0 \in 0 .. MaxLogins /\ 0 \in Nat
    BY KeepAliveAssumption
  <2>2. place \in [Actors -> Locations]
    BY DEF HandlerInit, Locations
  <2> QED
    BY <2>1, <2>2 DEF HandlerInit, HandlerTypeOK
<1>2. Places /\ MuOwner
  BY KeepAliveAssumption DEF HandlerInit, Places, MuOwner, Actors, Goroutines
<1>3. Running = {} /\ Pending = {}
  BY KeepAliveAssumption DEF HandlerInit, Running, Pending, Actors, Goroutines
<1>4. Cardinality(Pending) = 0
  BY <1>3, FS_EmptySet
<1> QED
  BY <1>1, <1>2, <1>3, <1>4 DEF HandlerInv, Stoppable, HandlerInit

(***************************************************************************)
(* A step that only moves one actor, and not into or out of the running    *)
(* goroutines, the pending clients, the waiting Stop or the unborn.        *)
(***************************************************************************)
LEMMA MoveInv ==
    ASSUME HandlerInv, NEW a \in Actors, NEW to \in Locations,
           place' = [place EXCEPT ![a] = to],
           UNCHANGED <<mu, notifyStop, closed, wg, started, logins, rest>>,
           a \in Clients => /\ place[a] \in {"idle", "stop"} /\ to \in {"idle", "stop"},
           a \in Goroutines =>
             \/ {place[a], to} \subseteq {"select", "send", "sentStart", "failedStart", "failed"}
             \/ {place[a], to} \subseteq {"stop", "exited"}
    PROVE  HandlerInv'
<1>1. place \in [Actors -> Locations] /\ Places /\ MuOwner /\ HandlerTypeOK
  BY DEF HandlerInv, HandlerTypeOK
<1>2. Running' = Running
  BY <1>1, KeepAliveAssumption DEF Running, Actors
<1>3. Pending' = Pending
  BY <1>1, KeepAliveAssumption DEF Pending, Actors
<1>4. HandlerTypeOK'
  BY <1>1 DEF HandlerTypeOK
<1>5. Places'
  BY <1>1, KeepAliveAssumption DEF Places, Actors
<1>6. MuOwner'
  BY <1>1, KeepAliveAssumption DEF MuOwner, Actors
<1> QED
  BY <1>2, <1>3, <1>4, <1>5, <1>6 DEF HandlerInv, Stoppable

(* A client's Login or session check counts before it calls Start. *)
LEMMA LoginInv ==
    ASSUME HandlerInv, NEW c \in Clients, RoundTripLogin(c) \/ Check(c)
    PROVE  HandlerInv'
<1>1. place \in [Actors -> Locations] /\ Places /\ MuOwner /\ HandlerTypeOK /\ c \in Actors
  BY DEF HandlerInv, HandlerTypeOK, Actors
<1>2. PICK to \in {"loginStart", "checkStart"} : place' = [place EXCEPT ![c] = to]
  BY DEF RoundTripLogin, Check
<1>3. /\ place[c] = "idle" /\ logins < MaxLogins /\ logins' = logins + 1
      /\ UNCHANGED <<mu, notifyStop, closed, wg, started, rest>>
  BY <1>1 DEF RoundTripLogin, Check, HandlerTypeOK
<1>4. Running' = Running
  BY <1>1, <1>2, <1>3, KeepAliveAssumption DEF Running, Actors
<1>5. Pending' = Pending \cup {c} /\ c \notin Pending
  BY <1>1, <1>2, <1>3, KeepAliveAssumption DEF Pending, Actors
<1>6. HandlerTypeOK'
  BY <1>1, <1>2, <1>3, KeepAliveAssumption DEF HandlerTypeOK, Locations
<1>7. Places'
  BY <1>1, <1>2, <1>3, KeepAliveAssumption DEF Places, Actors
<1>8. MuOwner'
  BY <1>1, <1>2, <1>3, KeepAliveAssumption DEF MuOwner, Actors
<1>9. Cardinality(Pending') = Cardinality(Pending) + 1 /\ Cardinality(Pending) \in Nat
  BY <1>5, PendingCount DEF Pending
<1>10. started' + Cardinality(Pending') <= logins'
  BY <1>1, <1>3, <1>9 DEF HandlerInv, HandlerTypeOK
<1> QED
  BY <1>3, <1>4, <1>6, <1>7, <1>8, <1>10 DEF HandlerInv, Stoppable

(* A client's Start: the running goroutine goes on, or a new one begins. *)
LEMMA ClientStartInv ==
    ASSUME HandlerInv, NEW c \in Clients, LoginStart(c) \/ CheckStart(c)
    PROVE  HandlerInv'
<1>1. place \in [Actors -> Locations] /\ Places /\ MuOwner /\ HandlerTypeOK /\ c \in Actors
  BY DEF HandlerInv, HandlerTypeOK, Actors
<1>2. /\ place[c] \in {"loginStart", "checkStart"}
      /\ Start(c, "idle")
      /\ rest' = rest
  BY DEF LoginStart, CheckStart
<1>4. mu = Nobody /\ UNCHANGED <<mu, closed, logins>>
  BY <1>2 DEF Start
<1>5. c \in Pending
  BY <1>2 DEF Pending
<1>6. /\ Cardinality(Pending) \in Nat
      /\ Cardinality(Pending \ {c}) = Cardinality(Pending) - 1
      /\ Cardinality(Pending) >= 1
  BY <1>5, PendingCount DEF Pending
<1>7. CASE notifyStop # 0
  <2>1. place' = [place EXCEPT ![c] = "idle"] /\ UNCHANGED <<notifyStop, wg, started>>
    BY <1>2, <1>7 DEF Start
  <2>2. Running' = Running
    BY <1>1, <2>1, KeepAliveAssumption DEF Running, Actors
  <2>3. Pending' = Pending \ {c}
    BY <1>1, <2>1, KeepAliveAssumption DEF Pending, Actors
  <2>4. HandlerTypeOK'
    BY <1>1, <1>2, <1>4, <2>1 DEF HandlerTypeOK, Locations
  <2>5. Places'
    BY <1>1, <2>1, KeepAliveAssumption DEF Places, Actors
  <2>6. MuOwner'
    BY <1>1, <1>2, <1>4, <2>1, KeepAliveAssumption DEF MuOwner, Actors
  <2>7. started' + Cardinality(Pending') <= logins'
    BY <1>1, <1>4, <1>6, <2>1, <2>3 DEF HandlerInv, HandlerTypeOK
  <2> QED
    BY <2>1, <2>2, <2>4, <2>5, <2>6, <2>7 DEF HandlerInv, Stoppable
<1>8. CASE notifyStop = 0
  <2>1. /\ started' = started + 1
        /\ notifyStop' = started + 1
        /\ wg' = wg + 1
        /\ place' = [place EXCEPT ![c] = "idle", ![started + 1] = "select"]
    BY <1>2, <1>8 DEF Start
  <2>2. Running = {} /\ wg = 0
    BY <1>8, KeepAliveAssumption DEF HandlerInv, Stoppable, Running, Goroutines
  <2>3. /\ started \in Nat /\ started + 1 \in Goroutines
        /\ started + 1 \in Actors /\ started + 1 # c
    BY <1>1, <1>6, KeepAliveAssumption DEF HandlerInv, HandlerTypeOK, Actors, Goroutines
  <2>4. \A a \in Actors : place'[a] = IF a = started + 1 THEN "select"
                                   ELSE IF a = c THEN "idle" ELSE place[a]
    BY <1>1, <2>1, <2>3
  <2>5. Running' = {started + 1}
    BY <2>2, <2>3, <2>4, KeepAliveAssumption DEF Running, Actors
  <2>6. Pending' = Pending \ {c}
    BY <2>3, <2>4, KeepAliveAssumption DEF Pending, Actors
  <2>7. HandlerTypeOK'
    <3>1. place' \in [Actors -> Locations]
      BY <1>1, <2>1 DEF Locations
    <3>2. started' \in 0 .. MaxLogins /\ notifyStop' \in 0 .. MaxLogins /\ wg' \in Nat
      BY <2>1, <2>2, <2>3, KeepAliveAssumption DEF Goroutines
    <3> QED
      BY <1>1, <1>2, <1>4, <3>1, <3>2 DEF HandlerTypeOK
  <2>8. Places'
    <3>1. \A d \in Clients : place'[d] \in {"idle", "loginStart", "checkStart", "stop",
        "stopWait"}
      BY <1>1, <2>3, <2>4, KeepAliveAssumption DEF Places, Actors
    <3>2. \A g \in Goroutines : place'[g] \notin {"idle", "loginStart", "checkStart"}
      BY <1>1, <2>4, KeepAliveAssumption DEF Places, Actors
    <3>3. \A g \in Goroutines : place'[g] = "unborn" <=> g > started'
      BY <1>1, <2>1, <2>3, <2>4, KeepAliveAssumption DEF Places, Actors, Goroutines
    <3> QED
      BY <3>1, <3>2, <3>3 DEF Places
  <2>9. MuOwner'
    BY <1>1, <1>4, <2>4, KeepAliveAssumption DEF MuOwner, Actors
  <2>10. started' + Cardinality(Pending') <= logins'
    BY <1>1, <1>4, <1>6, <2>1, <2>6 DEF HandlerInv, HandlerTypeOK
  <2>11. wg' = 1 /\ Running' # {} /\ Stoppable'
    BY <2>1, <2>2, <2>5 DEF Stoppable
  <2> QED
    BY <2>7, <2>8, <2>9, <2>10, <2>11 DEF HandlerInv
<1> QED
  BY <1>7, <1>8

(* A goroutine's own Start finds its channel in the field and does nothing. *)
LEMMA OwnStartInv ==
    ASSUME HandlerInv, NEW g \in Goroutines, SentStart(g) \/ FailedStart(g)
    PROVE  HandlerInv'
<1>1. g \in Running /\ g \in Actors /\ HandlerTypeOK
  BY DEF SentStart, FailedStart, Running, Actors, HandlerInv
<1>2. notifyStop # 0
  BY <1>1, KeepAliveAssumption DEF HandlerInv, Stoppable, Goroutines
<1>3. PICK to \in {"select", "failed"} :
        /\ place' = [place EXCEPT ![g] = to]
        /\ UNCHANGED <<mu, notifyStop, closed, wg, started, logins, rest>>
  BY <1>2 DEF SentStart, FailedStart, Start
<1>5. g \notin Clients /\ place[g] \in {"sentStart", "failedStart"}
  BY KeepAliveAssumption DEF SentStart, FailedStart
<1>6. to \in Locations
  BY DEF Locations
<1> QED
  BY <1>1, <1>3, <1>5, <1>6, MoveInv

(* A goroutine that is done is the one the wait group counted. *)
LEMMA DoneInv ==
    ASSUME HandlerInv, NEW g \in Goroutines, Notified(g) \/ FailedDone(g)
    PROVE  HandlerInv'
<1>1. /\ place \in [Actors -> Locations] /\ Places /\ MuOwner /\ HandlerTypeOK
      /\ g \in Actors /\ g \notin Clients
  BY KeepAliveAssumption DEF HandlerInv, HandlerTypeOK, Actors
<1>2. PICK to \in {"stop", "exited"} : place' = [place EXCEPT ![g] = to]
  BY DEF Notified, FailedDone
<1>3. /\ place[g] \in {"select", "failed"} /\ wg' = wg - 1
      /\ UNCHANGED <<mu, notifyStop, closed, started, logins, rest>>
  BY DEF Notified, FailedDone
<1>4. g \in Running /\ wg = 1
  BY <1>3 DEF HandlerInv, Running
<1>5. Running' = {}
  <2>1. \A h \in Running : h = g
    BY <1>4 DEF HandlerInv, Stoppable
  <2> QED
    BY <1>1, <1>2, <2>1 DEF Running, Actors
<1>6. Pending' = Pending
  BY <1>1, <1>2 DEF Pending, Actors
<1>7. wg' = 0
  BY <1>3, <1>4
<1>8. HandlerTypeOK'
  BY <1>1, <1>2, <1>3, <1>7 DEF HandlerTypeOK, Locations
<1>9. Places'
  BY <1>1, <1>2, <1>3 DEF Places, Actors
<1>10. MuOwner'
  BY <1>1, <1>2, <1>3 DEF MuOwner, Actors
<1> QED
  BY <1>3, <1>5, <1>6, <1>7, <1>8, <1>9, <1>10 DEF HandlerInv, Stoppable

(* Stop takes the mutex, closes the channel in the field and waits. *)
LEMMA StopEnterInv ==
    ASSUME HandlerInv, NEW a \in Actors, StopEnter(a)
    PROVE  HandlerInv'
<1>1. place \in [Actors -> Locations] /\ Places /\ MuOwner /\ HandlerTypeOK
  BY DEF HandlerInv, HandlerTypeOK
<1>2. /\ place[a] = "stop" /\ mu = Nobody
      /\ UNCHANGED <<notifyStop, wg, started, logins, rest>>
  BY DEF StopEnter
<1>3. CASE notifyStop = 0
  <2>1. place' = [place EXCEPT ![a] = AfterStop(a)] /\ UNCHANGED <<mu, closed>>
    BY <1>3 DEF StopEnter
  <2>2. /\ AfterStop(a) \in Locations
        /\ a \in Clients => AfterStop(a) = "idle"
        /\ a \in Goroutines => AfterStop(a) = "exited"
    BY KeepAliveAssumption DEF AfterStop, Locations
  <2> QED
    BY <1>2, <2>1, <2>2, MoveInv
<1>4. CASE notifyStop # 0
  <2>1. /\ mu' = a /\ closed' = closed \cup {notifyStop}
        /\ place' = [place EXCEPT ![a] = "stopWait"]
    BY <1>4 DEF StopEnter
  <2>2. Running' = Running
    BY <1>1, <1>2, <2>1 DEF Running, Actors
  <2>3. Pending' = Pending
    BY <1>1, <1>2, <2>1 DEF Pending, Actors
  <2>4. HandlerTypeOK'
    <3>1. notifyStop \in Goroutines
      BY <1>1, <1>4, KeepAliveAssumption DEF HandlerTypeOK, Goroutines
    <3> QED
      BY <1>1, <1>2, <2>1, <3>1 DEF HandlerTypeOK, Locations
  <2>5. Places'
    BY <1>1, <1>2, <2>1, KeepAliveAssumption DEF Places, Actors
  <2>6. MuOwner'
    BY <1>1, <1>2, <2>1, KeepAliveAssumption DEF MuOwner
  <2> QED
    BY <1>2, <2>2, <2>3, <2>4, <2>5, <2>6 DEF HandlerInv, Stoppable
<1> QED
  BY <1>3, <1>4

(* Stop returns when the wait group is at zero: no goroutine is running. *)
LEMMA StopWaitInv ==
    ASSUME HandlerInv, NEW a \in Actors, StopWait(a)
    PROVE  HandlerInv' /\ Running' = {}
<1>1. place \in [Actors -> Locations] /\ Places /\ MuOwner /\ HandlerTypeOK
  BY DEF HandlerInv, HandlerTypeOK
<1>2. /\ place[a] = "stopWait" /\ wg = 0 /\ notifyStop' = 0 /\ mu' = Nobody
      /\ place' = [place EXCEPT ![a] = AfterStop(a)]
      /\ UNCHANGED <<closed, wg, started, logins, rest>>
  BY DEF StopWait
<1>3. /\ AfterStop(a) \in {"idle", "exited"}
      /\ a \in Clients => AfterStop(a) = "idle"
      /\ a \in Goroutines => AfterStop(a) = "exited"
  BY KeepAliveAssumption DEF AfterStop
<1>4. Running = {}
  BY <1>2 DEF HandlerInv
<1>5. Running' = {}
  BY <1>1, <1>2, <1>3, <1>4 DEF Running, Actors
<1>6. Pending' = Pending
  BY <1>1, <1>2, <1>3 DEF Pending, Actors
<1>7. HandlerTypeOK'
  <2>1. place' \in [Actors -> Locations]
    BY <1>1, <1>2, <1>3 DEF Locations
  <2>2. notifyStop' \in 0 .. MaxLogins
    BY <1>2, KeepAliveAssumption
  <2> QED
    BY <1>1, <1>2, <2>1, <2>2 DEF HandlerTypeOK
<1>8. Places'
  BY <1>1, <1>2, <1>3, KeepAliveAssumption DEF Places, Actors
<1>9. MuOwner'
  BY <1>1, <1>2, <1>3, KeepAliveAssumption DEF MuOwner
<1> QED
  BY <1>2, <1>5, <1>6, <1>7, <1>8, <1>9 DEF HandlerInv, Stoppable

(***************************************************************************)
(* Every step preserves the inductive invariant, and the mutex is released *)
(* across a step only when no goroutine is running.                        *)
(***************************************************************************)
LEMMA HandlerNextInv ==
    ASSUME HandlerInv, [HandlerNext]_handler
    PROVE  HandlerInv' /\ (mu' = mu \/ mu = Nobody \/ Running' = {})
<1> DEFINE Goal == HandlerInv' /\ (mu' = mu \/ mu = Nobody \/ Running' = {})
<1>0. /\ HandlerTypeOK /\ Clients \subseteq Actors /\ Goroutines \subseteq Actors
      /\ Clients \cap Goroutines = {}
  BY KeepAliveAssumption DEF HandlerInv, Actors
<1>1. ASSUME NEW c \in Clients, RoundTripLogin(c) \/ Check(c) PROVE Goal
  BY <1>1, LoginInv DEF RoundTripLogin, Check
<1>2. ASSUME NEW c \in Clients, RoundTripLogout(c) PROVE Goal
  <2>1. /\ place' = [place EXCEPT ![c] = "stop"] /\ place[c] = "idle"
        /\ UNCHANGED <<mu, notifyStop, closed, wg, started, logins, rest>>
    BY <1>2 DEF RoundTripLogout
  <2>2. c \in Actors /\ c \notin Goroutines /\ "stop" \in Locations
    BY <1>0 DEF Locations
  <2> QED
    BY <2>1, <2>2, MoveInv
<1>3. ASSUME NEW c \in Clients, LoginStart(c) \/ CheckStart(c) PROVE Goal
  BY <1>3, ClientStartInv DEF LoginStart, CheckStart, Start
<1>4. ASSUME NEW a \in Actors, StopEnter(a) PROVE Goal
  BY <1>4, StopEnterInv DEF StopEnter
<1>5. ASSUME NEW a \in Actors, StopWait(a) PROVE Goal
  BY <1>5, StopWaitInv
<1>6. ASSUME NEW g \in Goroutines, Notified(g) \/ FailedDone(g) PROVE Goal
  BY <1>6, DoneInv DEF Notified, FailedDone
<1>7. ASSUME NEW g \in Goroutines,
             TimerFires(g) \/ SendSucceeds(g) \/ SendUnauthorized(g) \/ SendFails(g)
      PROVE  Goal
  <2>1. PICK to \in {"select", "send", "sentStart", "failedStart", "failed"} :
          place' = [place EXCEPT ![g] = to]
    BY <1>7 DEF TimerFires, SendSucceeds, SendUnauthorized, SendFails
  <2>2. /\ place[g] \in {"select", "send"}
        /\ UNCHANGED <<mu, notifyStop, closed, wg, started, logins, rest>>
    BY <1>7 DEF TimerFires, SendSucceeds, SendUnauthorized, SendFails
  <2>4. g \in Actors /\ g \notin Clients /\ to \in Locations
    BY <1>0 DEF Locations
  <2> QED
    BY <2>1, <2>2, <2>4, MoveInv
<1>8. ASSUME NEW g \in Goroutines, SentStart(g) \/ FailedStart(g) PROVE Goal
  BY <1>8, OwnStartInv DEF SentStart, FailedStart, Start
<1>9. CASE UNCHANGED handler
  <2>1. Running' = Running /\ Pending' = Pending
    BY <1>9 DEF handler, Running, Pending
  <2>2. HandlerTypeOK' /\ Places' /\ MuOwner'
    BY <1>9 DEF handler, HandlerInv, HandlerTypeOK, Places, MuOwner
  <2> QED
    BY <1>9, <2>1, <2>2 DEF handler, HandlerInv, Stoppable
<1>10. ASSUME NEW c \in Clients, ClientStep(c) PROVE Goal
  BY <1>0, <1>3, <1>4, <1>5, <1>10 DEF ClientStep
<1>11. ASSUME NEW g \in Goroutines, GoroutineStep(g) PROVE Goal
  BY <1>0, <1>4, <1>5, <1>6, <1>7, <1>8, <1>11 DEF GoroutineStep
<1> QED
  BY <1>1, <1>2, <1>9, <1>10, <1>11 DEF HandlerNext

(* The inductive invariant holds throughout. *)
LEMMA HandlerInductive == HandlerSpec => []HandlerInv
<1>1. HandlerInit => HandlerInv
  BY HandlerInitInv
<1>2. HandlerInv /\ [HandlerNext]_handler => HandlerInv'
  BY HandlerNextInv
<1> QED
  BY <1>1, <1>2, PTL DEF HandlerSpec

(* Every variable of the handler keeps its type: in particular wg never    *)
(* goes below zero, where the Go runtime panics.                           *)
THEOREM HandlerTypes == HandlerSpec => []HandlerTypeOK
<1>1. HandlerInv => HandlerTypeOK
  BY DEF HandlerInv
<1> QED
  BY <1>1, HandlerInductive, PTL

(* Whatever Logins, checks, Logouts and failed sends interleave, there is  *)
(* at most one keep-alive goroutine of a handler.                          *)
THEOREM AtMostOne == HandlerSpec => []OneKeepAlive
<1>1. HandlerInv => OneKeepAlive
  BY DEF HandlerInv, OneKeepAlive, Stoppable
<1> QED
  BY <1>1, HandlerInductive, PTL

(* h.notifyStop, which Stop closes and the select reads without a lock, is  *)
(* always the channel of the goroutine that runs.                          *)
THEOREM AlwaysStoppable == HandlerSpec => []Stoppable
<1>1. HandlerInv => Stoppable
  BY DEF HandlerInv
<1> QED
  BY <1>1, HandlerInductive, PTL

(* notifyWaitGroup counts the running goroutines. *)
THEOREM CountsRunning == HandlerSpec => []WaitGroupCounts
<1>1. ASSUME HandlerInv PROVE WaitGroupCounts
  <2>1. CASE Running = {}
    BY <1>1, <2>1, FS_EmptySet DEF HandlerInv, WaitGroupCounts
  <2>2. CASE Running # {}
    <3>1. PICK g \in Running : TRUE
      BY <2>2
    <3>2. Running = {g}
      BY <1>1, <3>1 DEF HandlerInv, Stoppable
    <3>3. Cardinality({g}) = 1
      BY FS_Singleton
    <3> QED
      BY <1>1, <2>2, <3>2, <3>3 DEF HandlerInv, WaitGroupCounts
  <2> QED
    BY <2>1, <2>2
<1> QED
  BY <1>1, HandlerInductive, PTL

(* A Stop that closed the channel returns with no goroutine left running:  *)
(* the steps that leave stopWait are those that release the mutex.         *)
THEOREM StopIsComplete == HandlerSpec => StopLeavesNone
<1> DEFINE Leaves == \A a \in Actors :
             place[a] = "stopWait" /\ place'[a] # "stopWait" => Running' = {}
<1>1. ASSUME HandlerInv, [HandlerNext]_handler PROVE Leaves
  <2>1. HandlerInv' /\ (mu' = mu \/ mu = Nobody \/ Running' = {})
    BY <1>1, HandlerNextInv
  <2>2. MuOwner /\ MuOwner'
    BY <1>1, <2>1 DEF HandlerInv
  <2> QED
    BY <2>1, <2>2, KeepAliveAssumption DEF MuOwner
<1>2. HandlerInv /\ [HandlerNext]_handler => [Leaves]_handler
  BY <1>1
<1> QED
  BY <1>2, HandlerInductive, PTL DEF HandlerSpec, StopLeavesNone
==============================================================================
