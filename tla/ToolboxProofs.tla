--------------------------- MODULE ToolboxProofs ----------------------------
(***************************************************************************)
(* The guest toolbox for any programs, pids, delays, requests and errors:  *)
(* the process table, the channels, the output of programs and the answers.*)
(***************************************************************************)
EXTENDS Toolbox, FiniteSetTheorems, TLAPS

(* The program has a pid that is not back in the pool. *)
Held(p) == monitor[p] \in {"wait", "pipes", "note", "cancel", "expire", "put"}

(* A program that is to be started is new, and one that is to be registered *)
(* is not registered yet; a command has its pid by then.                    *)
RequestOK ==
    /\ loop = "dispatch" => request \in Ops /\ (request.op = "start" => state[request.program] = "new")
    /\ loop = "register" =>
        /\ request.program \in Programs
        /\ monitor[request.program] = "none" /\ state[request.program] # "new"
        /\ request.program \in Cmds => pid[request.program] \in OSPids
    /\ \A p \in Programs : state[p] = "new" => monitor[p] = "none"

(* Pseudo pids are those of one function, or in the pool, or not used yet. *)
PidsOK ==
    /\ \A f \in Funcs : monitor[f] # "none" => pid[f] \in PseudoPids
    /\ \A f \in Funcs : Held(f) => pid[f] <= lastPid /\ pid[f] \notin pool
    /\ \A f, g \in Funcs : f # g /\ Held(f) /\ Held(g) => pid[f] # pid[g]
    /\ \A i \in pool : i <= lastPid
    /\ \A c \in Cmds : monitor[c] # "put" /\ (monitor[c] # "none" => pid[c] \in OSPids)

(* The inductive invariant of the process table. *)
TableInv == TypeOK /\ RequestOK /\ PidsOK /\ TableOK

(* A context is cancelled after the end of its program is noted, or by Kill. *)
EndsOK ==
    /\ \A p \in Programs : monitor[p] \in {"cancel", "expire", "put", "end"} => p \in ended
    /\ cancelled \subseteq ended \cup killed

(* At the select the response is for the request that is open, if there is  *)
(* no error, and of no request if there is; handlers run without an error.  *)
ResponseOK ==
    /\ loop \in {"new", "receive", "dispatch", "register", "stat", "write"} => ~rpcError
    /\ loop \in {"new", "receive"} => open = 0 /\ response.id = 0
    /\ loop = "select" => response.id = OpenAfterReset
-----------------------------------------------------------------------------
(* Pseudo pids are integers above PidBase, and so no OS pids. *)
LEMMA PidFacts ==
    /\ Cardinality(Funcs) \in Nat
    /\ PidBase \in Nat
    /\ \A i \in PseudoPids : i \in Int /\ i > PidBase /\ i <= PidBase + Cardinality(Funcs)
    /\ \A i \in OSPids : i \in Int /\ i <= PidBase /\ i # NoPid
    /\ Nobody \notin Programs
<1>1. Cardinality(Funcs) \in Nat
  BY FS_CardinalityType, ProcessesAssumption
<1> QED
  BY <1>1, ProcessesAssumption DEF PseudoPids, Nobody, NoPid, Programs

(* The steps that change the process manager. *)
LEMMA ProcessSteps ==
    [Next]_vars =>
        \/ UNCHANGED processes
        \/ DispatchStart \/ DispatchStartFails \/ DispatchRegister \/ DispatchKill \/ DispatchStdin
        \/ \E p \in Programs : \/ Ends(p) \/ ChildOf(p)
                               \/ WaitReturns(p) \/ WaitReaps(p) \/ OutputEnds(p) \/ NoteEnd(p)
                               \/ CancelContext(p) \/ Expire(p) \/ PutPid(p)
BY DEF Next, vars, Start, Stop, StopChannel, ResetFails, Send, SendFails, ReceiveNothing, Receive,
       Dispatch, DispatchStat, StatOutput, StatBusy, DispatchWrite, WriteReturns, WriteFails,
       DispatchOther, Monitors, Monitor

(* The steps that change the service or the VMX. *)
LEMMA ServiceSteps ==
    [Next]_vars =>
        \/ UNCHANGED <<service, vmx>>
        \/ Start \/ Stop \/ StopChannel \/ ResetFails \/ Send \/ SendFails
        \/ ReceiveNothing \/ Receive
        \/ DispatchStart \/ DispatchStartFails \/ DispatchRegister \/ DispatchKill
        \/ DispatchStat \/ StatOutput \/ StatBusy
        \/ DispatchStdin \/ DispatchWrite \/ WriteReturns \/ WriteFails \/ DispatchOther
BY DEF Next, vars, Dispatch, Ends, ChildOf, Monitors

(* Every step keeps the types, the program of a Register being one. *)
LEMMA TypeStep == (TypeOK /\ RequestOK /\ PidsOK) /\ [Next]_vars => TypeOK'
<1> SUFFICES ASSUME (TypeOK /\ RequestOK /\ PidsOK), [Next]_vars PROVE TypeOK'
  OBVIOUS
<1>1. CASE Start
  BY <1>1, ToolboxAssumption DEF Start, StartChannel, TypeOK, ProcessesTypeOK, processes
<1>2. CASE Stop
  BY <1>2, ToolboxAssumption DEF Stop, TypeOK, ProcessesTypeOK, vmx, processes
<1>3. CASE StopChannel
  BY <1>3, ToolboxAssumption DEF StopChannel, TypeOK, ProcessesTypeOK, processes
<1>4. CASE ResetFails
  BY <1>4, ToolboxAssumption DEF ResetFails, StartChannel, TypeOK, ProcessesTypeOK, processes
<1>5. CASE Send
  <2>1. up' \subseteq {"in", "out"} /\ rpcError' \in BOOLEAN
    BY <1>5 DEF Send, CheckReset, TypeOK
  <2>2. ProcessesTypeOK'
    BY <1>5 DEF Send, processes, process, TypeOK, ProcessesTypeOK
  <2> QED
    BY <1>5, <2>1, <2>2, ToolboxAssumption DEF Send, TypeOK
<1>6. CASE SendFails
  BY <1>6, ToolboxAssumption DEF SendFails, OpenAfterReset, TypeOK, ProcessesTypeOK, processes
<1>7. CASE ReceiveNothing
  BY <1>7, ToolboxAssumption DEF ReceiveNothing, backoff, TypeOK, ProcessesTypeOK, vmx, processes
<1>8. CASE Receive
  BY <1>8, ToolboxAssumption DEF Receive, TypeOK, ProcessesTypeOK, processes
<1>9. CASE DispatchStart
  BY <1>9, ToolboxAssumption, PidFacts
    DEF DispatchStart, Dispatching, StartFunc, StartCmd, Keep, FreeOSPids, TypeOK,
        ProcessesTypeOK, RequestOK, Pids, Ops, Programs, vmx, processes, process
<1>10. CASE DispatchStartFails
  BY <1>10, ToolboxAssumption
    DEF DispatchStartFails, Dispatching, StartFails, Respond, TypeOK, ProcessesTypeOK,
        RequestOK, Ops, vmx, processes, process
<1>11. CASE DispatchRegister
  <2> DEFINE q == request.program
  <2>1. q \in Programs
    BY <1>11 DEF DispatchRegister, RequestOK
  <2>2. /\ pid' \in [Programs -> Pids \cup {NoPid}]
        /\ lastPid' \in PidBase .. PidBase + Cardinality(Funcs)
        /\ pool' \subseteq PseudoPids
    <3>1. CASE q \in Funcs
      <4>1. PICK i \in PseudoPids : GetPid(i) /\ pid' = [pid EXCEPT ![q] = i]
        BY <1>11, <3>1 DEF DispatchRegister, Register
      <4> QED
        BY <4>1, <2>1, PidFacts DEF GetPid, TypeOK, ProcessesTypeOK, Pids
    <3>2. CASE q \notin Funcs
      BY <1>11, <3>2 DEF DispatchRegister, Register, TypeOK, ProcessesTypeOK
    <3> QED
      BY <3>1, <3>2
  <2>3. entries' \in [Pids -> Programs \cup {Nobody}]
    BY <1>11, <2>1 DEF DispatchRegister, Register, TypeOK, ProcessesTypeOK
  <2>4. /\ state' = state /\ monitor' \in [Programs -> {"none", "wait", "pipes", "note", "cancel", "expire", "put", "end"}]
        /\ ended' = ended /\ cancelled' = cancelled /\ killed' = killed
        /\ holding' = holding /\ stdin' = stdin
    BY <1>11, <2>1 DEF DispatchRegister, Register, process, TypeOK, ProcessesTypeOK
  <2>5. ProcessesTypeOK'
    BY <2>2, <2>3, <2>4 DEF TypeOK, ProcessesTypeOK
  <2> QED
    BY <1>11, <2>5, ToolboxAssumption DEF DispatchRegister, Respond, vmx, TypeOK
<1>12. CASE DispatchKill
  BY <1>12, ToolboxAssumption
    DEF DispatchKill, Dispatching, KillProcess, Respond, TypeOK, ProcessesTypeOK, RequestOK,
        Ops, Pids, vmx, processes
<1>13. CASE DispatchStat
  <2>1. ProcessesTypeOK'
    BY <1>13 DEF DispatchStat, processes, TypeOK, ProcessesTypeOK
  <2>2. CASE entries[request.pid] = Nobody
    <3>1. Respond([error |-> "not found"]) /\ UNCHANGED vmx
      BY <1>13, <2>2 DEF DispatchStat
    <3>2. delay' = 0 /\ loop' = "select" /\ UNCHANGED <<rpcError, up, stop, open, requests, faults>>
      BY <3>1 DEF Respond, vmx
    <3> QED
      BY <3>2, <2>1, ToolboxAssumption DEF TypeOK
  <2>3. CASE entries[request.pid] # Nobody
    BY <1>13, <2>1, <2>3, ToolboxAssumption DEF DispatchStat, vmx, TypeOK
  <2> QED
    BY <2>2, <2>3
<1>14. CASE StatOutput
  BY <1>14, ToolboxAssumption DEF StatOutput, Respond, TypeOK, ProcessesTypeOK, vmx, processes
<1>15. CASE StatBusy
  BY <1>15, ToolboxAssumption DEF StatBusy, Respond, TypeOK, ProcessesTypeOK, vmx, processes
<1>16. CASE DispatchOther
  BY <1>16, ToolboxAssumption
    DEF DispatchOther, Dispatching, Respond, TypeOK, ProcessesTypeOK, vmx, processes
<1>17. ASSUME NEW p \in Programs, Ends(p) PROVE TypeOK'
  BY <1>17, ToolboxAssumption
    DEF Ends, ProgramEnds, TypeOK, ProcessesTypeOK, service, vmx, processes, process
<1>18. ASSUME NEW p \in Programs, WaitReturns(p), UNCHANGED <<service, vmx>> PROVE TypeOK'
  BY <1>18, ToolboxAssumption
    DEF WaitReturns, Gone, TypeOK, ProcessesTypeOK, service, vmx, processes, process
<1>19. ASSUME NEW p \in Programs, NoteEnd(p), UNCHANGED <<service, vmx>> PROVE TypeOK'
  BY <1>19, ToolboxAssumption DEF NoteEnd, TypeOK, ProcessesTypeOK, service, vmx, processes
<1>20. ASSUME NEW p \in Programs, CancelContext(p), UNCHANGED <<service, vmx>> PROVE TypeOK'
  BY <1>20, ToolboxAssumption DEF CancelContext, TypeOK, ProcessesTypeOK, service, vmx, processes
<1>21. ASSUME NEW p \in Programs, Expire(p), UNCHANGED <<service, vmx>> PROVE TypeOK'
  BY <1>21, ToolboxAssumption DEF Expire, TypeOK, ProcessesTypeOK, service, vmx, processes, process
<1>22. ASSUME NEW p \in Programs, PutPid(p), UNCHANGED <<service, vmx>> PROVE TypeOK'
  BY <1>22, ToolboxAssumption, PidFacts
    DEF PutPid, TypeOK, ProcessesTypeOK, PidsOK, Programs, service, vmx, processes, process
<1>23. CASE UNCHANGED vars
  BY <1>23, ToolboxAssumption DEF TypeOK, ProcessesTypeOK, vars, service, vmx, processes
<1>24. CASE DispatchStdin
  BY <1>24, ToolboxAssumption
    DEF DispatchStdin, Dispatching, OpenStdin, Respond, TypeOK, ProcessesTypeOK, RequestOK, Ops, Pids, vmx, processes
<1>25. CASE DispatchWrite
  BY <1>25, ToolboxAssumption
    DEF DispatchWrite, Dispatching, Keep, TypeOK, ProcessesTypeOK, vmx, processes
<1>26. CASE WriteReturns
  BY <1>26, ToolboxAssumption
    DEF WriteReturns, Respond, TypeOK, ProcessesTypeOK, vmx, processes
<1>27. CASE WriteFails
  BY <1>27, ToolboxAssumption
    DEF WriteFails, Respond, TypeOK, ProcessesTypeOK, vmx, processes
<1>28. ASSUME NEW p \in Programs, ChildOf(p) PROVE TypeOK'
  BY <1>28, ToolboxAssumption
    DEF ChildOf, ChildEnds, TypeOK, ProcessesTypeOK, service, vmx, processes, process
<1>29. ASSUME NEW p \in Programs, WaitReaps(p), UNCHANGED <<service, vmx>> PROVE TypeOK'
  BY <1>29, ToolboxAssumption
    DEF WaitReaps, TypeOK, ProcessesTypeOK, service, vmx, processes, process
<1>30. ASSUME NEW p \in Programs, OutputEnds(p), UNCHANGED <<service, vmx>> PROVE TypeOK'
  BY <1>30, ToolboxAssumption
    DEF OutputEnds, TypeOK, ProcessesTypeOK, service, vmx, processes, process
<1> QED
  BY <1>1, <1>2, <1>3, <1>4, <1>5, <1>6, <1>7, <1>8, <1>9, <1>10, <1>11, <1>12, <1>13, <1>14,
     <1>15, <1>16, <1>17, <1>18, <1>19, <1>20, <1>21, <1>22, <1>23, <1>24, <1>25, <1>26, <1>27,
     <1>28, <1>29, <1>30
    DEF Next, Dispatch, Monitors, Monitor

(* A request that is dispatched or registered is still about a program that waits for it. *)
LEMMA RequestStep == (TypeOK /\ RequestOK) /\ [Next]_vars => RequestOK'
<1> SUFFICES ASSUME (TypeOK /\ RequestOK), [Next]_vars PROVE RequestOK'
  OBVIOUS
<1>1. CASE Start
  BY <1>1 DEF Start, TypeOK, ProcessesTypeOK, RequestOK, processes
<1>2. CASE Stop
  BY <1>2 DEF Stop, TypeOK, ProcessesTypeOK, RequestOK, processes
<1>3. CASE StopChannel
  BY <1>3 DEF StopChannel, TypeOK, ProcessesTypeOK, RequestOK, processes
<1>4. CASE ResetFails
  BY <1>4 DEF ResetFails, TypeOK, ProcessesTypeOK, RequestOK, processes
<1>5. CASE Send
  BY <1>5 DEF Send, TypeOK, ProcessesTypeOK, RequestOK, processes
<1>6. CASE SendFails
  BY <1>6 DEF SendFails, TypeOK, ProcessesTypeOK, RequestOK, processes
<1>7. CASE ReceiveNothing
  BY <1>7 DEF ReceiveNothing, TypeOK, ProcessesTypeOK, RequestOK, processes
<1>8. CASE Receive
  BY <1>8 DEF Receive, TypeOK, ProcessesTypeOK, RequestOK, Fresh, Ops, Programs, processes
<1>9. CASE DispatchStart
  BY <1>9, ProcessesAssumption
    DEF DispatchStart, Dispatching, StartFunc, StartCmd, Keep, FreeOSPids, TypeOK,
        ProcessesTypeOK, RequestOK, Ops, Programs, processes, process
<1>10. CASE DispatchStartFails
  BY <1>10
    DEF DispatchStartFails, Dispatching, StartFails, Respond, TypeOK, ProcessesTypeOK,
        RequestOK, Ops, Programs, processes, process
<1>11. CASE DispatchRegister
  BY <1>11
    DEF DispatchRegister, Register, GetPid, Respond, TypeOK, ProcessesTypeOK, RequestOK,
        processes, process
<1>12. CASE DispatchKill
  BY <1>12
    DEF DispatchKill, Dispatching, KillProcess, Respond, TypeOK, ProcessesTypeOK, RequestOK,
        processes
<1>13. CASE DispatchStat
  BY <1>13 DEF DispatchStat, Dispatching, Respond, TypeOK, ProcessesTypeOK, RequestOK, processes
<1>14. CASE StatOutput
  BY <1>14 DEF StatOutput, Respond, TypeOK, ProcessesTypeOK, RequestOK, processes
<1>15. CASE StatBusy
  BY <1>15 DEF StatBusy, Respond, TypeOK, ProcessesTypeOK, RequestOK, processes
<1>16. CASE DispatchOther
  BY <1>16 DEF DispatchOther, Dispatching, Respond, TypeOK, ProcessesTypeOK, RequestOK, processes
<1>17. ASSUME NEW p \in Programs, Ends(p) PROVE RequestOK'
  BY <1>17 DEF Ends, ProgramEnds, TypeOK, ProcessesTypeOK, RequestOK, service, processes, process
<1>18. ASSUME NEW p \in Programs, WaitReturns(p), UNCHANGED <<service, vmx>> PROVE RequestOK'
  BY <1>18 DEF WaitReturns, Gone, TypeOK, ProcessesTypeOK, RequestOK, service, processes, process
<1>19. ASSUME NEW p \in Programs, NoteEnd(p), UNCHANGED <<service, vmx>> PROVE RequestOK'
  BY <1>19 DEF NoteEnd, TypeOK, ProcessesTypeOK, RequestOK, service, processes
<1>20. ASSUME NEW p \in Programs, CancelContext(p), UNCHANGED <<service, vmx>> PROVE RequestOK'
  BY <1>20 DEF CancelContext, TypeOK, ProcessesTypeOK, RequestOK, service, processes
<1>21. ASSUME NEW p \in Programs, Expire(p), UNCHANGED <<service, vmx>> PROVE RequestOK'
  BY <1>21 DEF Expire, TypeOK, ProcessesTypeOK, RequestOK, service, processes, process
<1>22. ASSUME NEW p \in Programs, PutPid(p), UNCHANGED <<service, vmx>> PROVE RequestOK'
  BY <1>22 DEF PutPid, TypeOK, ProcessesTypeOK, RequestOK, service, processes, process
<1>23. CASE UNCHANGED vars
  BY <1>23 DEF TypeOK, ProcessesTypeOK, RequestOK, vars, service, processes
<1>24. CASE DispatchStdin
  BY <1>24
    DEF DispatchStdin, Dispatching, OpenStdin, Respond, TypeOK, ProcessesTypeOK, RequestOK, processes
<1>25. CASE DispatchWrite
  BY <1>25
    DEF DispatchWrite, Dispatching, Keep, TypeOK, ProcessesTypeOK, RequestOK, processes
<1>26. CASE WriteReturns
  BY <1>26
    DEF WriteReturns, Respond, TypeOK, ProcessesTypeOK, RequestOK, processes
<1>27. CASE WriteFails
  BY <1>27
    DEF WriteFails, Respond, TypeOK, ProcessesTypeOK, RequestOK, processes
<1>28. ASSUME NEW p \in Programs, ChildOf(p) PROVE RequestOK'
  BY <1>28
    DEF ChildOf, ChildEnds, TypeOK, ProcessesTypeOK, RequestOK, service, processes, process
<1>29. ASSUME NEW p \in Programs, WaitReaps(p), UNCHANGED <<service, vmx>> PROVE RequestOK'
  BY <1>29
    DEF WaitReaps, TypeOK, ProcessesTypeOK, RequestOK, service, processes, process
<1>30. ASSUME NEW p \in Programs, OutputEnds(p), UNCHANGED <<service, vmx>> PROVE RequestOK'
  BY <1>30
    DEF OutputEnds, TypeOK, ProcessesTypeOK, RequestOK, service, processes, process
<1> QED
  BY <1>1, <1>2, <1>3, <1>4, <1>5, <1>6, <1>7, <1>8, <1>9, <1>10, <1>11, <1>12, <1>13, <1>14,
     <1>15, <1>16, <1>17, <1>18, <1>19, <1>20, <1>21, <1>22, <1>23, <1>24, <1>25, <1>26, <1>27,
     <1>28, <1>29, <1>30
    DEF Next, Dispatch, Monitors, Monitor

(* Every step keeps pseudo pids apart. *)
LEMMA PidsStep == (TypeOK /\ RequestOK /\ PidsOK) /\ [Next]_vars => PidsOK'
<1> SUFFICES ASSUME (TypeOK /\ RequestOK /\ PidsOK), [Next]_vars PROVE PidsOK'
  OBVIOUS
<1>1. CASE DispatchStart
  BY <1>1, ProcessesAssumption
    DEF DispatchStart, Dispatching, StartFunc, StartCmd, FreeOSPids, PidsOK, Held, TypeOK,
        ProcessesTypeOK, RequestOK, Ops, Programs, processes, process
<1>2. CASE DispatchStartFails
  BY <1>2, ProcessesAssumption
    DEF DispatchStartFails, Dispatching, StartFails, PidsOK, Held, TypeOK, ProcessesTypeOK,
        RequestOK, Ops, Programs, processes, process
<1>3. CASE DispatchRegister
  <2> DEFINE q == request.program
  <2>1. q \in Programs /\ monitor[q] = "none" /\ monitor' = [monitor EXCEPT ![q] = "wait"]
    BY <1>3 DEF DispatchRegister, Register, RequestOK
  <2>2. CASE q \in Funcs
    <3>1. PICK i \in PseudoPids : GetPid(i) /\ pid' = [pid EXCEPT ![q] = i]
      BY <1>3, <2>2 DEF DispatchRegister, Register
    <3>2. \A f \in Funcs \ {q} : Held(f)' = Held(f) /\ monitor'[f] = monitor[f] /\ pid'[f] = pid[f]
      BY <2>1, <3>1 DEF Held, TypeOK, ProcessesTypeOK, Programs
    <3>3. pid'[q] = i /\ pool' \subseteq pool \ {i} /\ lastPid' \in Int /\ lastPid <= lastPid' /\ i <= lastPid'
      BY <2>1, <3>1, PidFacts DEF GetPid, TypeOK, ProcessesTypeOK, PidsOK
    <3>4. \A f \in Funcs \ {q} : Held(f) => pid[f] # i
      BY <3>1, PidFacts DEF GetPid, TypeOK, ProcessesTypeOK, PidsOK, Held
    <3>5. \A c \in Cmds : pid'[c] = pid[c] /\ monitor'[c] = monitor[c]
      BY <2>1, <2>2, <3>1, ProcessesAssumption DEF TypeOK, ProcessesTypeOK, Programs
    <3>6. \A f \in Funcs \ {q} : Held(f) => pid[f] <= lastPid'
      <4>1. ASSUME NEW f \in Funcs \ {q}, Held(f) PROVE pid[f] \in Int /\ pid[f] <= lastPid
        BY <4>1, PidFacts DEF PidsOK, Held
      <4> QED
        BY <4>1, <3>3, PidFacts DEF TypeOK, ProcessesTypeOK
    <3>7. \A j \in pool' : j <= lastPid'
      BY <3>3, PidFacts DEF PidsOK, TypeOK, ProcessesTypeOK
    <3> QED
      BY <2>2, <3>1, <3>2, <3>3, <3>4, <3>5, <3>6, <3>7 DEF PidsOK
  <2>3. CASE q \notin Funcs
    BY <1>3, <2>1, <2>3, ProcessesAssumption
      DEF DispatchRegister, Register, RequestOK, PidsOK, Held, TypeOK, ProcessesTypeOK, Programs
  <2> QED
    BY <2>2, <2>3
<1>4. CASE DispatchKill
  BY <1>4, ProcessesAssumption DEF DispatchKill, Dispatching, KillProcess, PidsOK, Held, processes
<1>5. ASSUME NEW p \in Programs, Ends(p) PROVE PidsOK'
  BY <1>5, ProcessesAssumption DEF Ends, ProgramEnds, PidsOK, Held, processes, process
<1>6. ASSUME NEW p \in Programs, WaitReturns(p) PROVE PidsOK'
  BY <1>6, ProcessesAssumption
    DEF WaitReturns, Gone, PidsOK, Held, TypeOK, ProcessesTypeOK, Programs, process
<1>7. ASSUME NEW p \in Programs, NoteEnd(p) PROVE PidsOK'
  BY <1>7, ProcessesAssumption DEF NoteEnd, PidsOK, Held, TypeOK, ProcessesTypeOK, Programs
<1>8. ASSUME NEW p \in Programs, CancelContext(p) PROVE PidsOK'
  BY <1>8, ProcessesAssumption DEF CancelContext, PidsOK, Held, TypeOK, ProcessesTypeOK, Programs
<1>9. ASSUME NEW p \in Programs, Expire(p) PROVE PidsOK'
  BY <1>9, ProcessesAssumption DEF Expire, PidsOK, Held, TypeOK, ProcessesTypeOK, Programs, process
<1>10. ASSUME NEW p \in Programs, PutPid(p) PROVE PidsOK'
  BY <1>10, ProcessesAssumption DEF PutPid, PidsOK, Held, TypeOK, ProcessesTypeOK, Programs, process
<1>11. CASE UNCHANGED processes
  BY <1>11, ProcessesAssumption DEF PidsOK, Held, processes
<1>12. CASE DispatchStdin
  BY <1>12, ProcessesAssumption
    DEF DispatchStdin, Dispatching, OpenStdin, PidsOK, Held, TypeOK, ProcessesTypeOK, Programs, processes, process
<1>13. ASSUME NEW p \in Programs, ChildOf(p) PROVE PidsOK'
  BY <1>13, ProcessesAssumption
    DEF ChildOf, ChildEnds, PidsOK, Held, TypeOK, ProcessesTypeOK, Programs, processes, process
<1>14. ASSUME NEW p \in Programs, WaitReaps(p) PROVE PidsOK'
  BY <1>14, ProcessesAssumption
    DEF WaitReaps, PidsOK, Held, TypeOK, ProcessesTypeOK, Programs, processes, process
<1>15. ASSUME NEW p \in Programs, OutputEnds(p) PROVE PidsOK'
  BY <1>15, ProcessesAssumption
    DEF OutputEnds, PidsOK, Held, TypeOK, ProcessesTypeOK, Programs, processes, process
<1> QED
  BY <1>1, <1>2, <1>3, <1>4, <1>5, <1>6, <1>7, <1>8, <1>9, <1>10, <1>11, <1>12, <1>13, <1>14, <1>15, ProcessSteps

(* Every step keeps the table and the programs in agreement. *)
LEMMA TableStep == TableInv /\ [Next]_vars => TableOK'
<1> SUFFICES ASSUME TableInv, [Next]_vars PROVE TableOK'
  OBVIOUS
<1>1. CASE DispatchStart
  BY <1>1, PidFacts
    DEF DispatchStart, Dispatching, StartFunc, StartCmd, FreeOSPids, TableInv, TableOK,
        Listed, NoStrayEntry, Registered, TypeOK, ProcessesTypeOK, RequestOK, Ops, Programs,
        processes, process
<1>2. CASE DispatchStartFails
  BY <1>2, PidFacts
    DEF DispatchStartFails, Dispatching, StartFails, TableInv, TableOK, Listed, NoStrayEntry,
        Registered, TypeOK, ProcessesTypeOK, RequestOK, Ops, Programs, processes, process
<1>3. CASE DispatchRegister
  <2>0. PICK q : q = request.program
    OBVIOUS
  <2> DEFINE i == pid'[q]
  <2>1. /\ q \in Programs /\ monitor[q] = "none" /\ monitor' = [monitor EXCEPT ![q] = "wait"]
        /\ entries' = [entries EXCEPT ![i] = q]
    BY <1>3, <2>0 DEF DispatchRegister, Register, TableInv, RequestOK
  <2>2. /\ i \in Pids
        /\ \A p \in Programs \ {q} : pid'[p] = pid[p]
        /\ \A p \in Programs \ {q} : Registered(p) /\ pid[p] = i => p \in Cmds /\ q \in Cmds
    <3>1. CASE q \in Funcs
      <4>1. PICK j \in PseudoPids : GetPid(j) /\ pid' = [pid EXCEPT ![q] = j]
        BY <1>3, <2>0, <3>1 DEF DispatchRegister, Register
      <4>2. i = j /\ \A p \in Programs \ {q} : pid'[p] = pid[p]
        BY <2>1, <4>1 DEF TableInv, TypeOK, ProcessesTypeOK
      <4>3. \A f \in Funcs : Held(f) => pid[f] # j
        BY <4>1, PidFacts DEF GetPid, TableInv, TypeOK, ProcessesTypeOK, PidsOK, Held
      <4>4. \A c \in Cmds : Registered(c) => pid[c] # j
        BY PidFacts DEF TableInv, PidsOK, Registered
      <4> QED
        BY <4>2, <4>3, <4>4 DEF Registered, Held, Programs, Pids
    <3>2. CASE q \notin Funcs
      <4>1. pid' = pid /\ i \in OSPids /\ q \in Cmds
        BY <1>3, <2>0, <2>1, <3>2 DEF DispatchRegister, Register, TableInv, RequestOK, Programs
      <4>2. \A f \in Funcs : Registered(f) => pid[f] # i
        BY <4>1, PidFacts DEF TableInv, PidsOK, Registered
      <4> QED
        BY <4>1, <4>2 DEF Programs, Pids
    <3> QED
      BY <3>1, <3>2
  <2>3. Registered(q)' /\ \A p \in Programs \ {q} : Registered(p)' = Registered(p) /\ monitor'[p] = monitor[p]
    BY <2>1 DEF Registered, TableInv, TypeOK, ProcessesTypeOK
  <2>4. /\ entries'[i] = q
        /\ \A j \in Pids \ {i} : entries'[j] = entries[j]
    BY <2>1, <2>2 DEF TableInv, TypeOK, ProcessesTypeOK
  <2>5. ASSUME NEW p \in Programs, Registered(p)'
        PROVE  \/ entries'[pid'[p]] = p
               \/ p \in Cmds /\ \E c \in Cmds \ {p} : monitor'[c] # "none" /\ pid'[c] = pid'[p]
    <3>1. CASE p = q
      BY <3>1, <2>4
    <3>2. CASE p # q /\ pid[p] = i
      BY <3>2, <2>1, <2>2, <2>3, <2>5 DEF Registered
    <3>3. CASE p # q /\ pid[p] # i
      <4>1. Registered(p) /\ pid'[p] = pid[p]
        BY <3>3, <2>2, <2>3, <2>5
      <4>2. pid[p] \in Pids
        BY <4>1 DEF Registered, TableInv, PidsOK, Pids, Programs
      <4>3. CASE entries[pid[p]] = p
        BY <4>1, <4>2, <4>3, <3>3, <2>4
      <4>4. CASE p \in Cmds /\ \E c \in Cmds \ {p} : monitor[c] # "none" /\ pid[c] = pid[p]
        <5>1. PICK c \in Cmds \ {p} : monitor[c] # "none" /\ pid[c] = pid[p]
          BY <4>4
        <5>2. c \in Programs \ {q}
          BY <5>1, <2>1 DEF Programs
        <5> QED
          BY <4>1, <4>4, <5>1, <5>2, <2>2, <2>3
      <4> QED
        BY <4>1, <4>3, <4>4 DEF TableInv, TableOK, Listed
    <3> QED
      BY <3>1, <3>2, <3>3
  <2>6. ASSUME NEW j \in Pids, entries'[j] # Nobody
        PROVE  Registered(entries[j])' /\ pid'[entries'[j]] = j
    <3>1. CASE j = i
      BY <3>1, <2>3, <2>4
    <3>2. CASE j # i
      BY <3>2, <2>1, <2>2, <2>3, <2>4, <2>6 DEF Registered, TableInv, TableOK, NoStrayEntry, TypeOK, ProcessesTypeOK
    <3> QED
      BY <3>1, <3>2
  <2> QED
    BY <2>5, <2>6 DEF TableOK, Listed, NoStrayEntry
<1>4. CASE DispatchKill
  BY <1>4, PidFacts
    DEF DispatchKill, Dispatching, KillProcess, TableInv, TableOK, Listed, NoStrayEntry,
        Registered, processes
<1>5. ASSUME NEW p \in Programs, Ends(p) PROVE TableOK'
  BY <1>5, PidFacts
    DEF Ends, ProgramEnds, TableInv, TableOK, Listed, NoStrayEntry, Registered, processes,
        process
<1>6. ASSUME NEW p \in Programs, WaitReturns(p) PROVE TableOK'
  BY <1>6, PidFacts
    DEF WaitReturns, Gone, TableInv, TableOK, Listed, NoStrayEntry, Registered, TypeOK,
        ProcessesTypeOK, Programs, process
<1>7. ASSUME NEW p \in Programs, NoteEnd(p) PROVE TableOK'
  BY <1>7, PidFacts
    DEF NoteEnd, TableInv, TableOK, Listed, NoStrayEntry, Registered, TypeOK, ProcessesTypeOK,
        Programs
<1>8. ASSUME NEW p \in Programs, CancelContext(p) PROVE TableOK'
  BY <1>8, PidFacts
    DEF CancelContext, TableInv, TableOK, Listed, NoStrayEntry, Registered, TypeOK,
        ProcessesTypeOK, Programs
<1>9. ASSUME NEW p \in Programs, Expire(p) PROVE TableOK'
  <2>1. pid[p] \in Pids /\ Registered(p) /\ ~Registered(p)' /\ monitor'[p] # "none"
    BY <1>9 DEF Expire, Registered, TableInv, TypeOK, ProcessesTypeOK, PidsOK, Pids, Programs
  <2>2. \A q \in Programs \ {p} : Registered(q)' = Registered(q) /\ monitor'[q] = monitor[q]
    BY <1>9 DEF Expire, Registered, TableInv, TypeOK, ProcessesTypeOK
  <2>3. /\ pid' = pid /\ entries'[pid[p]] = Nobody
        /\ \A j \in Pids \ {pid[p]} : entries'[j] = entries[j]
    BY <1>9, <2>1 DEF Expire, TableInv, TypeOK, ProcessesTypeOK
  <2>4. ASSUME NEW q \in Programs, Registered(q)'
        PROVE  \/ entries'[pid'[q]] = q
               \/ q \in Cmds /\ \E c \in Cmds \ {q} : monitor'[c] # "none" /\ pid'[c] = pid'[q]
    <3>1. q # p /\ Registered(q)
      BY <2>1, <2>2, <2>4
    <3>2. CASE pid[q] = pid[p]
      <4>1. ~(p \in Funcs /\ q \in Funcs)
        BY <3>1, <3>2, <2>1 DEF TableInv, PidsOK, Held, Registered
      <4>2. p \in Funcs => pid[p] \in PseudoPids
        BY <2>1 DEF TableInv, PidsOK, Registered
      <4>3. q \in Funcs => pid[q] \in PseudoPids
        BY <3>1 DEF TableInv, PidsOK, Registered
      <4>4. (p \in Cmds => pid[p] \in OSPids) /\ (q \in Cmds => pid[q] \in OSPids)
        BY <2>1, <3>1 DEF TableInv, PidsOK, Registered
      <4>5. p \in Cmds /\ q \in Cmds
        BY <4>1, <4>2, <4>3, <4>4, <3>2, PidFacts DEF Programs
      <4> QED
        BY <4>5, <3>1, <3>2, <2>1, <2>3
    <3>3. CASE pid[q] # pid[p]
      <4>1. pid[q] \in Pids
        BY <3>1 DEF Registered, TableInv, PidsOK, Pids, Programs
      <4>2. CASE entries[pid[q]] = q
        BY <4>1, <4>2, <3>3, <2>3
      <4>3. CASE q \in Cmds /\ \E c \in Cmds \ {q} : monitor[c] # "none" /\ pid[c] = pid[q]
        BY <4>3, <3>3, <2>1, <2>2, <2>3 DEF Programs
      <4> QED
        BY <3>1, <4>2, <4>3 DEF TableInv, TableOK, Listed
    <3> QED
      BY <3>2, <3>3
  <2>5. ASSUME NEW j \in Pids, entries'[j] # Nobody
        PROVE  Registered(entries[j])' /\ pid'[entries'[j]] = j
    <3>1. j # pid[p] /\ entries'[j] = entries[j]
      BY <2>3, <2>5
    <3>2. entries[j] \in Programs /\ Registered(entries[j]) /\ pid[entries[j]] = j
      BY <3>1, <2>5 DEF TableInv, TableOK, NoStrayEntry, TypeOK, ProcessesTypeOK
    <3> QED
      BY <3>1, <3>2, <2>2, <2>3 DEF Registered
  <2> QED
    BY <2>4, <2>5 DEF TableOK, Listed, NoStrayEntry
<1>10. ASSUME NEW p \in Programs, PutPid(p) PROVE TableOK'
  BY <1>10, PidFacts
    DEF PutPid, TableInv, TableOK, Listed, NoStrayEntry, Registered, TypeOK, ProcessesTypeOK,
        Programs, process
<1>11. CASE UNCHANGED processes
  BY <1>11, PidFacts DEF TableInv, TableOK, Listed, NoStrayEntry, Registered, processes
<1>12. CASE DispatchStdin
  BY <1>12, PidFacts
    DEF DispatchStdin, Dispatching, OpenStdin, TableInv, TableOK, Listed, NoStrayEntry, Registered, TypeOK, ProcessesTypeOK, Programs, process
<1>13. ASSUME NEW p \in Programs, ChildOf(p) PROVE TableOK'
  BY <1>13, PidFacts
    DEF ChildOf, ChildEnds, TableInv, TableOK, Listed, NoStrayEntry, Registered, TypeOK, ProcessesTypeOK, Programs, process
<1>14. ASSUME NEW p \in Programs, WaitReaps(p) PROVE TableOK'
  BY <1>14, PidFacts
    DEF WaitReaps, TableInv, TableOK, Listed, NoStrayEntry, Registered, TypeOK, ProcessesTypeOK, Programs, process
<1>15. ASSUME NEW p \in Programs, OutputEnds(p) PROVE TableOK'
  BY <1>15, PidFacts
    DEF OutputEnds, TableInv, TableOK, Listed, NoStrayEntry, Registered, TypeOK, ProcessesTypeOK, Programs, process
<1> QED
  BY <1>1, <1>2, <1>3, <1>4, <1>5, <1>6, <1>7, <1>8, <1>9, <1>10, <1>11, <1>12, <1>13, <1>14, <1>15, ProcessSteps

(* Every step that ends an error, or leaves Start, has both channels up. *)
LEMMA ChannelsStep == (TypeOK /\ ResponseOK /\ ChannelsUp) /\ [Next]_vars => ChannelsUp'
<1> SUFFICES ASSUME (TypeOK /\ ResponseOK /\ ChannelsUp), [Next]_vars PROVE ChannelsUp'
  OBVIOUS
<1>1. CASE Start
  BY <1>1 DEF Start, StartChannel, TypeOK, ResponseOK, ChannelsUp
<1>2. CASE Stop
  BY <1>2 DEF Stop, TypeOK, ResponseOK, ChannelsUp, vmx
<1>3. CASE StopChannel
  BY <1>3 DEF StopChannel, TypeOK, ResponseOK, ChannelsUp
<1>4. CASE ResetFails
  BY <1>4 DEF ResetFails, StartChannel, TypeOK, ResponseOK, ChannelsUp
<1>5. CASE Send
  BY <1>5 DEF Send, CheckReset, TypeOK, ResponseOK, ChannelsUp
<1>6. CASE SendFails
  BY <1>6 DEF SendFails, OpenAfterReset, TypeOK, ResponseOK, ChannelsUp
<1>7. CASE ReceiveNothing
  BY <1>7 DEF ReceiveNothing, backoff, TypeOK, ResponseOK, ChannelsUp, vmx
<1>8. CASE Receive
  BY <1>8 DEF Receive, TypeOK, ResponseOK, ChannelsUp
<1>9. CASE DispatchStart
  BY <1>9 DEF DispatchStart, Dispatching, Keep, TypeOK, ResponseOK, ChannelsUp, vmx
<1>10. CASE DispatchStartFails
  BY <1>10 DEF DispatchStartFails, Dispatching, Respond, TypeOK, ResponseOK, ChannelsUp, vmx
<1>11. CASE DispatchRegister
  BY <1>11 DEF DispatchRegister, Respond, TypeOK, ResponseOK, ChannelsUp, vmx
<1>12. CASE DispatchKill
  BY <1>12 DEF DispatchKill, Dispatching, Respond, TypeOK, ResponseOK, ChannelsUp, vmx
<1>13. CASE DispatchStat
  BY <1>13 DEF DispatchStat, Dispatching, Respond, TypeOK, ResponseOK, ChannelsUp, vmx
<1>14. CASE StatOutput
  BY <1>14 DEF StatOutput, Respond, TypeOK, ResponseOK, ChannelsUp, vmx
<1>15. CASE StatBusy
  BY <1>15 DEF StatBusy, Respond, TypeOK, ResponseOK, ChannelsUp, vmx
<1>16. CASE DispatchOther
  BY <1>16 DEF DispatchOther, Dispatching, Respond, TypeOK, ResponseOK, ChannelsUp, vmx
<1>17. CASE UNCHANGED <<service, vmx>>
  BY <1>17 DEF TypeOK, ResponseOK, ChannelsUp, service, vmx
<1>18. CASE DispatchStdin
  BY <1>18
    DEF DispatchStdin, Dispatching, Respond, TypeOK, ResponseOK, ChannelsUp, vmx
<1>19. CASE DispatchWrite
  BY <1>19
    DEF DispatchWrite, Dispatching, Keep, TypeOK, ResponseOK, ChannelsUp, vmx
<1>20. CASE WriteReturns
  BY <1>20
    DEF WriteReturns, Respond, TypeOK, ResponseOK, ChannelsUp, vmx
<1>21. CASE WriteFails
  BY <1>21
    DEF WriteFails, Respond, TypeOK, ResponseOK, ChannelsUp, vmx
<1> QED
  BY <1>1, <1>2, <1>3, <1>4, <1>5, <1>6, <1>7, <1>8, <1>9, <1>10, <1>11, <1>12, <1>13, <1>14,
     <1>15, <1>16, <1>17, <1>18, <1>19, <1>20, <1>21, ServiceSteps

(* Every step keeps the order of end, note and cancel. *)
LEMMA EndsStep == (TypeOK /\ EndsOK) /\ [Next]_vars => EndsOK'
<1> SUFFICES ASSUME (TypeOK /\ EndsOK), [Next]_vars PROVE EndsOK'
  OBVIOUS
<1>1. CASE DispatchStart
  BY <1>1
    DEF DispatchStart, Dispatching, StartFunc, StartCmd, FreeOSPids, TypeOK, ProcessesTypeOK,
        EndsOK, processes, process
<1>2. CASE DispatchStartFails
  BY <1>2
    DEF DispatchStartFails, Dispatching, StartFails, TypeOK, ProcessesTypeOK, EndsOK,
        processes, process
<1>3. CASE DispatchRegister
  BY <1>3
    DEF DispatchRegister, Register, GetPid, TypeOK, ProcessesTypeOK, EndsOK, RequestOK,
        processes, process
<1>4. CASE DispatchKill
  BY <1>4 DEF DispatchKill, Dispatching, KillProcess, TypeOK, ProcessesTypeOK, EndsOK, processes
<1>5. ASSUME NEW p \in Programs, Ends(p) PROVE EndsOK'
  BY <1>5 DEF Ends, ProgramEnds, TypeOK, ProcessesTypeOK, EndsOK, processes, process
<1>6. ASSUME NEW p \in Programs, WaitReturns(p) PROVE EndsOK'
  BY <1>6 DEF WaitReturns, Gone, TypeOK, ProcessesTypeOK, EndsOK, process
<1>7. ASSUME NEW p \in Programs, NoteEnd(p) PROVE EndsOK'
  BY <1>7 DEF NoteEnd, TypeOK, ProcessesTypeOK, EndsOK
<1>8. ASSUME NEW p \in Programs, CancelContext(p) PROVE EndsOK'
  BY <1>8 DEF CancelContext, TypeOK, ProcessesTypeOK, EndsOK
<1>9. ASSUME NEW p \in Programs, Expire(p) PROVE EndsOK'
  BY <1>9 DEF Expire, TypeOK, ProcessesTypeOK, EndsOK, process
<1>10. ASSUME NEW p \in Programs, PutPid(p) PROVE EndsOK'
  BY <1>10 DEF PutPid, TypeOK, ProcessesTypeOK, EndsOK, process
<1>11. CASE UNCHANGED processes
  BY <1>11 DEF TypeOK, ProcessesTypeOK, EndsOK, processes
<1>12. CASE DispatchStdin
  BY <1>12
    DEF DispatchStdin, Dispatching, OpenStdin, TypeOK, ProcessesTypeOK, EndsOK, process
<1>13. ASSUME NEW p \in Programs, ChildOf(p) PROVE EndsOK'
  BY <1>13
    DEF ChildOf, ChildEnds, TypeOK, ProcessesTypeOK, EndsOK, process
<1>14. ASSUME NEW p \in Programs, WaitReaps(p) PROVE EndsOK'
  BY <1>14
    DEF WaitReaps, TypeOK, ProcessesTypeOK, EndsOK, process
<1>15. ASSUME NEW p \in Programs, OutputEnds(p) PROVE EndsOK'
  BY <1>15
    DEF OutputEnds, TypeOK, ProcessesTypeOK, EndsOK, process
<1> QED
  BY <1>1, <1>2, <1>3, <1>4, <1>5, <1>6, <1>7, <1>8, <1>9, <1>10, <1>11, <1>12, <1>13, <1>14, <1>15, ProcessSteps

(* Output that is sent stays complete, and new output is. *)
LEMMA OutputStep == (EndsOK /\ OutputComplete) /\ [Next]_vars => OutputComplete'
<1> SUFFICES ASSUME (EndsOK /\ OutputComplete), [Next]_vars PROVE OutputComplete'
  OBVIOUS
<1>1. CASE Start
  BY <1>1 DEF Start, OutputComplete, processes
<1>2. CASE Stop
  BY <1>2 DEF Stop, OutputComplete, processes
<1>3. CASE StopChannel
  BY <1>3 DEF StopChannel, OutputComplete, processes
<1>4. CASE ResetFails
  BY <1>4 DEF ResetFails, OutputComplete, processes
<1>5. CASE Send
  BY <1>5 DEF Send, OutputComplete, None, processes
<1>6. CASE SendFails
  BY <1>6 DEF SendFails, OutputComplete, None, processes
<1>7. CASE ReceiveNothing
  BY <1>7 DEF ReceiveNothing, OutputComplete, processes
<1>8. CASE Receive
  BY <1>8 DEF Receive, OutputComplete, processes
<1>9. CASE DispatchStart
  BY <1>9 DEF DispatchStart, StartFunc, StartCmd, Keep, OutputComplete, processes, process
<1>10. CASE DispatchStartFails
  BY <1>10 DEF DispatchStartFails, StartFails, Respond, OutputComplete, processes, process
<1>11. CASE DispatchRegister
  BY <1>11 DEF DispatchRegister, Register, Respond, OutputComplete, processes, process
<1>12. CASE DispatchKill
  BY <1>12 DEF DispatchKill, KillProcess, Respond, OutputComplete, processes
<1>13. CASE DispatchStat
  <2>1. CASE entries[request.pid] = Nobody
    <3>1. Respond([error |-> "not found"]) /\ UNCHANGED <<vmx, processes>>
      BY <1>13, <2>1 DEF DispatchStat
    <3> QED
      BY <1>13, <3>1 DEF DispatchStat, Dispatching, Respond, vmx, processes, OutputComplete
  <2>2. CASE entries[request.pid] # Nobody
    BY <1>13, <2>2 DEF DispatchStat, Dispatching, vmx, processes, OutputComplete
  <2> QED
    BY <2>1, <2>2
<1>14. CASE StatOutput
  BY <1>14 DEF StatOutput, Respond, OutputComplete, EndsOK, processes
<1>15. CASE StatBusy
  BY <1>15 DEF StatBusy, Respond, OutputComplete, processes
<1>16. CASE DispatchOther
  BY <1>16 DEF DispatchOther, Respond, OutputComplete, processes
<1>17. ASSUME NEW p \in Programs, Ends(p) PROVE OutputComplete'
  BY <1>17 DEF Ends, ProgramEnds, OutputComplete, service, processes, process
<1>18. ASSUME NEW p \in Programs, WaitReturns(p), UNCHANGED <<service, vmx>> PROVE OutputComplete'
  BY <1>18 DEF WaitReturns, Gone, OutputComplete, service, processes, process
<1>19. ASSUME NEW p \in Programs, NoteEnd(p), UNCHANGED <<service, vmx>> PROVE OutputComplete'
  BY <1>19 DEF NoteEnd, OutputComplete, service, processes
<1>20. ASSUME NEW p \in Programs, CancelContext(p), UNCHANGED <<service, vmx>> PROVE OutputComplete'
  BY <1>20 DEF CancelContext, OutputComplete, service, processes
<1>21. ASSUME NEW p \in Programs, Expire(p), UNCHANGED <<service, vmx>> PROVE OutputComplete'
  BY <1>21 DEF Expire, OutputComplete, service, processes, process
<1>22. ASSUME NEW p \in Programs, PutPid(p), UNCHANGED <<service, vmx>> PROVE OutputComplete'
  BY <1>22 DEF PutPid, OutputComplete, service, processes, process
<1>23. CASE UNCHANGED vars
  BY <1>23 DEF OutputComplete, vars, service, processes
<1>24. CASE DispatchStdin
  BY <1>24
    DEF DispatchStdin, Dispatching, OpenStdin, Respond, OutputComplete, processes
<1>25. CASE DispatchWrite
  BY <1>25
    DEF DispatchWrite, Dispatching, Keep, OutputComplete, processes
<1>26. CASE WriteReturns
  BY <1>26
    DEF WriteReturns, Respond, OutputComplete, processes
<1>27. CASE WriteFails
  BY <1>27
    DEF WriteFails, Respond, OutputComplete, processes
<1>28. ASSUME NEW p \in Programs, ChildOf(p) PROVE OutputComplete'
  BY <1>28
    DEF ChildOf, ChildEnds, OutputComplete, service, processes, process
<1>29. ASSUME NEW p \in Programs, WaitReaps(p), UNCHANGED <<service, vmx>> PROVE OutputComplete'
  BY <1>29
    DEF WaitReaps, OutputComplete, service, processes, process
<1>30. ASSUME NEW p \in Programs, OutputEnds(p), UNCHANGED <<service, vmx>> PROVE OutputComplete'
  BY <1>30
    DEF OutputEnds, OutputComplete, service, processes, process
<1> QED
  BY <1>1, <1>2, <1>3, <1>4, <1>5, <1>6, <1>7, <1>8, <1>9, <1>10, <1>11, <1>12, <1>13, <1>14,
     <1>15, <1>16, <1>17, <1>18, <1>19, <1>20, <1>21, <1>22, <1>23, <1>24, <1>25, <1>26, <1>27,
     <1>28, <1>29, <1>30
    DEF Next, Dispatch, Monitors, Monitor

(* Every step keeps the response that of the open request. *)
LEMMA ResponseStep == (TypeOK /\ ResponseOK) /\ [Next]_vars => ResponseOK'
<1> SUFFICES ASSUME (TypeOK /\ ResponseOK), [Next]_vars PROVE ResponseOK'
  OBVIOUS
<1>1. CASE Start
  BY <1>1 DEF Start, StartChannel, TypeOK, ResponseOK, OpenAfterReset
<1>2. CASE Stop
  BY <1>2 DEF Stop, TypeOK, ResponseOK, OpenAfterReset, vmx
<1>3. CASE StopChannel
  BY <1>3 DEF StopChannel, TypeOK, ResponseOK, OpenAfterReset
<1>4. CASE ResetFails
  BY <1>4 DEF ResetFails, StartChannel, TypeOK, ResponseOK, OpenAfterReset
<1>5. CASE Send
  BY <1>5 DEF Send, CheckReset, TypeOK, ResponseOK, OpenAfterReset, None
<1>6. CASE SendFails
  BY <1>6 DEF SendFails, OpenAfterReset, TypeOK, ResponseOK, None
<1>7. CASE ReceiveNothing
  BY <1>7 DEF ReceiveNothing, backoff, TypeOK, ResponseOK, OpenAfterReset, vmx
<1>8. CASE Receive
  BY <1>8 DEF Receive, TypeOK, ResponseOK, OpenAfterReset
<1>9. CASE DispatchStart
  BY <1>9 DEF DispatchStart, Dispatching, Keep, TypeOK, ResponseOK, OpenAfterReset, vmx
<1>10. CASE DispatchStartFails
  BY <1>10 DEF DispatchStartFails, Dispatching, Respond, TypeOK, ResponseOK, OpenAfterReset, vmx
<1>11. CASE DispatchRegister
  BY <1>11 DEF DispatchRegister, Respond, TypeOK, ResponseOK, OpenAfterReset, vmx
<1>12. CASE DispatchKill
  BY <1>12 DEF DispatchKill, Dispatching, Respond, TypeOK, ResponseOK, OpenAfterReset, vmx
<1>13. CASE DispatchStat
  <2>1. CASE entries[request.pid] = Nobody
    <3>1. Respond([error |-> "not found"]) /\ UNCHANGED <<vmx, processes>>
      BY <1>13, <2>1 DEF DispatchStat
    <3> QED
      BY <1>13, <3>1 DEF DispatchStat, Dispatching, Respond, vmx, processes, TypeOK, ResponseOK, OpenAfterReset
  <2>2. CASE entries[request.pid] # Nobody
    BY <1>13, <2>2 DEF DispatchStat, Dispatching, vmx, processes, TypeOK, ResponseOK, OpenAfterReset
  <2> QED
    BY <2>1, <2>2
<1>14. CASE StatOutput
  BY <1>14 DEF StatOutput, Respond, TypeOK, ResponseOK, OpenAfterReset, vmx
<1>15. CASE StatBusy
  BY <1>15 DEF StatBusy, Respond, TypeOK, ResponseOK, OpenAfterReset, vmx
<1>16. CASE DispatchOther
  BY <1>16 DEF DispatchOther, Dispatching, Respond, TypeOK, ResponseOK, OpenAfterReset, vmx
<1>17. CASE UNCHANGED <<service, vmx>>
  BY <1>17 DEF TypeOK, ResponseOK, OpenAfterReset, service, vmx
<1>18. CASE DispatchStdin
  BY <1>18
    DEF DispatchStdin, Dispatching, Respond, TypeOK, ResponseOK, OpenAfterReset, vmx
<1>19. CASE DispatchWrite
  BY <1>19
    DEF DispatchWrite, Dispatching, Keep, TypeOK, ResponseOK, OpenAfterReset, vmx
<1>20. CASE WriteReturns
  BY <1>20
    DEF WriteReturns, Respond, TypeOK, ResponseOK, OpenAfterReset, vmx
<1>21. CASE WriteFails
  BY <1>21
    DEF WriteFails, Respond, TypeOK, ResponseOK, OpenAfterReset, vmx
<1> QED
  BY <1>1, <1>2, <1>3, <1>4, <1>5, <1>6, <1>7, <1>8, <1>9, <1>10, <1>11, <1>12, <1>13, <1>14,
     <1>15, <1>16, <1>17, <1>18, <1>19, <1>20, <1>21, ServiceSteps

(* The initial state has every part of the invariants. *)
LEMMA InitInv == Init => TableInv /\ EndsOK /\ OutputComplete /\ ResponseOK /\ ChannelsUp
<1> SUFFICES ASSUME Init PROVE TableInv /\ EndsOK /\ OutputComplete /\ ResponseOK /\ ChannelsUp
  OBVIOUS
<1>1. TypeOK
  <2>1. ProcessesTypeOK
    BY PidFacts DEF Init, NewManager, ProcessesTypeOK
  <2>2. rpcError \in BOOLEAN /\ stop \in BOOLEAN /\ up \subseteq {"in", "out"}
    BY DEF Init
  <2>3. delay \in 0 .. MaxDelay /\ open \in 0 .. requests /\ requests \in 0 .. MaxRequests /\ faults \in 0 .. MaxFaults
    BY ToolboxAssumption DEF Init
  <2>4. loop \in {"new", "failed", "select", "receive", "dispatch", "register", "stat", "write", "done"}
    BY DEF Init
  <2> QED
    BY <2>1, <2>2, <2>3, <2>4 DEF TypeOK
<1>2. RequestOK /\ PidsOK /\ TableOK
  BY DEF Init, NewManager, RequestOK, PidsOK, Held, TableOK, Listed, NoStrayEntry, Registered, Programs
<1>3. EndsOK /\ OutputComplete /\ ResponseOK /\ ChannelsUp
  BY DEF Init, NewManager, None, EndsOK, OutputComplete, ResponseOK, OpenAfterReset, ChannelsUp
<1> QED
  BY <1>1, <1>2, <1>3 DEF TableInv

(* process.Manager: for any programs and pids, the table has every program   *)
(* that was started under the pid its client was told, until it expires, but *)
(* for OS pids that the operating system gave to a later command, and        *)
(* nothing else; a pseudo pid is never that of two functions.                *)
THEOREM TableIsExact == Spec => []TableOK
<1>1. Init => TableInv
  BY InitInv
<1>2. TableInv /\ [Next]_vars => TableInv'
  BY TypeStep, RequestStep, PidsStep, TableStep DEF TableInv
<1>3. TableInv => TableOK
  BY DEF TableInv
<1> QED
  BY <1>1, <1>2, <1>3, PTL DEF Spec

(* Service.Start: the delay, the channels and the counters keep their types, *)
(* and both channels are up whenever the loop polls without an error.        *)
THEOREM ChannelsAreUp == Spec => []ToolboxOK
<1> DEFINE Inv == TableInv /\ ResponseOK /\ ChannelsUp
<1>1. Init => Inv
  BY InitInv
<1>2. Inv /\ [Next]_vars => Inv'
  BY TypeStep, RequestStep, PidsStep, TableStep, ResponseStep, ChannelsStep DEF TableInv
<1>3. Inv => ToolboxOK
  BY DEF TableInv, ToolboxOK
<1> QED
  BY <1>1, <1>2, <1>3, PTL DEF Spec

(* Manager.Stat: the output that is sent is that of a program whose end has  *)
(* been noted, or that a client has killed.                                  *)
THEOREM OutputIsComplete == Spec => []OutputComplete
<1> DEFINE Inv == TableInv /\ EndsOK /\ OutputComplete
<1>1. Init => Inv
  BY InitInv
<1>2. Inv /\ [Next]_vars => Inv'
  BY TypeStep, RequestStep, PidsStep, TableStep, EndsStep, OutputStep DEF TableInv
<1>3. Inv => OutputComplete
  OBVIOUS
<1> QED
  BY <1>1, <1>2, <1>3, PTL DEF Spec

(* Service.Start: whatever fails, a message that is sent answers the request *)
(* that is open at the VMX.                                                  *)
THEOREM AnswersTheOpenRequest == Spec => Answers
<1> DEFINE Inv == TableInv /\ ResponseOK
<1>1. Init => Inv
  BY InitInv
<1>2. Inv /\ [Next]_vars => Inv'
  BY TypeStep, RequestStep, PidsStep, TableStep, ResponseStep DEF TableInv
<1>3. Inv => (loop = "select" /\ loop' = "receive" => response.id = OpenAfterReset)
  BY DEF ResponseOK
<1> QED
  BY <1>1, <1>2, <1>3, PTL DEF Spec, Answers
=============================================================================
