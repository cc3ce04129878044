--------------------------- MODULE GuestProcesses ---------------------------
(***************************************************************************)
(* process.Manager of the guest toolbox: the table of the programs that    *)
(* clients have started in the guest.                                      *)
(*                                                                         *)
(* A program is a command of the operating system, which has an OS pid, or *)
(* a Go function, which gets a pseudo pid above PidBase from a sync.Pool.  *)
(* A command is a shell, and its pid that of the shell; the shell may fork *)
(* a child that has the same pipes for input and output and outlives it.   *)
(* Programs are started WithIO, as those without a path are.               *)
(* A goroutine per program, its monitor, waits for the end of the program, *)
(* notes it, cancels the program's context, and takes it out of the table  *)
(* 5 minutes later. This module has the operations and the monitors; who   *)
(* calls the operations is in Toolbox.                                     *)
(***************************************************************************)
EXTENDS Integers, FiniteSets

CONSTANTS
    Funcs,    \* programs that are Go functions
    Cmds,     \* programs that are commands
    Forking,  \* the commands whose shell forks a child
    OSPids,   \* the pids of the operating system
    PidBase   \* where the pseudo pids start: 32768

(* NewManager takes for granted that OS pids are not above PidBase; it has *)
(* a TODO for the real pid_max.                                            *)
ASSUME ProcessesAssumption ==
    /\ IsFiniteSet(Funcs) /\ IsFiniteSet(Cmds) /\ Funcs \cap Cmds = {}
    /\ Forking \subseteq Cmds /\ "nobody" \notin Funcs \cup Cmds
    /\ PidBase \in Nat /\ OSPids \subseteq 1 .. PidBase

Programs == Funcs \cup Cmds
PseudoPids == PidBase + 1 .. PidBase + Cardinality(Funcs)
Pids == OSPids \cup PseudoPids

Nobody == "nobody"
NoPid == 0

VARIABLES
    state,      \* of a program: "new", "failed", "running", "ended", "reaped"
    monitor,    \* place of its monitor
    pid,        \* Process.Pid
    ended,      \* the programs whose EndTime is set
    cancelled,  \* the programs whose context is cancelled
    killed,     \* those that a client has killed
    holding,    \* the commands with a child that holds their pipes
    stdin,      \* the programs whose stdin a client has open
    entries,    \* Manager.entries
    lastPid,    \* the counter behind Manager.pids
    pool        \* the pseudo pids in Manager.pids

processes == <<state, monitor, pid, ended, cancelled, killed, holding, stdin, entries, lastPid, pool>>
process == <<ended, cancelled, killed, holding, stdin>>

ProcessesTypeOK ==
    /\ state \in [Programs -> {"new", "failed", "running", "ended", "reaped"}]
    /\ monitor \in [Programs -> {"none", "wait", "pipes", "note", "cancel", "expire", "put", "end"}]
    /\ pid \in [Programs -> Pids \cup {NoPid}]
    /\ ended \subseteq Programs /\ cancelled \subseteq Programs /\ killed \subseteq Programs
    /\ holding \subseteq Forking /\ stdin \subseteq Programs
    /\ entries \in [Pids -> Programs \cup {Nobody}]
    /\ lastPid \in PidBase .. PidBase + Cardinality(Funcs)
    /\ pool \subseteq PseudoPids

NewManager ==
    /\ state = [p \in Programs |-> "new"]
    /\ monitor = [p \in Programs |-> "none"]
    /\ pid = [p \in Programs |-> NoPid]
    /\ ended = {} /\ cancelled = {} /\ killed = {} /\ holding = {} /\ stdin = {}
    /\ entries = [i \in Pids |-> Nobody]
    /\ lastPid = PidBase
    /\ pool = {}

-----------------------------------------------------------------------------
(* Process.Start, which may fail. The operating system does not reuse the  *)
(* pid of a shell before somebody has waited for it.                       *)

FreeOSPids == OSPids \ {pid[c] : c \in {d \in Cmds : state[d] \in {"running", "ended"}}}

StartFunc(f) ==
    /\ f \in Funcs
    /\ state' = [state EXCEPT ![f] = "running"]
    /\ UNCHANGED <<monitor, pid, process, entries, lastPid, pool>>

StartCmd(c) ==
    /\ c \in Cmds
    /\ \E i \in FreeOSPids : pid' = [pid EXCEPT ![c] = i]
    /\ state' = [state EXCEPT ![c] = "running"]
    /\ holding' = holding \cup ({c} \cap Forking)
    /\ UNCHANGED <<monitor, ended, cancelled, killed, stdin, entries, lastPid, pool>>

StartFails(c) ==
    /\ c \in Cmds
    /\ state' = [state EXCEPT ![c] = "failed"]
    /\ UNCHANGED <<monitor, pid, process, entries, lastPid, pool>>

(* The pool returns any of its pids, or a new one even if it has some. *)
GetPid(i) ==
    \/ i \in pool /\ pool' = pool \ {i} /\ UNCHANGED lastPid
    \/ i = lastPid + 1 /\ lastPid' = i /\ UNCHANGED pool

(* The rest of Manager.Start. *)
Register(p) ==
    /\ IF p \in Funcs
          THEN \E i \in PseudoPids : GetPid(i) /\ pid' = [pid EXCEPT ![p] = i]
          ELSE UNCHANGED <<pid, lastPid, pool>>
    /\ entries' = [entries EXCEPT ![pid'[p]] = p]
    /\ monitor' = [monitor EXCEPT ![p] = "wait"]
    /\ UNCHANGED <<state, process>>

(* Mutant: the client's kill is noted, but the context is not cancelled. *)
KillUnheard(i) ==
    /\ killed' = killed \cup ({entries[i]} \ {Nobody})
    /\ UNCHANGED <<state, monitor, pid, ended, cancelled, holding, stdin, entries, lastPid, pool>>

(* Manager.Kill: cancels the context of the program, if there is one. *)
KillProcess(i) ==
    /\ LET victims == {entries[i]} \ {Nobody}
       IN  cancelled' = cancelled \cup victims /\ killed' = killed \cup victims
    /\ UNCHANGED <<state, monitor, pid, ended, holding, stdin, entries, lastPid, pool>>

(* Manager.Open of the stdin of a program that is in the table. *)
OpenStdin(i) ==
    /\ stdin' = stdin \cup ({entries[i]} \ {Nobody})
    /\ UNCHANGED <<state, monitor, pid, ended, cancelled, killed, holding, entries, lastPid, pool>>

(* Mutant: the context is cancelled before the end of the program is noted. *)
WaitReturnsCancelled(p) ==
    /\ monitor[p] = "wait" /\ state[p] = "ended" /\ p \notin holding
    /\ state' = [state EXCEPT ![p] = "reaped"]
    /\ cancelled' = cancelled \cup {p}
    /\ monitor' = [monitor EXCEPT ![p] = "note"]
    /\ UNCHANGED <<pid, ended, killed, holding, stdin, entries, lastPid, pool>>

-----------------------------------------------------------------------------
(* Programs end by themselves. The shell of a command whose context is     *)
(* cancelled is killed; a function may look at its context or not.         *)
ProgramEnds(p) ==
    /\ state[p] = "running"
    /\ state' = [state EXCEPT ![p] = "ended"]
    /\ UNCHANGED <<monitor, pid, process, entries, lastPid, pool>>

(* A child ends by itself, whatever becomes of its shell. *)
ChildEnds(c) ==
    /\ c \in holding
    /\ holding' = holding \ {c}
    /\ UNCHANGED <<state, monitor, pid, ended, cancelled, killed, stdin, entries, lastPid, pool>>

(* Nobody is left to read what is written to the program's stdin. *)
Gone(p) == state[p] \in {"ended", "reaped"} /\ p \notin holding

(* Process.Wait returns with the end of the program, *)
WaitReturns(p) ==
    /\ monitor[p] = "wait" /\ Gone(p)
    /\ state' = [state EXCEPT ![p] = "reaped"]
    /\ monitor' = [monitor EXCEPT ![p] = "note"]
    /\ UNCHANGED <<pid, process, entries, lastPid, pool>>

(* or reaps the shell, which frees its pid, and waits for the end of the output. *)
WaitReaps(c) ==
    /\ monitor[c] = "wait" /\ state[c] = "ended" /\ c \in holding
    /\ state' = [state EXCEPT ![c] = "reaped"]
    /\ monitor' = [monitor EXCEPT ![c] = "pipes"]
    /\ UNCHANGED <<pid, process, entries, lastPid, pool>>

OutputEnds(c) ==
    /\ monitor[c] = "pipes" /\ c \notin holding
    /\ monitor' = [monitor EXCEPT ![c] = "note"]
    /\ UNCHANGED <<state, pid, process, entries, lastPid, pool>>

(* Mutant: the pid can be reused as soon as the program has ended. *)
CancelAndPut(p) ==
    /\ monitor[p] = "cancel"
    /\ cancelled' = cancelled \cup {p}
    /\ pool' = pool \cup ({pid[p]} \cap PseudoPids)
    /\ monitor' = [monitor EXCEPT ![p] = "expire"]
    /\ UNCHANGED <<state, pid, ended, killed, holding, stdin, entries, lastPid>>

NoteEnd(p) ==
    /\ monitor[p] = "note"
    /\ ended' = ended \cup {p}
    /\ monitor' = [monitor EXCEPT ![p] = "cancel"]
    /\ UNCHANGED <<state, pid, cancelled, killed, holding, stdin, entries, lastPid, pool>>

CancelContext(p) ==
    /\ monitor[p] = "cancel"
    /\ cancelled' = cancelled \cup {p}
    /\ monitor' = [monitor EXCEPT ![p] = "expire"]
    /\ UNCHANGED <<state, pid, ended, killed, holding, stdin, entries, lastPid, pool>>

(* After 5 minutes, whatever the table has under the pid by now. *)
Expire(p) ==
    /\ monitor[p] = "expire"
    /\ entries' = [entries EXCEPT ![pid[p]] = Nobody]
    /\ monitor' = [monitor EXCEPT ![p] = IF p \in Funcs THEN "put" ELSE "end"]
    /\ UNCHANGED <<state, pid, process, lastPid, pool>>

PutPid(p) ==
    /\ monitor[p] = "put"
    /\ pool' = pool \cup {pid[p]}
    /\ monitor' = [monitor EXCEPT ![p] = "end"]
    /\ UNCHANGED <<state, pid, process, entries, lastPid>>

Monitor(p) ==
    \/ WaitReturns(p) \/ WaitReaps(p) \/ OutputEnds(p)
    \/ NoteEnd(p) \/ CancelContext(p) \/ Expire(p) \/ PutPid(p)

-----------------------------------------------------------------------------
Registered(p) == monitor[p] \in {"wait", "pipes", "note", "cancel", "expire"}

(* A program is in the table, under the pid its client was told, from      *)
(* Start until 5 minutes after its end, as Manager.Start says. The pid of  *)
(* a command may be given to a later command in that time, which then      *)
(* takes its place, and whose entry it removes; pseudo pids never clash.   *)
Listed ==
    \A p \in Programs : Registered(p) =>
        \/ entries[pid[p]] = p
        \/ p \in Cmds /\ \E c \in Cmds \ {p} : monitor[c] # "none" /\ pid[c] = pid[p]

(* The table has no program that has expired or was never registered, and  *)
(* no program under a pid of another.                                      *)
NoStrayEntry ==
    \A i \in Pids : entries[i] # Nobody => Registered(entries[i]) /\ pid[entries[i]] = i

(* The table of processes and the programs agree, in both directions. *)
TableOK == Listed /\ NoStrayEntry
=============================================================================
