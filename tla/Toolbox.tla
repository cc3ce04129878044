------------------------------ MODULE Toolbox -------------------------------
(***************************************************************************)
(* The guest toolbox: Service polls the VMX for requests over the channel  *)
(* in, and hands them to their handlers one at a time; those that start,   *)
(* kill and look at programs use the process manager (GuestProcesses).     *)
(*                                                                         *)
(* The VMX numbers its requests here and has at most one open at a time;   *)
(* what the toolbox sends next is the answer to it. When the channel is    *)
(* stopped the VMX gives the open request up.                              *)
(***************************************************************************)
EXTENDS GuestProcesses

CONSTANTS
    MaxDelay,     \* the longest pause between polls, without errors
    ResetDelay,   \* the pause after an error of a channel
    MaxRequests,  \* bound: requests of the VMX
    MaxFaults     \* bound: errors of the channels

ASSUME ToolboxAssumption ==
    /\ MaxDelay \in Nat \ {0} /\ ResetDelay \in Nat /\ MaxDelay <= ResetDelay
    /\ MaxRequests \in Nat /\ MaxFaults \in Nat

None == [id |-> 0]

VARIABLES
    loop,        \* place of the goroutine of Service.Start
    delay,       \* Service.delay
    rpcError,    \* Service.rpcError
    up,          \* the channels, "in" and "out", that are started
    stop,        \* Service.stop is closed
    request,     \* the request that is being handled
    response,    \* the response to send at the next poll
    open,        \* the VMX's open request: its number, or 0
    requests,    \* number of requests so far
    faults       \* number of errors so far

service == <<loop, delay, rpcError, up, stop, request, response>>
vmx == <<open, requests, faults>>
vars == <<service, vmx, processes>>

Ops ==
    [op : {"start", "write"}, program : Programs]
        \cup [op : {"kill", "stat", "stdin"}, pid : Pids] \cup [op : {"other"}]

(* The type of every variable. *)
TypeOK ==
    /\ ProcessesTypeOK
    /\ loop \in {"new", "failed", "select", "receive", "dispatch", "register", "stat", "write", "done"}
    /\ delay \in 0 .. MaxDelay \cup {ResetDelay}
    /\ rpcError \in BOOLEAN /\ stop \in BOOLEAN
    /\ up \subseteq {"in", "out"}
    /\ open \in 0 .. requests /\ requests \in 0 .. MaxRequests /\ faults \in 0 .. MaxFaults

Init ==
    /\ NewManager
    /\ loop = "new" /\ delay = 0 /\ rpcError = FALSE /\ up = {} /\ stop = FALSE
    /\ request = None /\ response = None
    /\ open = 0 /\ requests = 0 /\ faults = 0

-----------------------------------------------------------------------------
(* The channels *)

(* startChannel: started is what is up afterwards, and ok whether both are. *)
StartChannel(started, ok) ==
    \/ started = {"in", "out"} /\ ok /\ UNCHANGED faults
    \/ started \in {{}, {"in"}} /\ ~ok /\ faults < MaxFaults /\ faults' = faults + 1

(* Service.Start *)
Start ==
    /\ loop = "new"
    /\ \E started \in SUBSET {"in", "out"}, ok \in BOOLEAN :
          /\ StartChannel(started, ok)
          /\ up' = started
          /\ loop' = IF ok THEN "select" ELSE "failed"
    /\ UNCHANGED <<delay, rpcError, stop, request, response, open, requests, processes>>

(* Service.Stop *)
Stop ==
    /\ loop \notin {"new", "failed"} /\ ~stop
    /\ stop' = TRUE
    /\ UNCHANGED <<loop, delay, rpcError, up, request, response, vmx, processes>>

(* The case <-s.stop of the loop. *)
StopChannel ==
    /\ loop = "select" /\ stop
    /\ up' = {} /\ open' = 0
    /\ loop' = "done"
    /\ UNCHANGED <<delay, rpcError, stop, request, response, requests, faults, processes>>

(* Mutant: the error is forgotten although the channels are not up. *)
ResetFailsForgetting ==
    /\ loop = "select" /\ rpcError
    /\ \E started \in {{}, {"in"}} : StartChannel(started, FALSE) /\ up' = started
    /\ open' = 0
    /\ delay' = ResetDelay
    /\ rpcError' = FALSE
    /\ UNCHANGED <<loop, stop, request, response, requests, processes>>

(* checkReset, when it can not start the channels again. *)
ResetFails ==
    /\ loop = "select" /\ rpcError
    /\ \E started \in {{}, {"in"}} : StartChannel(started, FALSE) /\ up' = started
    /\ open' = 0
    /\ delay' = ResetDelay
    /\ UNCHANGED <<loop, rpcError, stop, request, response, requests, processes>>

(* Mutant: the error is not taken back. *)
CheckResetForever ==
    /\ UNCHANGED rpcError
    /\ up' = IF rpcError THEN {"in", "out"} ELSE up

(* checkReset, when it starts the channels again, or has nothing to do. *)
CheckReset ==
    /\ rpcError' = FALSE
    /\ up' = IF rpcError THEN {"in", "out"} ELSE up

(* The VMX gives up the open request when the channel is stopped. *)
OpenAfterReset == IF rpcError THEN 0 ELSE open

(* in.Send(response): the VMX gets the message, *)
Send ==
    /\ loop = "select"
    /\ CheckReset
    /\ open' = 0
    /\ response' = None
    /\ loop' = "receive"
    /\ UNCHANGED <<delay, stop, request, requests, faults, processes>>

(* Mutant: the response is kept for the next poll. *)
SendFailsKeeping ==
    /\ loop = "select" /\ faults < MaxFaults
    /\ up' = IF rpcError THEN {"in", "out"} ELSE up
    /\ open' = OpenAfterReset
    /\ delay' = ResetDelay
    /\ rpcError' = TRUE
    /\ faults' = faults + 1
    /\ UNCHANGED <<loop, stop, request, response, requests, processes>>

(* or the channel fails. *)
SendFails ==
    /\ loop = "select" /\ faults < MaxFaults
    /\ up' = IF rpcError THEN {"in", "out"} ELSE up
    /\ open' = OpenAfterReset
    /\ response' = None
    /\ delay' = ResetDelay
    /\ rpcError' = TRUE
    /\ faults' = faults + 1
    /\ UNCHANGED <<loop, stop, request, requests, processes>>

-----------------------------------------------------------------------------
(* Requests *)

(* Service.backoff *)
backoff ==
    IF delay >= MaxDelay THEN delay
    ELSE IF delay = 0 THEN 1
    ELSE IF 2 * delay < MaxDelay THEN 2 * delay ELSE MaxDelay

(* in.Receive has nothing, or fails, which the loop does not tell apart. *)
ReceiveNothing ==
    /\ loop = "receive"
    /\ delay' = backoff
    /\ loop' = "select"
    /\ UNCHANGED <<rpcError, up, stop, request, response, vmx, processes>>

(* Programs are alike: a request starts the next one that is new. *)
Fresh(S) ==
    LET new == {p \in S : state[p] = "new"}
    IN  IF new = {} THEN {} ELSE {CHOOSE p \in new : TRUE}

Receive ==
    /\ loop = "receive" /\ requests < MaxRequests
    /\ \E r \in Ops :
          /\ r.op = "start" =>
                r.program \in Fresh(Funcs) \cup Fresh(Cmds \ Forking) \cup Fresh(Forking)
          /\ r.op = "write" => r.program \in stdin
          /\ request' = r
    /\ requests' = requests + 1
    /\ open' = requests'
    /\ loop' = "dispatch"
    /\ UNCHANGED <<delay, rpcError, up, stop, response, faults, processes>>

(* The end of Dispatch and of the loop's body. *)
Respond(body) ==
    /\ response' = [id |-> open, body |-> body]
    /\ request' = None
    /\ delay' = 0
    /\ loop' = "select"
    /\ UNCHANGED <<rpcError, up, stop>>

Dispatching(op) == loop = "dispatch" /\ request.op = op

Keep == UNCHANGED <<delay, rpcError, up, stop, request, response>>

(* StartCommand: Process.Start, *)
DispatchStart ==
    /\ Dispatching("start")
    /\ StartFunc(request.program) \/ StartCmd(request.program)
    /\ loop' = "register"
    /\ Keep /\ UNCHANGED vmx

DispatchStartFails ==
    /\ Dispatching("start")
    /\ StartFails(request.program)
    /\ Respond([error |-> "start"])
    /\ UNCHANGED vmx

(* then the rest of Manager.Start. *)
DispatchRegister ==
    /\ loop = "register"
    /\ Register(request.program)
    /\ Respond([pid |-> pid'[request.program]])
    /\ UNCHANGED vmx

DispatchKill ==
    /\ Dispatching("kill")
    /\ KillProcess(request.pid)
    /\ Respond([found |-> entries[request.pid] # Nobody])
    /\ UNCHANGED vmx

(* Manager.Stat of a program's output: it looks the program up, *)
DispatchStat ==
    /\ Dispatching("stat")
    /\ IF entries[request.pid] = Nobody
          THEN Respond([error |-> "not found"])
          ELSE /\ loop' = "stat"
               /\ request' = [op |-> "stat", program |-> entries[request.pid]]
               /\ UNCHANGED <<delay, rpcError, up, stop, response>>
    /\ UNCHANGED <<vmx, processes>>

(* waits for its context, *)
StatOutput ==
    /\ loop = "stat" /\ request.program \in cancelled
    /\ Respond([output |-> request.program])
    /\ UNCHANGED <<vmx, processes>>

(* Mutant: Stat waits as long as it takes. *)
StatNeverBusy == FALSE /\ UNCHANGED vars

(* but not for more than a second. *)
StatBusy ==
    /\ loop = "stat"
    /\ Respond([error |-> "busy"])
    /\ UNCHANGED <<vmx, processes>>

(* The stdin of a program is opened at once, without a look at its context. *)
DispatchStdin ==
    /\ Dispatching("stdin")
    /\ OpenStdin(request.pid)
    /\ Respond([opened |-> entries[request.pid] # Nobody])
    /\ UNCHANGED vmx

(* WriteV3 to the stdin that a client has open runs in the loop, as every handler, *)
DispatchWrite ==
    /\ Dispatching("write")
    /\ loop' = "write"
    /\ Keep /\ UNCHANGED <<vmx, processes>>

(* and returns when the program has read, or a command's pipe has room, *)
WriteReturns ==
    /\ loop = "write" /\ ~Gone(request.program)
    /\ Respond([wrote |-> TRUE])
    /\ UNCHANGED <<vmx, processes>>

(* or when there is nobody left to read. *)
WriteFails ==
    /\ loop = "write" /\ Gone(request.program)
    /\ Respond([error |-> "closed"])
    /\ UNCHANGED <<vmx, processes>>

(* Handlers that change nothing here, and requests nobody handles. *)
DispatchOther ==
    /\ Dispatching("other")
    /\ Respond([other |-> TRUE])
    /\ UNCHANGED <<vmx, processes>>

Dispatch ==
    \/ DispatchStart \/ DispatchStartFails \/ DispatchRegister \/ DispatchKill
    \/ DispatchStat \/ StatOutput \/ StatBusy
    \/ DispatchStdin \/ DispatchWrite \/ WriteFails \/ DispatchOther

Ends(p) == ProgramEnds(p) /\ UNCHANGED <<service, vmx>>
ChildOf(c) == ChildEnds(c) /\ UNCHANGED <<service, vmx>>
Monitors(p) == Monitor(p) /\ UNCHANGED <<service, vmx>>

Next ==
    \/ Start \/ Stop \/ StopChannel
    \/ ResetFails \/ Send \/ SendFails \/ ReceiveNothing \/ Receive \/ Dispatch
    \/ WriteReturns
    \/ \E p \in Programs : Ends(p) \/ ChildOf(p) \/ Monitors(p)

(* The loop goes on but for a write that its program does not read: no     *)
(* program has to. Its select is random, so a closed stop is not passed    *)
(* over forever. Monitors go on, and a shell that is killed ends; nothing  *)
(* ends a function, or the child of a shell.                               *)
Fairness ==
    /\ WF_vars(ResetFails \/ Send \/ SendFails \/ ReceiveNothing \/ Receive \/ Dispatch)
    /\ SF_vars(StopChannel)
    /\ \A p \in Programs : WF_vars(Monitors(p))
    /\ \A c \in Cmds : WF_vars(c \in cancelled /\ Ends(c))

Spec == Init /\ [][Next]_vars /\ Fairness

-----------------------------------------------------------------------------
(* What the toolbox sends is the answer to the request that is open at the *)
(* VMX, and nothing when none is: a response that could not be sent is     *)
(* dropped with its request, not sent later as the answer to another.      *)
Answers == [][loop = "select" /\ loop' = "receive" => response.id = OpenAfterReset]_vars

(* Both channels are up whenever the loop polls without an error, which    *)
(* takes every path of checkReset and both steps of startChannel.          *)
ChannelsUp ==
    loop \notin {"new", "failed", "done"} /\ ~rpcError => up = {"in", "out"}

(* The delay stays within its bounds, and the channels that are up are      *)
(* those the loop relies on.                                                *)
ToolboxOK == TypeOK /\ ChannelsUp

(* The output of a program is sent once the program has ended, its output  *)
(* is complete and its exit code can be listed; a client that has killed   *)
(* the program may get less.                                               *)
OutputComplete ==
    "body" \in DOMAIN response /\ "output" \in DOMAIN response.body =>
        response.body.output \in ended \cup killed

(* An error of the channels, as long as there are not ever new ones, ends  *)
(* with both of them up again, or with the service stopped.                *)
Recovers == []<>(~rpcError \/ loop = "done")

(* The loop is in a write, and somebody is there who could read. *)
WriteBlocks == loop = "write" /\ ~Gone(request.program)

(* Stop, which is not taken back, ends the loop and stops the channels,    *)
(* whatever is being handled, but for a write to a program that lives and  *)
(* never reads: then the handler blocks, and with it the loop, for good.   *)
StopEnds == <>[]WriteBlocks \/ []<>(stop => loop = "done" /\ up = {})

(* A command that a client kills ends, and its monitor with it, once no    *)
(* child of its shell has the pipes: only the shell is killed, and Wait    *)
(* stays until the output has ended.                                       *)
KillEnds == []<>(\A c \in Cmds : c \in killed /\ c \notin holding => monitor[c] = "end")
=============================================================================
