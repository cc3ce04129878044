------------------------------ MODULE Transfer ------------------------------
(***************************************************************************)
(* What a client waits for with a progress logger: the files of an NFC     *)
(* lease that it imports or exports, or a task.                            *)
(*                                                                         *)
(* The goroutines are                                                      *)
(*   main       Importer.Import, the export command, or task.WaitEx        *)
(*   transport  reads the file of an upload for the HTTP client            *)
(*   tee        passes the reports of a progress.reader on to its sink     *)
(*   logger     a ProgressLogger, or                                       *)
(*   item       LeaseUpdater.waitForProgress, when the item is the sink    *)
(*   updater    LeaseUpdater.run, which renews the lease                   *)
(* Channels are not buffered: sender and receiver take one step together.  *)
(* The bps loop, the other sink of the tee, receives at any time.          *)
(*                                                                         *)
(* A file has Chunks chunks; a report is the chunks read and whether it    *)
(* has an error. Percentages are computed in float32 and positions are     *)
(* truncated: a position computed from one may be off by Skew either way,  *)
(* and it is 0 when the reader does not know the size of the file.         *)
(***************************************************************************)
EXTENDS Integers, FiniteSets

CONSTANTS
    Items,      \* number of files of the lease
    Chunks,     \* their size
    Skew,       \* how much a position can be off
    Kinds,      \* what main does: "import", "export", "task"
    Sinks,      \* what reports go to: "logger", "item"
    MayCancel   \* the context may be cancelled

Files == 1 .. Items

ASSUME TransferAssumption ==
    /\ Items \in Nat \ {0} /\ Chunks \in Nat \ {0} /\ Skew \in Nat
    /\ Kinds \subseteq {"import", "export", "task"} /\ Sinks \subseteq {"logger", "item"}
    /\ MayCancel \in BOOLEAN

VARIABLES
    kind, sink,  \* what main does, and with which sink
    cancelled,   \* its context is cancelled
    crashed,     \* a report was sent on a closed channel
    mpc, cur,    \* place of main, and the file it is at
    outcome,     \* of a file: "none", "ok", "failed"
    tr,          \* the transport: "none", "read", "send", "eof", "end", "broken"
    read,        \* reader.pos
    closed,      \* the files whose reader.ch, or taskCallback.ch, is closed
    late,        \* the files whose transport was at work when main was done with them
    lost,        \* the wait for the task has failed, and not the task
    tee,         \* where a tee is, and the report it holds
    logger,      \* where a logger is, the error it has got, and what it has logged
    item,        \* whether a waitForProgress runs, and its pos
    pos,         \* LeaseUpdater.pos
    stop,        \* LeaseUpdater.done is closed
    updater,     \* place of LeaseUpdater.run
    lease        \* HttpNfcLease on the server: "ready" or "gone"

main == <<mpc, cur, outcome, late, lost>>
reader == <<tr, read, closed>>
sinks == <<tee, logger, item, pos>>
vars == <<kind, sink, cancelled, crashed, main, reader, sinks, stop, updater, lease>>
setup == <<kind, sink>>

Report(p, e) == [pos |-> p, err |-> e]
Tee(at, r) == [at |-> at, r |-> r]
NoReport == Report(0, FALSE)
Logger(at) == [at |-> at, err |-> FALSE, said |-> "nothing"]
Total == Items * Chunks
Active(f) == tr[f] \in {"read", "send", "eof"}

Init ==
    /\ kind \in Kinds /\ sink \in Sinks /\ (kind = "task" => sink = "logger")
    /\ cancelled = FALSE /\ crashed = FALSE
    /\ mpc = "start" /\ cur = 1 /\ outcome = [f \in Files |-> "none"]
    /\ late = {} /\ lost = FALSE
    /\ tr = [f \in Files |-> "none"] /\ read = [f \in Files |-> 0] /\ closed = {}
    /\ tee = [f \in Files |-> Tee("none", NoReport)]
    /\ logger = [f \in Files |-> Logger("none")]
    /\ item = [f \in Files |-> [on |-> FALSE, pos |-> 0]]
    /\ pos = 0 /\ stop = FALSE /\ updater = "none" /\ lease = "ready"

-----------------------------------------------------------------------------
(* Faulty variants. *)

(* The channel is not closed when there is nothing to report. *)
CloseOnError ==
    /\ mpc = "close"
    /\ closed' = IF outcome[cur] = "failed" THEN closed \cup {cur} ELSE closed
    /\ mpc' = IF sink = "logger" THEN "logged" ELSE "next"
    /\ UNCHANGED <<setup, cancelled, crashed, cur, outcome, late, lost, tr, read, sinks, stop,
                   updater, lease>>

(* Done closes the channel without a last report. *)
DoneSilently ==
    /\ mpc = "done" /\ tee[cur].at = "recv"
    /\ mpc' = "close"
    /\ UNCHANGED <<setup, cancelled, crashed, cur, outcome, late, lost, reader, sinks, stop, updater,
                   lease>>

(* The whole size is added at the end, whatever has been added before. *)
ItemClosedTwice(f) ==
    /\ item[f].on /\ sink = "item" /\ tee[f].at = "end"
    /\ pos' = pos + Chunks
    /\ item' = [item EXCEPT ![f] = [on |-> FALSE, pos |-> Chunks]]
    /\ UNCHANGED <<setup, cancelled, crashed, main, reader, tee, logger, stop, updater, lease>>

(* Done does not wait for the update loop. *)
ReturnAtOnce ==
    /\ mpc = "wait"
    /\ mpc' = "returned"
    /\ UNCHANGED <<setup, cancelled, crashed, cur, outcome, late, lost, reader, sinks, stop, updater,
                   lease>>

(* A download ends while its file is still read. *)
DoEarly ==
    /\ mpc = "do"
    /\ outcome' = [outcome EXCEPT ![cur] = IF tr[cur] = "end" THEN "ok" ELSE "failed"]
    /\ late' = IF Active(cur) THEN late \cup {cur} ELSE late
    /\ mpc' = "done"
    /\ UNCHANGED <<setup, cancelled, crashed, cur, lost, reader, sinks, stop, updater, lease>>

-----------------------------------------------------------------------------
(* StartUpdater, or a logger for a task. *)
Start ==
    /\ mpc = "start"
    /\ IF kind = "task"
       THEN /\ logger' = [logger EXCEPT ![cur] = Logger("A")]
            /\ mpc' = "create"
            /\ UNCHANGED <<item, updater>>
       ELSE /\ item' = [f \in Files |-> [on |-> TRUE, pos |-> 0]]
            /\ updater' = "tick"
            /\ mpc' = "open"
            /\ UNCHANGED logger
    /\ UNCHANGED <<setup, cancelled, crashed, cur, outcome, late, lost, reader, tee, pos, stop, lease>>

(* WaitForResult creates a collector, then WaitEx takes the channel of the logger. *)
WaitForResult ==
    /\ mpc = "create"
    /\ \/ mpc' = "task" /\ logger' = [logger EXCEPT ![cur].at = "B"] /\ UNCHANGED outcome
       \/ mpc' = "logged" /\ outcome' = [outcome EXCEPT ![cur] = "failed"] /\ UNCHANGED logger
    /\ UNCHANGED <<setup, cancelled, crashed, cur, late, lost, reader, tee, item, pos, stop, updater,
                   lease>>

(* taskCallback.fn: reports on the way have no error and may be dropped, the last one *)
(* is not, ...                                                                        *)
TaskEnd ==
    /\ mpc = "task" /\ logger[cur].at = "B"
    /\ \E o \in {"ok", "failed"} :
        /\ outcome' = [outcome EXCEPT ![cur] = o]
        /\ logger' = [logger EXCEPT ![cur].err = (o = "failed")]
    /\ mpc' = "close"
    /\ UNCHANGED <<setup, cancelled, crashed, cur, late, lost, reader, tee, item, pos, stop, updater,
                   lease>>

(* ... and when the wait fails, or is cancelled, there is no last one. *)
TaskLost ==
    /\ mpc = "task"
    /\ outcome' = [outcome EXCEPT ![cur] = "failed"] /\ lost' = TRUE
    /\ mpc' = "close"
    /\ UNCHANGED <<setup, cancelled, crashed, cur, late, reader, sinks, stop, updater, lease>>

-----------------------------------------------------------------------------
(* The file, or the response to a download, is opened ... *)
Open ==
    /\ mpc = "open"
    /\ mpc' = "sink"
    /\ logger' = IF sink = "logger" THEN [logger EXCEPT ![cur] = Logger("A")] ELSE logger
    /\ UNCHANGED <<setup, cancelled, crashed, cur, outcome, late, lost, reader, tee, item, pos, stop,
                   updater, lease>>

(* ... or not: an import has no logger yet, an export has one. *)
OpenFails ==
    /\ mpc = "open"
    /\ outcome' = [outcome EXCEPT ![cur] = "failed"]
    /\ IF kind = "export" /\ sink = "logger"
       THEN mpc' = "logged" /\ logger' = [logger EXCEPT ![cur] = Logger("A")]
       ELSE mpc' = "next" /\ UNCHANGED logger
    /\ UNCHANGED <<setup, cancelled, crashed, cur, late, lost, reader, tee, item, pos, stop, updater,
                   lease>>

(* progress.NewReader: the tee takes the channel of the sink. *)
NewReader ==
    /\ mpc = "sink"
    /\ logger' = IF sink = "logger" THEN [logger EXCEPT ![cur].at = "B"] ELSE logger
    /\ tee' = [tee EXCEPT ![cur] = Tee("recv", NoReport)]
    /\ tr' = [tr EXCEPT ![cur] = "read"]
    /\ mpc' = "do"
    /\ UNCHANGED <<setup, cancelled, crashed, cur, outcome, late, lost, read, closed, item, pos, stop,
                   updater, lease>>

(* reader.Read: a chunk, the end of the file, or an error, which is not reported. *)
ReadChunk(f) ==
    /\ tr[f] = "read"
    /\ \/ read[f] < Chunks /\ read' = [read EXCEPT ![f] = @ + 1] /\ tr' = [tr EXCEPT ![f] = "send"]
       \/ read[f] = Chunks /\ tr' = [tr EXCEPT ![f] = "eof"] /\ UNCHANGED read
       \/ tr' = [tr EXCEPT ![f] = "broken"] /\ UNCHANGED read
    /\ UNCHANGED <<setup, cancelled, crashed, main, closed, sinks, stop, updater, lease>>

AfterRead(f) == tr' = [tr EXCEPT ![f] = IF @ = "eof" THEN "end" ELSE "read"]

(* The report goes to the tee, or nowhere once the context is cancelled. *)
SendReport(f) ==
    /\ tr[f] \in {"send", "eof"}
    /\ \/ /\ f \notin closed /\ tee[f].at = "recv"
          /\ tee' = [tee EXCEPT ![f] = Tee("d1", Report(read[f], FALSE))]
       \/ cancelled /\ UNCHANGED tee
    /\ AfterRead(f)
    /\ UNCHANGED <<setup, cancelled, crashed, main, read, closed, logger, item, pos, stop, updater,
                   lease>>

SendOnClosed(f) ==
    /\ tr[f] \in {"send", "eof"} /\ f \in closed
    /\ crashed' = TRUE
    /\ UNCHANGED <<setup, cancelled, main, reader, sinks, stop, updater, lease>>

(* The transport gives up a body whose request is over. *)
TransportStops(f) ==
    /\ tr[f] = "read" /\ (cancelled \/ f # cur \/ mpc # "do")
    /\ tr' = [tr EXCEPT ![f] = "broken"]
    /\ UNCHANGED <<setup, cancelled, crashed, main, read, closed, sinks, stop, updater, lease>>

(* Client.Do, or the io.Copy of a download, ends. The answer to an upload may *)
(* come while the transport still reads.                                      *)
Do ==
    /\ mpc = "do"
    /\ \/ tr[cur] = "end" /\ outcome' = [outcome EXCEPT ![cur] = "ok"]
       \/ (kind = "import" \/ ~Active(cur)) /\ outcome' = [outcome EXCEPT ![cur] = "failed"]
    /\ late' = IF Active(cur) THEN late \cup {cur} ELSE late
    /\ mpc' = "done"
    /\ UNCHANGED <<setup, cancelled, crashed, cur, lost, reader, sinks, stop, updater, lease>>

(* reader.Done: a last report, after which the channel is closed, ... *)
Done ==
    /\ mpc = "done" /\ tee[cur].at = "recv"
    /\ tee' = [tee EXCEPT ![cur] = Tee("d1", Report(read[cur], outcome[cur] = "failed"))]
    /\ mpc' = "close"
    /\ UNCHANGED <<setup, cancelled, crashed, cur, outcome, late, lost, reader, logger, item, pos, stop,
                   updater, lease>>

Close ==
    /\ mpc = "close"
    /\ closed' = closed \cup {cur}
    /\ mpc' = IF sink = "logger" THEN "logged" ELSE "next"
    /\ UNCHANGED <<setup, cancelled, crashed, cur, outcome, late, lost, tr, read, sinks, stop, updater,
                   lease>>

(* ... or, once the context is cancelled, neither. *)
DoneCancelled ==
    /\ mpc = "done" /\ cancelled
    /\ mpc' = IF sink = "logger" THEN "logged" ELSE "next"
    /\ UNCHANGED <<setup, cancelled, crashed, cur, outcome, late, lost, reader, sinks, stop, updater,
                   lease>>

(* ProgressLogger.Wait *)
LoggerWait ==
    /\ mpc = "logged" /\ logger[cur].at = "end"
    /\ mpc' = IF kind = "task" THEN "returned" ELSE "next"
    /\ UNCHANGED <<setup, cancelled, crashed, cur, outcome, late, lost, reader, sinks, stop, updater,
                   lease>>

(* The next file, the end of the lease, or, for an import, its abort; a request *)
(* with a cancelled context is not sent.                                        *)
NextFile ==
    /\ mpc = "next"
    /\ IF outcome[cur] = "ok" /\ cur < Items
       THEN cur' = cur + 1 /\ mpc' = "open" /\ UNCHANGED lease
       ELSE /\ mpc' = "stop"
            /\ lease' = IF cancelled \/ (kind = "export" /\ outcome[cur] = "failed") THEN lease ELSE "gone"
            /\ UNCHANGED cur
    /\ UNCHANGED <<setup, cancelled, crashed, outcome, late, lost, reader, sinks, stop, updater>>

(* LeaseUpdater.Done *)
StopUpdater ==
    /\ mpc = "stop"
    /\ stop' = TRUE
    /\ mpc' = "wait"
    /\ UNCHANGED <<setup, cancelled, crashed, cur, outcome, late, lost, reader, sinks, updater, lease>>

Return ==
    /\ mpc = "wait" /\ updater = "end"
    /\ mpc' = "returned"
    /\ UNCHANGED <<setup, cancelled, crashed, cur, outcome, late, lost, reader, sinks, stop, updater,
                   lease>>

CancelContext ==
    /\ MayCancel /\ ~cancelled /\ mpc # "returned"
    /\ cancelled' = TRUE
    /\ UNCHANGED <<setup, crashed, main, reader, sinks, stop, updater, lease>>

-----------------------------------------------------------------------------
(* Where a report of p chunks may put waitForProgress, which computes from the *)
(* percentage: truncated below p, rounded above it, or 0 for an unknown size.  *)
Positions(p) == {0} \cup {x \in 0 .. p + Skew : p - Skew <= x}

(* tee: to the logger, or to waitForProgress, which leaves at an error, ... *)
TeeFirst(f) ==
    /\ tee[f].at = "d1"
    /\ tee' = [tee EXCEPT ![f].at = "d2"]
    /\ \/ /\ sink = "logger" /\ logger[f].at = "B"
          /\ logger' = [logger EXCEPT ![f].err = tee[f].r.err]
          /\ UNCHANGED <<item, pos>>
       \/ /\ sink = "item" /\ item[f].on
          /\ IF tee[f].r.err
             THEN item' = [item EXCEPT ![f].on = FALSE] /\ UNCHANGED pos
             ELSE \E x \in Positions(tee[f].r.pos) :
                    /\ item' = [item EXCEPT ![f].pos = x]
                    /\ pos' = pos + x - item[f].pos
          /\ UNCHANGED logger
    /\ UNCHANGED <<setup, cancelled, crashed, main, reader, stop, updater, lease>>

(* ... then to the bps loop, until the channel is closed. *)
TeeSecond(f) ==
    /\ tee[f].at = "d2"
    /\ tee' = [tee EXCEPT ![f] = Tee("recv", NoReport)]
    /\ UNCHANGED <<setup, cancelled, crashed, main, reader, logger, item, pos, stop, updater, lease>>

TeeEnd(f) ==
    /\ tee[f].at = "recv" /\ f \in closed
    /\ tee' = [tee EXCEPT ![f] = Tee("end", NoReport)]
    /\ UNCHANGED <<setup, cancelled, crashed, main, reader, logger, item, pos, stop, updater, lease>>

(* loopB ends with its channel and says how it went; loopA ends with Wait. *)
LoggerEnd(f) ==
    /\ logger[f].at = "B" /\ (IF kind = "task" THEN f \in closed ELSE tee[f].at = "end")
    /\ logger' = [logger EXCEPT ![f].at = "end", ![f].said = IF logger[f].err THEN "Error" ELSE "OK"]
    /\ UNCHANGED <<setup, cancelled, crashed, main, reader, tee, item, pos, stop, updater, lease>>

LoggerDone(f) ==
    /\ logger[f].at = "A" /\ mpc = "logged" /\ f = cur
    /\ logger' = [logger EXCEPT ![f].at = "end"]
    /\ UNCHANGED <<setup, cancelled, crashed, main, reader, tee, item, pos, stop, updater, lease>>

(* waitForProgress: the rest of the file at the end of the channel, or stop. *)
ItemClosed(f) ==
    /\ item[f].on /\ sink = "item" /\ tee[f].at = "end"
    /\ pos' = pos + Chunks - item[f].pos
    /\ item' = [item EXCEPT ![f] = [on |-> FALSE, pos |-> Chunks]]
    /\ UNCHANGED <<setup, cancelled, crashed, main, reader, tee, logger, stop, updater, lease>>

ItemDone(f) ==
    /\ item[f].on /\ stop
    /\ item' = [item EXCEPT ![f].on = FALSE]
    /\ UNCHANGED <<setup, cancelled, crashed, main, reader, tee, logger, pos, stop, updater, lease>>

(* LeaseUpdater.run: HttpNfcLeaseProgress at every tick, until it fails. The    *)
(* percentage that it reports is pos of the total.                              *)
Tick ==
    /\ updater = "tick"
    /\ updater' = "call"
    /\ UNCHANGED <<setup, cancelled, crashed, main, reader, sinks, stop, lease>>

HttpNfcLeaseProgress ==
    /\ updater = "call"
    /\ \/ lease = "ready" /\ updater' = "tick"
       \/ updater' = "end"
    /\ UNCHANGED <<setup, cancelled, crashed, main, reader, sinks, stop, lease>>

UpdaterDone ==
    /\ updater = "tick" /\ stop
    /\ updater' = "end"
    /\ UNCHANGED <<setup, cancelled, crashed, main, reader, sinks, stop, lease>>

-----------------------------------------------------------------------------
MainStep ==
    \/ Start \/ WaitForResult \/ TaskEnd \/ TaskLost \/ Open \/ OpenFails \/ NewReader \/ Do
    \/ Done \/ DoneCancelled \/ Close \/ LoggerWait \/ NextFile \/ StopUpdater \/ Return
TransportStep(f) == ReadChunk(f) \/ SendReport(f) \/ SendOnClosed(f) \/ TransportStops(f)
TeeStep(f) == TeeFirst(f) \/ TeeSecond(f) \/ TeeEnd(f)
SinkStep(f) == LoggerEnd(f) \/ LoggerDone(f) \/ ItemClosed(f) \/ ItemDone(f)
UpdaterStep == Tick \/ HttpNfcLeaseProgress \/ UpdaterDone

Next ==
    /\ ~crashed
    /\ \/ MainStep \/ CancelContext \/ UpdaterStep
       \/ \E f \in Files : TransportStep(f) \/ TeeStep(f) \/ SinkStep(f)

(* Goroutines run, requests are answered and tasks end; a context need not be    *)
(* cancelled. A select with a tick and done ready takes one at random, and ticks *)
(* are two seconds apart: an updater that is told to stop does not tick forever. *)
Fairness ==
    /\ WF_vars(~crashed /\ MainStep) /\ WF_vars(~crashed /\ UpdaterStep) /\ SF_vars(~crashed /\ UpdaterDone)
    /\ \A f \in Files :
        /\ WF_vars(~crashed /\ TransportStep(f)) /\ WF_vars(~crashed /\ TeeStep(f))
        /\ WF_vars(~crashed /\ SinkStep(f))

Spec == Init /\ [][Next]_vars /\ Fairness

-----------------------------------------------------------------------------
Reports == [pos : 0 .. Chunks, err : BOOLEAN]
Tees == [at : {"none", "recv", "d1", "d2", "end"}, r : Reports]
Loggers == [at : {"none", "A", "B", "end"}, err : BOOLEAN, said : {"nothing", "OK", "Error"}]
FileItems == [on : BOOLEAN, pos : 0 .. Chunks + Skew]

(* The type of every variable but LeaseUpdater.pos ... *)
PlacesOK ==
    /\ kind \in Kinds /\ sink \in Sinks /\ {cancelled, crashed, lost, stop} \subseteq BOOLEAN
    /\ mpc \in {"start", "create", "task", "open", "sink", "do", "done", "close", "logged", "next", "stop", "wait",
                "returned"}
    /\ cur \in Files /\ outcome \in [Files -> {"none", "ok", "failed"}]
    /\ closed \subseteq Files /\ late \subseteq Files
    /\ tr \in [Files -> {"none", "read", "send", "eof", "end", "broken"}] /\ read \in [Files -> 0 .. Chunks]
    /\ tee \in [Files -> Tees] /\ logger \in [Files -> Loggers] /\ item \in [Files -> FileItems]
    /\ updater \in {"none", "tick", "call", "end"} /\ lease \in {"ready", "gone"}

(* ... and of that one, which depends on all the items. *)
TypeOK == PlacesOK /\ pos \in 0 .. Total + Items * Skew

(* "Closing this channel means that the related task is done, or resulted in error": *)
(* what the logger says is how it went, through reader, tee and loopB, unless the    *)
(* transport had a report after the last one, or nobody learnt how the task went.    *)
Truthful ==
    \A f \in Files \ late :
        /\ logger[f].said = "OK" => outcome[f] = "ok" \/ lost
        /\ logger[f].said = "Error" => outcome[f] = "failed"

(* reader.Done closes the channel that Read sends on: the process crashes only when *)
(* an upload is answered before its file is read, never in a download.              *)
CrashNeedsLateRead == crashed => kind = "import" /\ late # {}

(* waitForProgress ends short of the size of its file only when it is stopped, or   *)
(* when the file has failed: a file that went well has been counted in full.        *)
ItemsFull ==
    sink = "item" /\ mpc # "start" =>
        \A f \in Files : tee[f].at = "end" /\ ~item[f].on /\ ~stop /\ outcome[f] = "ok" => item[f].pos = Chunks

(* FileItems add up: however reports, ends and the stop interleave and percentages  *)
(* are rounded, the lease has been told of exactly the files it has.                *)
SumOf(items) ==
    LET sum[n \in 0 .. Items] == IF n = 0 THEN 0 ELSE items[n].pos + sum[n - 1] IN sum[Items]
AddsUp == pos = SumOf(item) /\ ItemsFull

(* The counters of readers, sinks and items stay in range and agree. *)
TransferOK == TypeOK /\ AddsUp

(* LeaseUpdater.Done: no goroutine of a lease renews it, or logs, after Import has   *)
(* returned, and the logger of a file ends before the next file is opened.          *)
NothingLeft ==
    /\ mpc = "returned" => updater \in {"none", "end"}
    /\ \A f \in Files : f < cur \/ mpc = "returned" => logger[f].at \in {"none", "end"}

(* Import, an export and the wait for a task return, unless the process crashes.   *)
(* Only a logger can keep a transfer from it, and only when its context is         *)
(* cancelled: the wait for a task returns even then.                               *)
Returns ==
    <>[](\/ mpc = "returned" \/ crashed
         \/ cancelled /\ kind # "task" /\ sink = "logger" /\ mpc = "logged")

(* "If you call Sink(), you are responsible for closing the returned channel": a     *)
(* logger that reports are sent to comes to an end.                                  *)
SinkIsClosed == \A f \in Files : logger[f].at = "B" ~> logger[f].at = "end" \/ crashed
=============================================================================
