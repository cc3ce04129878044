--------------------------- MODULE TransferProofs ---------------------------
(***************************************************************************)
(* Transfer is safe for any number of files of any size: what a logger     *)
(* says is how the transfer went, a report is sent on a closed channel     *)
(* only when an upload was answered before its file had been read, nothing *)
(* renews the lease or logs after main has returned, and the lease has     *)
(* been told of exactly what its files have counted.                       *)
(***************************************************************************)
EXTENDS Transfer, WellFoundedInduction, TLAPS

(* What main does decides where it can be and which goroutines there are. *)
KindOK ==
    IF kind = "task"
    THEN /\ mpc \in {"start", "create", "task", "close", "logged", "returned"}
         /\ updater = "none" /\ sink = "logger" /\ \A f \in Files : tee[f].at = "none"
    ELSE mpc \notin {"create", "task"} /\ ~lost

(* A transport that is at work is the one main waits for, or late. *)
TransportOK ==
    /\ \A f \in Files : Active(f) => f \in late \/ (f = cur /\ mpc = "do")
    /\ late # {} => kind = "import"
    /\ crashed => late # {}

(* Main closes the channel of a file last, before it goes on. *)
ClosedOK ==
    \A f \in closed :
        f < cur \/ (f = cur /\ mpc \in {"logged", "next", "stop", "wait", "returned"})

(* A logger is at work only while main is at its file, and only with the logger for sink. *)
LoggersOK ==
    \A f \in Files :
        /\ logger[f].at \in {"A", "B"} =>
            f = cur /\ mpc \in {"create", "task", "sink", "do", "done", "close", "logged"}
        /\ sink = "item" => logger[f].at = "none"
        /\ logger[f].said # "nothing" => f \in closed

(* The last report of file f has been sent: what is on the way now is the outcome. *)
LastSent(f) == f \in closed \/ (f = cur /\ mpc = "close")

(***************************************************************************)
(* Unless the transport is late, the last report is the one that is on its *)
(* way: from the tee to the logger, which keeps the error it got last.     *)
(***************************************************************************)
ReportOK(f) ==
    LastSent(f) =>
        /\ outcome[f] # "none"
        /\ f \notin late =>
            /\ tee[f].at = "d1" => (tee[f].r.err <=> outcome[f] = "failed")
            /\ sink = "logger" /\ tee[f].at # "d1" =>
                /\ logger[f].err => outcome[f] = "failed"
                /\ ~logger[f].err => outcome[f] = "ok" \/ lost

ReportsOK == (mpc = "done" => outcome[cur] # "none") /\ \A f \in Files : ReportOK(f)

(* An error is reported only of a file that failed, and stops its item. *)
ItemOK(f) ==
    /\ tee[f].r.err => outcome[f] = "failed" /\ LastSent(f)
    /\ ~item[f].on /\ ~stop /\ mpc # "start" /\ kind # "task" =>
        \/ item[f].pos = Chunks
        \/ outcome[f] = "failed" /\ LastSent(f)

ItemsOK == \A f \in Files : ItemOK(f)

(* When main has returned, no goroutine is left to renew the lease. *)
UpdaterOK == mpc = "returned" => updater \in {"none", "end"}

IInv ==
    /\ PlacesOK /\ KindOK /\ TransportOK /\ ClosedOK /\ LoggersOK
    /\ ReportsOK /\ Truthful /\ ItemsOK /\ UpdaterOK

(* LeaseUpdater.pos is what the items have counted; none of them counts before it is started. *)
PosOK ==
    /\ pos = SumOf(item)
    /\ mpc = "start" => pos = 0 /\ \A f \in Files : ~item[f].on

-----------------------------------------------------------------------------
(* The reports and tees that a step makes are well formed. *)
LEMMA TeeRecords ==
    /\ \A n \in 0 .. Chunks, e \in BOOLEAN : Report(n, e) \in Reports /\ Report(n, e).err = e
    /\ \A at \in {"none", "recv", "d1", "d2", "end"}, r \in Reports :
           Tee(at, r) \in Tees /\ Tee(at, r).at = at /\ Tee(at, r).r = r
    /\ NoReport \in Reports /\ NoReport.err = FALSE
    /\ \A t \in Tees :
           /\ [t EXCEPT !.at = "d2"] \in Tees
           /\ [t EXCEPT !.at = "d2"].at = "d2" /\ [t EXCEPT !.at = "d2"].r = t.r
<1>1. \A n \in 0 .. Chunks, e \in BOOLEAN : Report(n, e) \in Reports /\ Report(n, e).err = e
  BY DEF Report, Reports
<1>2. \A at \in {"none", "recv", "d1", "d2", "end"}, r \in Reports :
          Tee(at, r) \in Tees /\ Tee(at, r).at = at /\ Tee(at, r).r = r
  BY DEF Tee, Tees
<1>3. NoReport \in Reports /\ NoReport.err = FALSE
  BY TransferAssumption DEF NoReport, Report, Reports
<1>4. \A t \in Tees :
          /\ [t EXCEPT !.at = "d2"] \in Tees
          /\ [t EXCEPT !.at = "d2"].at = "d2" /\ [t EXCEPT !.at = "d2"].r = t.r
  BY DEF Tees
<1> QED
  BY <1>1, <1>2, <1>3, <1>4

(* So are the loggers ... *)
LEMMA LoggerRecords ==
    /\ \A at \in {"none", "A", "B", "end"} : Logger(at) \in Loggers
    /\ \A l \in Loggers, e \in BOOLEAN :
           /\ [l EXCEPT !.at = "B"] \in Loggers /\ [l EXCEPT !.at = "end"] \in Loggers
           /\ [l EXCEPT !.err = e] \in Loggers
    /\ \A l \in Loggers :
           [l EXCEPT !.at = "end", !.said = IF l.err THEN "Error" ELSE "OK"] \in Loggers
<1>1. \A at \in {"none", "A", "B", "end"} : Logger(at) \in Loggers
  BY DEF Logger, Loggers
<1>2. \A l \in Loggers, e \in BOOLEAN :
          /\ [l EXCEPT !.at = "B"] \in Loggers /\ [l EXCEPT !.at = "end"] \in Loggers
          /\ [l EXCEPT !.err = e] \in Loggers
  BY DEF Loggers
<1>3. \A l \in Loggers :
          [l EXCEPT !.at = "end", !.said = IF l.err THEN "Error" ELSE "OK"] \in Loggers
  BY DEF Loggers
<1> QED
  BY <1>1, <1>2, <1>3

(* ... and the items. *)
LEMMA ItemRecords ==
    /\ \A i \in FileItems, n \in 0 .. Chunks + Skew :
           [i EXCEPT !.on = FALSE] \in FileItems /\ [i EXCEPT !.pos = n] \in FileItems
    /\ \A b \in BOOLEAN :
           [on |-> b, pos |-> 0] \in FileItems /\ [on |-> b, pos |-> Chunks] \in FileItems
<1>1. \A i \in FileItems, n \in 0 .. Chunks + Skew :
          [i EXCEPT !.on = FALSE] \in FileItems /\ [i EXCEPT !.pos = n] \in FileItems
  BY DEF FileItems
<1>2. \A b \in BOOLEAN :
          [on |-> b, pos |-> 0] \in FileItems /\ [on |-> b, pos |-> Chunks] \in FileItems
  BY TransferAssumption DEF FileItems
<1> QED
  BY <1>1, <1>2

(* The last report of a task sets the error of its logger to the outcome. *)
LEMMA TaskEndEffect ==
    ASSUME IInv, TaskEnd
    PROVE  /\ mpc = "task" /\ mpc' = "close" /\ cur' = cur
           /\ UNCHANGED <<kind, sink, late, lost, closed, tee, item, stop>>
           /\ \E e \in BOOLEAN, o \in {"ok", "failed"} :
                /\ e <=> o = "failed"
                /\ outcome' = [outcome EXCEPT ![cur] = o]
                /\ logger' = [logger EXCEPT ![cur] = [logger[cur] EXCEPT !.err = e]]
<1>1. PICK o \in {"ok", "failed"} :
        /\ outcome' = [outcome EXCEPT ![cur] = o]
        /\ logger' = [logger EXCEPT ![cur] = [logger[cur] EXCEPT !.err = (o = "failed")]]
  BY DEF TaskEnd
<1> DEFINE e == (o = "failed")
<1>2. e \in BOOLEAN /\ (e <=> o = "failed")
  OBVIOUS
<1>3. logger' = [logger EXCEPT ![cur] = [logger[cur] EXCEPT !.err = e]]
  BY <1>1
<1> HIDE DEF e
<1>4. /\ mpc = "task" /\ mpc' = "close" /\ cur' = cur
      /\ UNCHANGED <<kind, sink, late, lost, closed, tee, item, stop>>
  BY DEF TaskEnd, setup, reader
<1> QED
  BY <1>1, <1>2, <1>3, <1>4

(* A report that is sent on the way has no error. *)
LEMMA SendEffect ==
    ASSUME IInv, NEW f \in Files, SendReport(f)
    PROVE  \/ tee' = tee
           \/ \E t \in Tees : t.at = "d1" /\ t.r.err = FALSE /\ tee' = [tee EXCEPT ![f] = t]
<1>1. read[f] \in 0 .. Chunks
  BY DEF IInv, PlacesOK
<1>2. ASSUME NEW n \in 0 .. Chunks
      PROVE  Report(n, FALSE) \in Reports /\ Report(n, FALSE).err = FALSE
  BY TeeRecords
<1>3. Report(read[f], FALSE) \in Reports /\ Report(read[f], FALSE).err = FALSE
  BY <1>1, <1>2
<1>4. LET t == Tee("d1", Report(read[f], FALSE))
      IN  t \in Tees /\ t.at = "d1" /\ t.r.err = FALSE
  BY <1>3, TeeRecords
<1> QED
  BY <1>4 DEF SendReport

(* The last one has the outcome of the file. *)
LEMMA DoneEffect ==
    ASSUME IInv, Done
    PROVE  \E t \in Tees : t.at = "d1" /\ (t.r.err <=> outcome[cur] = "failed")
                           /\ tee' = [tee EXCEPT ![cur] = t]
<1> DEFINE e == (outcome[cur] = "failed")
           t == Tee("d1", Report(read[cur], e))
<1>1. e \in BOOLEAN /\ read[cur] \in 0 .. Chunks
  BY DEF IInv, PlacesOK
<1>2. tee' = [tee EXCEPT ![cur] = t]
  BY DEF Done
<1>3. e <=> outcome[cur] = "failed"
  OBVIOUS
<1> HIDE DEF e
<1>4. Report(read[cur], e) \in Reports /\ Report(read[cur], e).err = e
  BY <1>1, TeeRecords
<1>5. t \in Tees /\ t.at = "d1" /\ t.r.err = e
  BY <1>4, TeeRecords
<1> QED
  BY <1>2, <1>3, <1>5

(* The tee passes its report on and then forgets it. *)
LEMMA TeeEffect ==
    ASSUME IInv, NEW f \in Files
    PROVE  /\ TeeFirst(f) =>
                /\ tee[f].at = "d1" /\ tee'[f].at = "d2" /\ tee'[f].r = tee[f].r
                /\ \A g \in Files \ {f} : tee'[g] = tee[g]
           /\ TeeSecond(f) =>
                /\ tee[f].at = "d2" /\ tee'[f].at = "recv" /\ tee'[f].r.err = FALSE
                /\ \A g \in Files \ {f} : tee'[g] = tee[g]
           /\ TeeEnd(f) =>
                /\ tee[f].at = "recv" /\ tee'[f].at = "end" /\ tee'[f].r.err = FALSE
                /\ \A g \in Files \ {f} : tee'[g] = tee[g]
<1>0. tee \in [Files -> Tees]
  BY DEF IInv, PlacesOK
<1>1. ASSUME TeeFirst(f) PROVE /\ tee[f].at = "d1" /\ tee'[f].at = "d2" /\ tee'[f].r = tee[f].r
                              /\ \A g \in Files \ {f} : tee'[g] = tee[g]
  <2>1. tee[f].at = "d1" /\ tee' = [tee EXCEPT ![f] = [tee[f] EXCEPT !.at = "d2"]]
    BY <1>1 DEF TeeFirst
  <2>2. tee'[f] = [tee[f] EXCEPT !.at = "d2"] /\ \A g \in Files \ {f} : tee'[g] = tee[g]
    BY <1>0, <2>1
  <2>3. tee'[f].at = "d2" /\ tee'[f].r = tee[f].r
    BY <1>0, <2>2 DEF Tees
  <2> QED
    BY <2>1, <2>2, <2>3
<1>2. ASSUME TeeSecond(f) \/ TeeEnd(f)
      PROVE  tee'[f].r.err = FALSE /\ \A g \in Files \ {f} : tee'[g] = tee[g]
  BY <1>0, <1>2, TeeRecords DEF TeeSecond, TeeEnd
<1>3. ASSUME TeeSecond(f) PROVE tee[f].at = "d2" /\ tee'[f].at = "recv"
  BY <1>0, <1>3, TeeRecords DEF TeeSecond
<1>4. ASSUME TeeEnd(f) PROVE tee[f].at = "recv" /\ tee'[f].at = "end"
  BY <1>0, <1>4, TeeRecords DEF TeeEnd
<1> QED
  BY <1>1, <1>2, <1>3, <1>4

(* A step of main touches the logger, the tee and the outcome of its own file only. *)
LEMMA MainElsewhere ==
    ASSUME IInv, MainStep, NEW g \in Files, g # cur
    PROVE  /\ logger'[g] = logger[g] /\ tee'[g] = tee[g] /\ outcome'[g] = outcome[g]
           /\ g \in closed' <=> g \in closed
           /\ g \in late' <=> g \in late
  BY DEF IInv, PlacesOK, MainStep, Start, WaitForResult, TaskEnd, TaskLost, Open, OpenFails,
     NewReader, Do, Done, DoneCancelled, Close, LoggerWait, NextFile, StopUpdater, Return,
     reader, sinks

(* Every step keeps the types. *)
LEMMA PlacesStep == IInv /\ [Next]_vars => PlacesOK'
<1> SUFFICES ASSUME IInv, [Next]_vars PROVE PlacesOK'
  OBVIOUS
<1>1. CASE Start
  <2>1. logger' \in [Files -> Loggers]
    BY <1>1, LoggerRecords DEF Start, IInv, PlacesOK
  <2>2. item' \in [Files -> FileItems]
    BY <1>1, ItemRecords DEF Start, IInv, PlacesOK
  <2>3. updater' \in {"none", "tick", "call", "end"} /\ mpc' \in {"create", "open"}
    BY <1>1 DEF Start, IInv, PlacesOK
  <2> QED
    BY <1>1, <2>1, <2>2, <2>3 DEF Start, IInv, PlacesOK, reader, sinks, setup
<1>2. CASE WaitForResult
  <2>1. logger' \in [Files -> Loggers]
    BY <1>2 DEF WaitForResult, Loggers, IInv, PlacesOK
  <2>2. outcome' \in [Files -> {"none", "ok", "failed"}]
    BY <1>2 DEF WaitForResult, IInv, PlacesOK
  <2>3. mpc' \in {"task", "logged"}
    BY <1>2 DEF WaitForResult, IInv, PlacesOK
  <2> QED
    BY <1>2, <2>1, <2>2, <2>3 DEF WaitForResult, IInv, PlacesOK, reader, sinks, setup
<1>3. CASE TaskEnd
  <2>1. PICK e \in BOOLEAN, o \in {"ok", "failed"} :
          /\ outcome' = [outcome EXCEPT ![cur] = o]
          /\ logger' = [logger EXCEPT ![cur] = [logger[cur] EXCEPT !.err = e]]
    BY <1>3, TaskEndEffect
  <2>2. [logger[cur] EXCEPT !.err = e] \in Loggers
    BY LoggerRecords DEF IInv, PlacesOK
  <2>3. logger' \in [Files -> Loggers] /\ outcome' \in [Files -> {"none", "ok", "failed"}]
    BY <2>1, <2>2 DEF IInv, PlacesOK
  <2> QED
    BY <1>3, <2>3 DEF TaskEnd, IInv, PlacesOK, reader, setup
<1>4. CASE TaskLost
  BY <1>4 DEF TaskLost, IInv, PlacesOK, reader, sinks, setup
<1>5. CASE Open
  BY <1>5, LoggerRecords DEF Open, IInv, PlacesOK, reader, sinks, setup
<1>6. CASE OpenFails
  <2>1. logger' \in [Files -> Loggers]
    BY <1>6, LoggerRecords DEF OpenFails, IInv, PlacesOK
  <2>2. outcome' \in [Files -> {"none", "ok", "failed"}]
    BY <1>6 DEF OpenFails, IInv, PlacesOK
  <2>3. mpc' \in {"next", "logged"}
    BY <1>6 DEF OpenFails, IInv, PlacesOK
  <2> QED
    BY <1>6, <2>1, <2>2, <2>3 DEF OpenFails, IInv, PlacesOK, reader, sinks, setup
<1>7. CASE NewReader
  BY <1>7, TeeRecords, LoggerRecords DEF NewReader, IInv, PlacesOK, setup
<1>8. CASE Do
  BY <1>8 DEF Do, IInv, PlacesOK, reader, sinks, setup
<1>9. CASE Done
  BY <1>9, TeeRecords DEF Done, IInv, PlacesOK, reader, sinks, setup
<1>10. CASE DoneCancelled
  BY <1>10 DEF DoneCancelled, IInv, PlacesOK, reader, sinks, setup
<1>11. CASE Close
  BY <1>11 DEF Close, IInv, PlacesOK, sinks, setup
<1>12. CASE LoggerWait
  BY <1>12 DEF LoggerWait, IInv, PlacesOK, reader, sinks, setup
<1>13. CASE NextFile
  <2>1. cur' \in Files
    BY <1>13, TransferAssumption DEF NextFile, Files, IInv, PlacesOK
  <2>2. mpc' \in {"open", "stop"} /\ lease' \in {"ready", "gone"}
    BY <1>13 DEF NextFile, IInv, PlacesOK
  <2> QED
    BY <1>13, <2>1, <2>2 DEF NextFile, IInv, PlacesOK, reader, sinks, setup
<1>14. CASE StopUpdater
  BY <1>14 DEF StopUpdater, IInv, PlacesOK, reader, sinks, setup
<1>15. CASE Return
  BY <1>15 DEF Return, IInv, PlacesOK, reader, sinks, setup
<1>16. CASE CancelContext
  BY <1>16 DEF CancelContext, IInv, PlacesOK, main, reader, sinks, setup
<1>17. CASE UpdaterStep
  BY <1>17
    DEF UpdaterStep, Tick, HttpNfcLeaseProgress, UpdaterDone, IInv, PlacesOK, main, reader,
        sinks, setup
<1>18. ASSUME NEW f \in Files, ReadChunk(f) PROVE PlacesOK'
  <2>1. tr' \in [Files -> {"none", "read", "send", "eof", "end", "broken"}]
    BY <1>18 DEF ReadChunk, IInv, PlacesOK
  <2>2. read' \in [Files -> 0 .. Chunks]
    BY <1>18, TransferAssumption DEF ReadChunk, IInv, PlacesOK
  <2> QED
    BY <1>18, <2>1, <2>2 DEF ReadChunk, IInv, PlacesOK, main, reader, sinks, setup
<1>19. ASSUME NEW f \in Files, SendReport(f) PROVE PlacesOK'
  <2>1. tr' \in [Files -> {"none", "read", "send", "eof", "end", "broken"}]
    BY <1>19 DEF SendReport, AfterRead, IInv, PlacesOK
  <2>2. tee' \in [Files -> Tees]
    BY <1>19, SendEffect DEF IInv, PlacesOK
  <2> QED
    BY <1>19, <2>1, <2>2 DEF SendReport, IInv, PlacesOK, main, reader, sinks, setup
<1>20. ASSUME NEW f \in Files, SendOnClosed(f) PROVE PlacesOK'
  BY <1>20 DEF SendOnClosed, IInv, PlacesOK, main, reader, sinks, setup
<1>21. ASSUME NEW f \in Files, TransportStops(f) PROVE PlacesOK'
  BY <1>21 DEF TransportStops, IInv, PlacesOK, main, reader, sinks, setup
<1>22. ASSUME NEW f \in Files, TeeFirst(f) PROVE PlacesOK'
  <2>1. tee' \in [Files -> Tees]
    BY <1>22, TeeRecords DEF TeeFirst, IInv, PlacesOK
  <2>2. tee[f].r.err \in BOOLEAN /\ tee[f].r.pos \in 0 .. Chunks
    BY DEF IInv, PlacesOK, Tees, Reports
  <2>3. logger' \in [Files -> Loggers]
    <3>1. \/ logger' = logger
          \/ logger' = [logger EXCEPT ![f].err = tee[f].r.err]
      BY <1>22 DEF TeeFirst
    <3>2. logger \in [Files -> Loggers]
      BY DEF IInv, PlacesOK
    <3>3. [logger[f] EXCEPT !.err = tee[f].r.err] \in Loggers
      BY <2>2, <3>2 DEF Loggers
    <3> QED
      BY <3>1, <3>2, <3>3
  <2>4. item' \in [Files -> FileItems]
    <3>1. \/ item' = item \/ item' = [item EXCEPT ![f].on = FALSE]
          \/ \E x \in Positions(tee[f].r.pos) : item' = [item EXCEPT ![f].pos = x]
      BY <1>22 DEF TeeFirst
    <3>2. \A x \in Positions(tee[f].r.pos) : x \in 0 .. Chunks + Skew
      BY <2>2, TransferAssumption DEF Positions
    <3> QED
      <4>1. CASE \E x \in Positions(tee[f].r.pos) : item' = [item EXCEPT ![f].pos = x]
        <5>1. PICK x \in 0 .. Chunks + Skew : item' = [item EXCEPT ![f].pos = x]
          BY <4>1, <3>2
        <5>2. [item[f] EXCEPT !.pos = x] \in FileItems
          BY ItemRecords DEF IInv, PlacesOK
        <5> QED
          BY <5>1, <5>2 DEF IInv, PlacesOK
      <4>2. CASE item' = [item EXCEPT ![f].on = FALSE]
        <5>1. [item[f] EXCEPT !.on = FALSE] \in FileItems
          BY DEF FileItems, IInv, PlacesOK
        <5> QED
          BY <4>2, <5>1 DEF IInv, PlacesOK
      <4>3. CASE item' = item
        BY <4>3 DEF IInv, PlacesOK
      <4> QED
        BY <3>1, <4>1, <4>2, <4>3
  <2> QED
    BY <1>22, <2>1, <2>3, <2>4 DEF TeeFirst, IInv, PlacesOK, main, reader, setup
<1>23. ASSUME NEW f \in Files, TeeSecond(f) PROVE PlacesOK'
  BY <1>23, TeeRecords DEF TeeSecond, IInv, PlacesOK, main, reader, sinks, setup
<1>24. ASSUME NEW f \in Files, TeeEnd(f) PROVE PlacesOK'
  BY <1>24, TeeRecords DEF TeeEnd, IInv, PlacesOK, main, reader, sinks, setup
<1>25. ASSUME NEW f \in Files, LoggerEnd(f) PROVE PlacesOK'
  BY <1>25, LoggerRecords DEF LoggerEnd, IInv, PlacesOK, main, reader, sinks, setup
<1>26. ASSUME NEW f \in Files, LoggerDone(f) PROVE PlacesOK'
  BY <1>26, LoggerRecords DEF LoggerDone, IInv, PlacesOK, main, reader, sinks, setup
<1>27. ASSUME NEW f \in Files, ItemClosed(f) PROVE PlacesOK'
  BY <1>27, ItemRecords DEF ItemClosed, IInv, PlacesOK, main, reader, sinks, setup
<1>28. ASSUME NEW f \in Files, ItemDone(f) PROVE PlacesOK'
  BY <1>28 DEF ItemDone, IInv, PlacesOK, FileItems, main, reader, sinks, setup
<1>29. CASE UNCHANGED vars
  BY <1>29 DEF IInv, PlacesOK, vars, main, reader, sinks, setup
<1> QED
  BY <1>1, <1>2, <1>3, <1>4, <1>5, <1>6, <1>7, <1>8, <1>9, <1>10, <1>11, <1>12, <1>13, <1>14,
     <1>15, <1>16, <1>17, <1>18, <1>19, <1>20, <1>21, <1>22, <1>23, <1>24, <1>25, <1>26, <1>27,
     <1>28, <1>29
    DEF Next, MainStep, TransportStep, TeeStep, SinkStep

(* Main keeps to what it does. *)
LEMMA KindStep == IInv /\ [Next]_vars => KindOK'
<1> SUFFICES ASSUME IInv, [Next]_vars PROVE KindOK'
  OBVIOUS
<1>1. CASE Start
  BY <1>1 DEF Start, IInv, PlacesOK, KindOK, Tees, reader, sinks, setup
<1>2. CASE WaitForResult
  BY <1>2 DEF WaitForResult, IInv, PlacesOK, KindOK, Tees, reader, sinks, setup
<1>3. CASE TaskEnd
  BY <1>3 DEF TaskEnd, IInv, PlacesOK, KindOK, Tees, reader, sinks, setup
<1>4. CASE TaskLost
  BY <1>4 DEF TaskLost, IInv, PlacesOK, KindOK, Tees, reader, sinks, setup
<1>5. CASE Open
  BY <1>5 DEF Open, IInv, PlacesOK, KindOK, Tees, reader, sinks, setup
<1>6. CASE OpenFails
  BY <1>6 DEF OpenFails, IInv, PlacesOK, KindOK, Tees, reader, sinks, setup
<1>7. CASE NewReader
  BY <1>7 DEF NewReader, IInv, PlacesOK, KindOK, Tees, Tee, setup
<1>8. CASE Do
  BY <1>8 DEF Do, IInv, PlacesOK, KindOK, Tees, reader, sinks, setup
<1>9. CASE Done
  BY <1>9 DEF Done, IInv, PlacesOK, KindOK, Tees, Tee, reader, sinks, setup
<1>10. CASE DoneCancelled
  BY <1>10 DEF DoneCancelled, IInv, PlacesOK, KindOK, Tees, reader, sinks, setup
<1>11. CASE Close
  BY <1>11 DEF Close, IInv, PlacesOK, KindOK, Tees, sinks, setup
<1>12. CASE LoggerWait
  BY <1>12 DEF LoggerWait, IInv, PlacesOK, KindOK, Tees, reader, sinks, setup
<1>13. CASE NextFile
  BY <1>13 DEF NextFile, IInv, PlacesOK, KindOK, Tees, reader, sinks, setup
<1>14. CASE StopUpdater
  BY <1>14 DEF StopUpdater, IInv, PlacesOK, KindOK, Tees, reader, sinks, setup
<1>15. CASE Return
  BY <1>15 DEF Return, IInv, PlacesOK, KindOK, Tees, reader, sinks, setup
<1>16. CASE CancelContext
  BY <1>16 DEF CancelContext, IInv, PlacesOK, KindOK, Tees, main, reader, sinks, setup
<1>17. CASE UpdaterStep
  BY <1>17
    DEF UpdaterStep, Tick, HttpNfcLeaseProgress, UpdaterDone, IInv, PlacesOK, KindOK, Tees,
        main, reader, sinks, setup
<1>18. ASSUME NEW f \in Files, ReadChunk(f) PROVE KindOK'
  BY <1>18 DEF ReadChunk, IInv, PlacesOK, KindOK, Tees, main, reader, sinks, setup
<1>19. ASSUME NEW f \in Files, SendReport(f) PROVE KindOK'
  BY <1>19
    DEF SendReport, AfterRead, IInv, PlacesOK, KindOK, Tees, Tee, main, reader, sinks, setup
<1>20. ASSUME NEW f \in Files, SendOnClosed(f) PROVE KindOK'
  BY <1>20 DEF SendOnClosed, IInv, PlacesOK, KindOK, Tees, main, reader, sinks, setup
<1>21. ASSUME NEW f \in Files, TransportStops(f) PROVE KindOK'
  BY <1>21 DEF TransportStops, IInv, PlacesOK, KindOK, Tees, main, reader, sinks, setup
<1>22. ASSUME NEW f \in Files, TeeFirst(f) PROVE KindOK'
  BY <1>22 DEF TeeFirst, IInv, PlacesOK, KindOK, Tees, main, reader, sinks, setup
<1>23. ASSUME NEW f \in Files, TeeSecond(f) PROVE KindOK'
  BY <1>23 DEF TeeSecond, IInv, PlacesOK, KindOK, Tees, Tee, main, reader, sinks, setup
<1>24. ASSUME NEW f \in Files, TeeEnd(f) PROVE KindOK'
  BY <1>24 DEF TeeEnd, IInv, PlacesOK, KindOK, Tees, Tee, main, reader, sinks, setup
<1>25. ASSUME NEW f \in Files, LoggerEnd(f) PROVE KindOK'
  BY <1>25 DEF LoggerEnd, IInv, PlacesOK, KindOK, Tees, main, reader, sinks, setup
<1>26. ASSUME NEW f \in Files, LoggerDone(f) PROVE KindOK'
  BY <1>26 DEF LoggerDone, IInv, PlacesOK, KindOK, Tees, main, reader, sinks, setup
<1>27. ASSUME NEW f \in Files, ItemClosed(f) PROVE KindOK'
  BY <1>27 DEF ItemClosed, IInv, PlacesOK, KindOK, Tees, main, reader, sinks, setup
<1>28. ASSUME NEW f \in Files, ItemDone(f) PROVE KindOK'
  BY <1>28 DEF ItemDone, IInv, PlacesOK, KindOK, Tees, main, reader, sinks, setup
<1>29. CASE UNCHANGED vars
  BY <1>29 DEF IInv, PlacesOK, KindOK, Tees, vars, main, reader, sinks, setup
<1> QED
  BY <1>1, <1>2, <1>3, <1>4, <1>5, <1>6, <1>7, <1>8, <1>9, <1>10, <1>11, <1>12, <1>13, <1>14,
     <1>15, <1>16, <1>17, <1>18, <1>19, <1>20, <1>21, <1>22, <1>23, <1>24, <1>25, <1>26, <1>27,
     <1>28, <1>29
    DEF Next, MainStep, TransportStep, TeeStep, SinkStep

(* A transport is at work for main, or is late. *)
LEMMA ActiveStep == IInv /\ [Next]_vars => TransportOK'
<1> SUFFICES ASSUME IInv, [Next]_vars PROVE TransportOK'
  OBVIOUS
<1>1. CASE Start
  BY <1>1 DEF Start, IInv, PlacesOK, KindOK, TransportOK, Active, reader, sinks, setup
<1>2. CASE WaitForResult
  BY <1>2 DEF WaitForResult, IInv, PlacesOK, KindOK, TransportOK, Active, reader, sinks, setup
<1>3. CASE TaskEnd
  BY <1>3 DEF TaskEnd, IInv, PlacesOK, KindOK, TransportOK, Active, reader, sinks, setup
<1>4. CASE TaskLost
  BY <1>4 DEF TaskLost, IInv, PlacesOK, KindOK, TransportOK, Active, reader, sinks, setup
<1>5. CASE Open
  BY <1>5 DEF Open, IInv, PlacesOK, KindOK, TransportOK, Active, reader, sinks, setup
<1>6. CASE OpenFails
  BY <1>6 DEF OpenFails, IInv, PlacesOK, KindOK, TransportOK, Active, reader, sinks, setup
<1>7. CASE NewReader
  BY <1>7 DEF NewReader, IInv, PlacesOK, KindOK, TransportOK, Active, setup
<1>8. CASE Do
  BY <1>8 DEF Do, IInv, PlacesOK, KindOK, TransportOK, Active, reader, sinks, setup
<1>9. CASE Done
  BY <1>9 DEF Done, IInv, PlacesOK, KindOK, TransportOK, Active, reader, sinks, setup
<1>10. CASE DoneCancelled
  BY <1>10 DEF DoneCancelled, IInv, PlacesOK, KindOK, TransportOK, Active, reader, sinks, setup
<1>11. CASE Close
  BY <1>11 DEF Close, IInv, PlacesOK, KindOK, TransportOK, Active, sinks, setup
<1>12. CASE LoggerWait
  BY <1>12 DEF LoggerWait, IInv, PlacesOK, KindOK, TransportOK, Active, reader, sinks, setup
<1>13. CASE NextFile
  BY <1>13 DEF NextFile, IInv, PlacesOK, KindOK, TransportOK, Active, reader, sinks, setup
<1>14. CASE StopUpdater
  BY <1>14 DEF StopUpdater, IInv, PlacesOK, KindOK, TransportOK, Active, reader, sinks, setup
<1>15. CASE Return
  BY <1>15 DEF Return, IInv, PlacesOK, KindOK, TransportOK, Active, reader, sinks, setup
<1>16. CASE CancelContext
  BY <1>16
    DEF CancelContext, IInv, PlacesOK, KindOK, TransportOK, Active, main, reader, sinks,
        setup
<1>17. CASE UpdaterStep
  BY <1>17
    DEF UpdaterStep, Tick, HttpNfcLeaseProgress, UpdaterDone, IInv, PlacesOK, KindOK,
        TransportOK, Active, main, reader, sinks, setup
<1>18. ASSUME NEW f \in Files, ReadChunk(f) PROVE TransportOK'
  BY <1>18
    DEF ReadChunk, IInv, PlacesOK, KindOK, TransportOK, Active, main, reader, sinks, setup
<1>19. ASSUME NEW f \in Files, SendReport(f) PROVE TransportOK'
  BY <1>19
    DEF SendReport, AfterRead, IInv, PlacesOK, KindOK, TransportOK, Active, main, reader,
        sinks, setup
<1>20. ASSUME NEW f \in Files, SendOnClosed(f) PROVE TransportOK'
  BY <1>20, TransferAssumption
    DEF SendOnClosed, IInv, PlacesOK, KindOK, TransportOK, Active, ClosedOK, Files, main,
        reader, sinks, setup
<1>21. ASSUME NEW f \in Files, TransportStops(f) PROVE TransportOK'
  BY <1>21
    DEF TransportStops, IInv, PlacesOK, KindOK, TransportOK, Active, main, reader, sinks,
        setup
<1>22. ASSUME NEW f \in Files, TeeFirst(f) PROVE TransportOK'
  BY <1>22 DEF TeeFirst, IInv, PlacesOK, KindOK, TransportOK, Active, main, reader, sinks, setup
<1>23. ASSUME NEW f \in Files, TeeSecond(f) PROVE TransportOK'
  BY <1>23
    DEF TeeSecond, IInv, PlacesOK, KindOK, TransportOK, Active, main, reader, sinks, setup
<1>24. ASSUME NEW f \in Files, TeeEnd(f) PROVE TransportOK'
  BY <1>24 DEF TeeEnd, IInv, PlacesOK, KindOK, TransportOK, Active, main, reader, sinks, setup
<1>25. ASSUME NEW f \in Files, LoggerEnd(f) PROVE TransportOK'
  BY <1>25
    DEF LoggerEnd, IInv, PlacesOK, KindOK, TransportOK, Active, main, reader, sinks, setup
<1>26. ASSUME NEW f \in Files, LoggerDone(f) PROVE TransportOK'
  BY <1>26
    DEF LoggerDone, IInv, PlacesOK, KindOK, TransportOK, Active, main, reader, sinks, setup
<1>27. ASSUME NEW f \in Files, ItemClosed(f) PROVE TransportOK'
  BY <1>27
    DEF ItemClosed, IInv, PlacesOK, KindOK, TransportOK, Active, main, reader, sinks, setup
<1>28. ASSUME NEW f \in Files, ItemDone(f) PROVE TransportOK'
  BY <1>28 DEF ItemDone, IInv, PlacesOK, KindOK, TransportOK, Active, main, reader, sinks, setup
<1>29. CASE UNCHANGED vars
  BY <1>29 DEF IInv, PlacesOK, KindOK, TransportOK, Active, vars, main, reader, sinks, setup
<1> QED
  BY <1>1, <1>2, <1>3, <1>4, <1>5, <1>6, <1>7, <1>8, <1>9, <1>10, <1>11, <1>12, <1>13, <1>14,
     <1>15, <1>16, <1>17, <1>18, <1>19, <1>20, <1>21, <1>22, <1>23, <1>24, <1>25, <1>26, <1>27,
     <1>28, <1>29
    DEF Next, MainStep, TransportStep, TeeStep, SinkStep

(* Only the channel of a file main is done with is closed. *)
LEMMA ClosedStep == IInv /\ [Next]_vars => ClosedOK'
<1> SUFFICES ASSUME IInv, [Next]_vars PROVE ClosedOK'
  OBVIOUS
<1>1. CASE Start
  BY <1>1, TransferAssumption DEF Start, IInv, PlacesOK, ClosedOK, Files, reader, sinks, setup
<1>2. CASE WaitForResult
  BY <1>2, TransferAssumption
    DEF WaitForResult, IInv, PlacesOK, ClosedOK, Files, reader, sinks, setup
<1>3. CASE TaskEnd
  BY <1>3, TransferAssumption DEF TaskEnd, IInv, PlacesOK, ClosedOK, Files, reader, sinks, setup
<1>4. CASE TaskLost
  BY <1>4, TransferAssumption
    DEF TaskLost, IInv, PlacesOK, ClosedOK, Files, reader, sinks, setup
<1>5. CASE Open
  BY <1>5, TransferAssumption DEF Open, IInv, PlacesOK, ClosedOK, Files, reader, sinks, setup
<1>6. CASE OpenFails
  BY <1>6, TransferAssumption
    DEF OpenFails, IInv, PlacesOK, ClosedOK, Files, reader, sinks, setup
<1>7. CASE NewReader
  BY <1>7, TransferAssumption DEF NewReader, IInv, PlacesOK, ClosedOK, Files, setup
<1>8. CASE Do
  BY <1>8, TransferAssumption DEF Do, IInv, PlacesOK, ClosedOK, Files, reader, sinks, setup
<1>9. CASE Done
  BY <1>9, TransferAssumption DEF Done, IInv, PlacesOK, ClosedOK, Files, reader, sinks, setup
<1>10. CASE DoneCancelled
  BY <1>10, TransferAssumption
    DEF DoneCancelled, IInv, PlacesOK, ClosedOK, Files, reader, sinks, setup
<1>11. CASE Close
  BY <1>11, TransferAssumption DEF Close, IInv, PlacesOK, ClosedOK, Files, sinks, setup
<1>12. CASE LoggerWait
  BY <1>12, TransferAssumption
    DEF LoggerWait, IInv, PlacesOK, ClosedOK, Files, reader, sinks, setup
<1>13. CASE NextFile
  BY <1>13, TransferAssumption
    DEF NextFile, IInv, PlacesOK, ClosedOK, Files, reader, sinks, setup
<1>14. CASE StopUpdater
  BY <1>14, TransferAssumption
    DEF StopUpdater, IInv, PlacesOK, ClosedOK, Files, reader, sinks, setup
<1>15. CASE Return
  BY <1>15, TransferAssumption DEF Return, IInv, PlacesOK, ClosedOK, Files, reader, sinks, setup
<1>16. CASE CancelContext
  BY <1>16, TransferAssumption
    DEF CancelContext, IInv, PlacesOK, ClosedOK, Files, main, reader, sinks, setup
<1>17. CASE UpdaterStep
  BY <1>17, TransferAssumption
    DEF UpdaterStep, Tick, HttpNfcLeaseProgress, UpdaterDone, IInv, PlacesOK, ClosedOK,
        Files, main, reader, sinks, setup
<1>18. ASSUME NEW f \in Files, ReadChunk(f) PROVE ClosedOK'
  BY <1>18, TransferAssumption
    DEF ReadChunk, IInv, PlacesOK, ClosedOK, Files, main, reader, sinks, setup
<1>19. ASSUME NEW f \in Files, SendReport(f) PROVE ClosedOK'
  BY <1>19, TransferAssumption
    DEF SendReport, AfterRead, IInv, PlacesOK, ClosedOK, Files, main, reader, sinks, setup
<1>20. ASSUME NEW f \in Files, SendOnClosed(f) PROVE ClosedOK'
  BY <1>20, TransferAssumption
    DEF SendOnClosed, IInv, PlacesOK, ClosedOK, Files, main, reader, sinks, setup
<1>21. ASSUME NEW f \in Files, TransportStops(f) PROVE ClosedOK'
  BY <1>21, TransferAssumption
    DEF TransportStops, IInv, PlacesOK, ClosedOK, Files, main, reader, sinks, setup
<1>22. ASSUME NEW f \in Files, TeeFirst(f) PROVE ClosedOK'
  BY <1>22, TransferAssumption
    DEF TeeFirst, IInv, PlacesOK, ClosedOK, Files, main, reader, sinks, setup
<1>23. ASSUME NEW f \in Files, TeeSecond(f) PROVE ClosedOK'
  BY <1>23, TransferAssumption
    DEF TeeSecond, IInv, PlacesOK, ClosedOK, Files, main, reader, sinks, setup
<1>24. ASSUME NEW f \in Files, TeeEnd(f) PROVE ClosedOK'
  BY <1>24, TransferAssumption
    DEF TeeEnd, IInv, PlacesOK, ClosedOK, Files, main, reader, sinks, setup
<1>25. ASSUME NEW f \in Files, LoggerEnd(f) PROVE ClosedOK'
  BY <1>25, TransferAssumption
    DEF LoggerEnd, IInv, PlacesOK, ClosedOK, Files, main, reader, sinks, setup
<1>26. ASSUME NEW f \in Files, LoggerDone(f) PROVE ClosedOK'
  BY <1>26, TransferAssumption
    DEF LoggerDone, IInv, PlacesOK, ClosedOK, Files, main, reader, sinks, setup
<1>27. ASSUME NEW f \in Files, ItemClosed(f) PROVE ClosedOK'
  BY <1>27, TransferAssumption
    DEF ItemClosed, IInv, PlacesOK, ClosedOK, Files, main, reader, sinks, setup
<1>28. ASSUME NEW f \in Files, ItemDone(f) PROVE ClosedOK'
  BY <1>28, TransferAssumption
    DEF ItemDone, IInv, PlacesOK, ClosedOK, Files, main, reader, sinks, setup
<1>29. CASE UNCHANGED vars
  BY <1>29, TransferAssumption
    DEF IInv, PlacesOK, ClosedOK, Files, vars, main, reader, sinks, setup
<1> QED
  BY <1>1, <1>2, <1>3, <1>4, <1>5, <1>6, <1>7, <1>8, <1>9, <1>10, <1>11, <1>12, <1>13, <1>14,
     <1>15, <1>16, <1>17, <1>18, <1>19, <1>20, <1>21, <1>22, <1>23, <1>24, <1>25, <1>26, <1>27,
     <1>28, <1>29
    DEF Next, MainStep, TransportStep, TeeStep, SinkStep

(* A logger ends before main goes on. *)
LEMMA LoggersStep == IInv /\ [Next]_vars => LoggersOK'
<1> SUFFICES ASSUME IInv, [Next]_vars PROVE LoggersOK'
  OBVIOUS
<1>1. CASE Start
  BY <1>1, TransferAssumption
    DEF Start, IInv, PlacesOK, KindOK, LoggersOK, Loggers, Logger, reader, sinks, setup
<1>2. CASE WaitForResult
  BY <1>2, TransferAssumption
    DEF WaitForResult, IInv, PlacesOK, KindOK, LoggersOK, Loggers, reader, sinks, setup
<1>3. CASE TaskEnd
  BY <1>3, TransferAssumption
    DEF TaskEnd, IInv, PlacesOK, KindOK, LoggersOK, Loggers, reader, sinks, setup
<1>4. CASE TaskLost
  BY <1>4, TransferAssumption
    DEF TaskLost, IInv, PlacesOK, KindOK, LoggersOK, Loggers, reader, sinks, setup
<1>5. CASE Open
  BY <1>5, TransferAssumption
    DEF Open, IInv, PlacesOK, KindOK, LoggersOK, Loggers, Logger, reader, sinks, setup
<1>6. CASE OpenFails
  BY <1>6, TransferAssumption
    DEF OpenFails, IInv, PlacesOK, KindOK, LoggersOK, Loggers, Logger, reader, sinks, setup
<1>7. CASE NewReader
  BY <1>7, TransferAssumption DEF NewReader, IInv, PlacesOK, KindOK, LoggersOK, Loggers, setup
<1>8. CASE Do
  BY <1>8, TransferAssumption
    DEF Do, IInv, PlacesOK, KindOK, LoggersOK, Loggers, reader, sinks, setup
<1>9. CASE Done
  BY <1>9, TransferAssumption
    DEF Done, IInv, PlacesOK, KindOK, LoggersOK, Loggers, reader, sinks, setup
<1>10. CASE DoneCancelled
  BY <1>10, TransferAssumption
    DEF DoneCancelled, IInv, PlacesOK, KindOK, LoggersOK, Loggers, reader, sinks, setup
<1>11. CASE Close
  BY <1>11, TransferAssumption
    DEF Close, IInv, PlacesOK, KindOK, LoggersOK, Loggers, sinks, setup
<1>12. CASE LoggerWait
  BY <1>12, TransferAssumption
    DEF LoggerWait, IInv, PlacesOK, KindOK, LoggersOK, Loggers, reader, sinks, setup
<1>13. CASE NextFile
  BY <1>13, TransferAssumption
    DEF NextFile, IInv, PlacesOK, KindOK, LoggersOK, Loggers, reader, sinks, setup
<1>14. CASE StopUpdater
  BY <1>14, TransferAssumption
    DEF StopUpdater, IInv, PlacesOK, KindOK, LoggersOK, Loggers, reader, sinks, setup
<1>15. CASE Return
  BY <1>15, TransferAssumption
    DEF Return, IInv, PlacesOK, KindOK, LoggersOK, Loggers, reader, sinks, setup
<1>16. CASE CancelContext
  BY <1>16, TransferAssumption
    DEF CancelContext, IInv, PlacesOK, KindOK, LoggersOK, Loggers, main, reader, sinks,
        setup
<1>17. CASE UpdaterStep
  BY <1>17, TransferAssumption
    DEF UpdaterStep, Tick, HttpNfcLeaseProgress, UpdaterDone, IInv, PlacesOK, KindOK,
        LoggersOK, Loggers, main, reader, sinks, setup
<1>18. ASSUME NEW f \in Files, ReadChunk(f) PROVE LoggersOK'
  BY <1>18, TransferAssumption
    DEF ReadChunk, IInv, PlacesOK, KindOK, LoggersOK, Loggers, main, reader, sinks, setup
<1>19. ASSUME NEW f \in Files, SendReport(f) PROVE LoggersOK'
  BY <1>19, TransferAssumption
    DEF SendReport, AfterRead, IInv, PlacesOK, KindOK, LoggersOK, Loggers, main, reader,
        sinks, setup
<1>20. ASSUME NEW f \in Files, SendOnClosed(f) PROVE LoggersOK'
  BY <1>20, TransferAssumption
    DEF SendOnClosed, IInv, PlacesOK, KindOK, LoggersOK, Loggers, main, reader, sinks, setup
<1>21. ASSUME NEW f \in Files, TransportStops(f) PROVE LoggersOK'
  BY <1>21, TransferAssumption
    DEF TransportStops, IInv, PlacesOK, KindOK, LoggersOK, Loggers, main, reader, sinks,
        setup
<1>22. ASSUME NEW f \in Files, TeeFirst(f) PROVE LoggersOK'
  BY <1>22, TransferAssumption
    DEF TeeFirst, IInv, PlacesOK, KindOK, LoggersOK, Loggers, main, reader, sinks, setup
<1>23. ASSUME NEW f \in Files, TeeSecond(f) PROVE LoggersOK'
  BY <1>23, TransferAssumption
    DEF TeeSecond, IInv, PlacesOK, KindOK, LoggersOK, Loggers, main, reader, sinks, setup
<1>24. ASSUME NEW f \in Files, TeeEnd(f) PROVE LoggersOK'
  BY <1>24, TransferAssumption
    DEF TeeEnd, IInv, PlacesOK, KindOK, LoggersOK, Loggers, main, reader, sinks, setup
<1>25. ASSUME NEW f \in Files, LoggerEnd(f) PROVE LoggersOK'
  BY <1>25, TransferAssumption
    DEF LoggerEnd, IInv, PlacesOK, KindOK, LoggersOK, Loggers, ClosedOK, main, reader,
        sinks, setup
<1>26. ASSUME NEW f \in Files, LoggerDone(f) PROVE LoggersOK'
  BY <1>26, TransferAssumption
    DEF LoggerDone, IInv, PlacesOK, KindOK, LoggersOK, Loggers, main, reader, sinks, setup
<1>27. ASSUME NEW f \in Files, ItemClosed(f) PROVE LoggersOK'
  BY <1>27, TransferAssumption
    DEF ItemClosed, IInv, PlacesOK, KindOK, LoggersOK, Loggers, main, reader, sinks, setup
<1>28. ASSUME NEW f \in Files, ItemDone(f) PROVE LoggersOK'
  BY <1>28, TransferAssumption
    DEF ItemDone, IInv, PlacesOK, KindOK, LoggersOK, Loggers, main, reader, sinks, setup
<1>29. CASE UNCHANGED vars
  BY <1>29, TransferAssumption
    DEF IInv, PlacesOK, KindOK, LoggersOK, Loggers, vars, main, reader, sinks, setup
<1> QED
  BY <1>1, <1>2, <1>3, <1>4, <1>5, <1>6, <1>7, <1>8, <1>9, <1>10, <1>11, <1>12, <1>13, <1>14,
     <1>15, <1>16, <1>17, <1>18, <1>19, <1>20, <1>21, <1>22, <1>23, <1>24, <1>25, <1>26, <1>27,
     <1>28, <1>29
    DEF Next, MainStep, TransportStep, TeeStep, SinkStep

(* Main waits for the updater. *)
LEMMA UpdaterInvStep == IInv /\ [Next]_vars => UpdaterOK'
<1> SUFFICES ASSUME IInv, [Next]_vars PROVE UpdaterOK'
  OBVIOUS
<1>1. CASE Start
  BY <1>1 DEF Start, IInv, PlacesOK, KindOK, UpdaterOK, reader, sinks, setup
<1>2. CASE WaitForResult
  BY <1>2 DEF WaitForResult, IInv, PlacesOK, KindOK, UpdaterOK, reader, sinks, setup
<1>3. CASE TaskEnd
  BY <1>3 DEF TaskEnd, IInv, PlacesOK, KindOK, UpdaterOK, reader, sinks, setup
<1>4. CASE TaskLost
  BY <1>4 DEF TaskLost, IInv, PlacesOK, KindOK, UpdaterOK, reader, sinks, setup
<1>5. CASE Open
  BY <1>5 DEF Open, IInv, PlacesOK, KindOK, UpdaterOK, reader, sinks, setup
<1>6. CASE OpenFails
  BY <1>6 DEF OpenFails, IInv, PlacesOK, KindOK, UpdaterOK, reader, sinks, setup
<1>7. CASE NewReader
  BY <1>7 DEF NewReader, IInv, PlacesOK, KindOK, UpdaterOK, setup
<1>8. CASE Do
  BY <1>8 DEF Do, IInv, PlacesOK, KindOK, UpdaterOK, reader, sinks, setup
<1>9. CASE Done
  BY <1>9 DEF Done, IInv, PlacesOK, KindOK, UpdaterOK, reader, sinks, setup
<1>10. CASE DoneCancelled
  BY <1>10 DEF DoneCancelled, IInv, PlacesOK, KindOK, UpdaterOK, reader, sinks, setup
<1>11. CASE Close
  BY <1>11 DEF Close, IInv, PlacesOK, KindOK, UpdaterOK, sinks, setup
<1>12. CASE LoggerWait
  BY <1>12 DEF LoggerWait, IInv, PlacesOK, KindOK, UpdaterOK, reader, sinks, setup
<1>13. CASE NextFile
  BY <1>13 DEF NextFile, IInv, PlacesOK, KindOK, UpdaterOK, reader, sinks, setup
<1>14. CASE StopUpdater
  BY <1>14 DEF StopUpdater, IInv, PlacesOK, KindOK, UpdaterOK, reader, sinks, setup
<1>15. CASE Return
  BY <1>15 DEF Return, IInv, PlacesOK, KindOK, UpdaterOK, reader, sinks, setup
<1>16. CASE CancelContext
  BY <1>16 DEF CancelContext, IInv, PlacesOK, KindOK, UpdaterOK, main, reader, sinks, setup
<1>17. CASE UpdaterStep
  BY <1>17
    DEF UpdaterStep, Tick, HttpNfcLeaseProgress, UpdaterDone, IInv, PlacesOK, KindOK,
        UpdaterOK, main, reader, sinks, setup
<1>18. ASSUME NEW f \in Files, ReadChunk(f) PROVE UpdaterOK'
  BY <1>18 DEF ReadChunk, IInv, PlacesOK, KindOK, UpdaterOK, main, reader, sinks, setup
<1>19. ASSUME NEW f \in Files, SendReport(f) PROVE UpdaterOK'
  BY <1>19
    DEF SendReport, AfterRead, IInv, PlacesOK, KindOK, UpdaterOK, main, reader, sinks, setup
<1>20. ASSUME NEW f \in Files, SendOnClosed(f) PROVE UpdaterOK'
  BY <1>20 DEF SendOnClosed, IInv, PlacesOK, KindOK, UpdaterOK, main, reader, sinks, setup
<1>21. ASSUME NEW f \in Files, TransportStops(f) PROVE UpdaterOK'
  BY <1>21 DEF TransportStops, IInv, PlacesOK, KindOK, UpdaterOK, main, reader, sinks, setup
<1>22. ASSUME NEW f \in Files, TeeFirst(f) PROVE UpdaterOK'
  BY <1>22 DEF TeeFirst, IInv, PlacesOK, KindOK, UpdaterOK, main, reader, sinks, setup
<1>23. ASSUME NEW f \in Files, TeeSecond(f) PROVE UpdaterOK'
  BY <1>23 DEF TeeSecond, IInv, PlacesOK, KindOK, UpdaterOK, main, reader, sinks, setup
<1>24. ASSUME NEW f \in Files, TeeEnd(f) PROVE UpdaterOK'
  BY <1>24 DEF TeeEnd, IInv, PlacesOK, KindOK, UpdaterOK, main, reader, sinks, setup
<1>25. ASSUME NEW f \in Files, LoggerEnd(f) PROVE UpdaterOK'
  BY <1>25 DEF LoggerEnd, IInv, PlacesOK, KindOK, UpdaterOK, main, reader, sinks, setup
<1>26. ASSUME NEW f \in Files, LoggerDone(f) PROVE UpdaterOK'
  BY <1>26 DEF LoggerDone, IInv, PlacesOK, KindOK, UpdaterOK, main, reader, sinks, setup
<1>27. ASSUME NEW f \in Files, ItemClosed(f) PROVE UpdaterOK'
  BY <1>27 DEF ItemClosed, IInv, PlacesOK, KindOK, UpdaterOK, main, reader, sinks, setup
<1>28. ASSUME NEW f \in Files, ItemDone(f) PROVE UpdaterOK'
  BY <1>28 DEF ItemDone, IInv, PlacesOK, KindOK, UpdaterOK, main, reader, sinks, setup
<1>29. CASE UNCHANGED vars
  BY <1>29 DEF IInv, PlacesOK, KindOK, UpdaterOK, vars, main, reader, sinks, setup
<1> QED
  BY <1>1, <1>2, <1>3, <1>4, <1>5, <1>6, <1>7, <1>8, <1>9, <1>10, <1>11, <1>12, <1>13, <1>14,
     <1>15, <1>16, <1>17, <1>18, <1>19, <1>20, <1>21, <1>22, <1>23, <1>24, <1>25, <1>26, <1>27,
     <1>28, <1>29
    DEF Next, MainStep, TransportStep, TeeStep, SinkStep

(* The last report stays the last, from the tee to the logger. *)
LEMMA ReportsStep == IInv /\ [Next]_vars => ReportsOK'
<1> SUFFICES ASSUME IInv, [Next]_vars PROVE ReportsOK'
  OBVIOUS
<1>1. CASE Start
  <2>0. cur \in Files /\ cur \in Int /\ cur' = cur /\ MainStep
    <3>1. cur \in Files /\ cur \in Int
      BY TransferAssumption DEF IInv, PlacesOK, Files
    <3>2. cur' = cur
      BY <1>1 DEF Start
    <3>3. MainStep
      BY <1>1 DEF MainStep
    <3> QED
      BY <3>1, <3>2, <3>3
  <2> SUFFICES ASSUME NEW g \in Files PROVE ReportOK(g)'
    BY <1>1, <2>0 DEF Start, IInv, PlacesOK, ReportsOK
  <2>1. CASE g = cur
    <3>1. ~LastSent(g)'
      BY <1>1, <2>0, <2>1 DEF Start, IInv, ClosedOK, LastSent, Files, reader
    <3> QED
      BY <3>1 DEF ReportOK
  <2>2. CASE g # cur
    <3>1. /\ LastSent(g)' <=> LastSent(g)
          /\ UNCHANGED <<sink, lost>>
      BY <1>1, <2>0, <2>2, MainElsewhere DEF Start, LastSent, setup
    <3> QED
      BY <2>0, <2>2, <3>1, MainElsewhere DEF IInv, ReportsOK, ReportOK
  <2> QED
    BY <2>1, <2>2
<1>2. CASE WaitForResult
  <2>0. cur \in Files /\ cur \in Int /\ cur' = cur /\ MainStep
    <3>1. cur \in Files /\ cur \in Int
      BY TransferAssumption DEF IInv, PlacesOK, Files
    <3>2. cur' = cur
      BY <1>2 DEF WaitForResult
    <3>3. MainStep
      BY <1>2 DEF MainStep
    <3> QED
      BY <3>1, <3>2, <3>3
  <2> SUFFICES ASSUME NEW g \in Files PROVE ReportOK(g)'
    BY <1>2, <2>0 DEF WaitForResult, IInv, PlacesOK, ReportsOK
  <2>1. CASE g = cur
    <3>1. ~LastSent(g)'
      BY <1>2, <2>0, <2>1 DEF WaitForResult, IInv, ClosedOK, LastSent, Files, reader
    <3> QED
      BY <3>1 DEF ReportOK
  <2>2. CASE g # cur
    <3>1. /\ LastSent(g)' <=> LastSent(g)
          /\ UNCHANGED <<sink, lost>>
      BY <1>2, <2>0, <2>2, MainElsewhere DEF WaitForResult, LastSent, setup
    <3> QED
      BY <2>0, <2>2, <3>1, MainElsewhere DEF IInv, ReportsOK, ReportOK
  <2> QED
    BY <2>1, <2>2
<1>3. CASE TaskEnd
  <2>0. cur \in Files /\ cur \in Int /\ cur' = cur /\ MainStep
    <3>1. cur \in Files /\ cur \in Int
      BY TransferAssumption DEF IInv, PlacesOK, Files
    <3>2. cur' = cur
      BY <1>3 DEF TaskEnd
    <3>3. MainStep
      BY <1>3 DEF MainStep
    <3> QED
      BY <3>1, <3>2, <3>3
  <2> SUFFICES ASSUME NEW g \in Files PROVE ReportOK(g)'
    BY <1>3, <2>0 DEF TaskEnd, IInv, PlacesOK, ReportsOK
  <2>1. CASE g = cur
    <3>1. PICK e \in BOOLEAN, o \in {"ok", "failed"} :
            /\ e <=> o = "failed"
            /\ outcome' = [outcome EXCEPT ![cur] = o]
            /\ logger' = [logger EXCEPT ![cur] = [logger[cur] EXCEPT !.err = e]]
      BY <1>3, TaskEndEffect
    <3>2. outcome'[cur] = o /\ logger'[cur] = [logger[cur] EXCEPT !.err = e]
      BY <3>1 DEF IInv, PlacesOK
    <3>3. logger'[cur].err = e
      BY <3>2 DEF IInv, PlacesOK, Loggers
    <3>4. tee'[cur].at = "none"
      BY <1>3, TaskEndEffect DEF IInv, PlacesOK, KindOK
    <3> QED
      BY <2>1, <3>1, <3>2, <3>3, <3>4 DEF ReportOK
  <2>2. CASE g # cur
    <3>1. /\ LastSent(g)' <=> LastSent(g)
          /\ UNCHANGED <<sink, lost>>
      BY <1>3, <2>0, <2>2, MainElsewhere DEF TaskEnd, LastSent, setup
    <3> QED
      BY <2>0, <2>2, <3>1, MainElsewhere DEF IInv, ReportsOK, ReportOK
  <2> QED
    BY <2>1, <2>2
<1>4. CASE TaskLost
  BY <1>4
    DEF TaskLost, IInv, PlacesOK, KindOK, TransportOK, ClosedOK, LoggersOK, ReportsOK,
        ReportOK, LastSent, reader, sinks, setup
<1>5. CASE Open
  <2>0. cur \in Files /\ cur \in Int /\ cur' = cur /\ MainStep
    <3>1. cur \in Files /\ cur \in Int
      BY TransferAssumption DEF IInv, PlacesOK, Files
    <3>2. cur' = cur
      BY <1>5 DEF Open
    <3>3. MainStep
      BY <1>5 DEF MainStep
    <3> QED
      BY <3>1, <3>2, <3>3
  <2> SUFFICES ASSUME NEW g \in Files PROVE ReportOK(g)'
    BY <1>5, <2>0 DEF Open, IInv, PlacesOK, ReportsOK
  <2>1. CASE g = cur
    <3>1. ~LastSent(g)'
      BY <1>5, <2>0, <2>1 DEF Open, IInv, ClosedOK, LastSent, Files, reader
    <3> QED
      BY <3>1 DEF ReportOK
  <2>2. CASE g # cur
    <3>1. /\ LastSent(g)' <=> LastSent(g)
          /\ UNCHANGED <<sink, lost>>
      BY <1>5, <2>0, <2>2, MainElsewhere DEF Open, LastSent, setup
    <3> QED
      BY <2>0, <2>2, <3>1, MainElsewhere DEF IInv, ReportsOK, ReportOK
  <2> QED
    BY <2>1, <2>2
<1>6. CASE OpenFails
  <2>0. cur \in Files /\ cur \in Int /\ cur' = cur /\ MainStep
    <3>1. cur \in Files /\ cur \in Int
      BY TransferAssumption DEF IInv, PlacesOK, Files
    <3>2. cur' = cur
      BY <1>6 DEF OpenFails
    <3>3. MainStep
      BY <1>6 DEF MainStep
    <3> QED
      BY <3>1, <3>2, <3>3
  <2> SUFFICES ASSUME NEW g \in Files PROVE ReportOK(g)'
    BY <1>6, <2>0 DEF OpenFails, IInv, PlacesOK, ReportsOK
  <2>1. CASE g = cur
    <3>1. ~LastSent(g)'
      BY <1>6, <2>0, <2>1 DEF OpenFails, IInv, ClosedOK, LastSent, Files, reader
    <3> QED
      BY <3>1 DEF ReportOK
  <2>2. CASE g # cur
    <3>1. /\ LastSent(g)' <=> LastSent(g)
          /\ UNCHANGED <<sink, lost>>
      BY <1>6, <2>0, <2>2, MainElsewhere DEF OpenFails, LastSent, setup
    <3> QED
      BY <2>0, <2>2, <3>1, MainElsewhere DEF IInv, ReportsOK, ReportOK
  <2> QED
    BY <2>1, <2>2
<1>7. CASE NewReader
  <2>0. cur \in Files /\ cur \in Int /\ cur' = cur /\ MainStep
    <3>1. cur \in Files /\ cur \in Int
      BY TransferAssumption DEF IInv, PlacesOK, Files
    <3>2. cur' = cur
      BY <1>7 DEF NewReader
    <3>3. MainStep
      BY <1>7 DEF MainStep
    <3> QED
      BY <3>1, <3>2, <3>3
  <2> SUFFICES ASSUME NEW g \in Files PROVE ReportOK(g)'
    BY <1>7, <2>0 DEF NewReader, IInv, PlacesOK, ReportsOK
  <2>1. CASE g = cur
    <3>1. ~LastSent(g)'
      BY <1>7, <2>0, <2>1 DEF NewReader, IInv, ClosedOK, LastSent, Files, reader
    <3> QED
      BY <3>1 DEF ReportOK
  <2>2. CASE g # cur
    <3>1. /\ LastSent(g)' <=> LastSent(g)
          /\ UNCHANGED <<sink, lost>>
      BY <1>7, <2>0, <2>2, MainElsewhere DEF NewReader, LastSent, setup
    <3> QED
      BY <2>0, <2>2, <3>1, MainElsewhere DEF IInv, ReportsOK, ReportOK
  <2> QED
    BY <2>1, <2>2
<1>8. CASE Do
  <2>0. cur \in Files /\ cur \in Int /\ cur' = cur /\ MainStep
    <3>1. cur \in Files /\ cur \in Int
      BY TransferAssumption DEF IInv, PlacesOK, Files
    <3>2. cur' = cur
      BY <1>8 DEF Do
    <3>3. MainStep
      BY <1>8 DEF MainStep
    <3> QED
      BY <3>1, <3>2, <3>3
  <2> SUFFICES ASSUME NEW g \in Files PROVE ReportOK(g)'
    BY <1>8, <2>0 DEF Do, IInv, PlacesOK, ReportsOK
  <2>1. CASE g = cur
    <3>1. ~LastSent(g)'
      BY <1>8, <2>0, <2>1 DEF Do, IInv, ClosedOK, LastSent, Files, reader
    <3> QED
      BY <3>1 DEF ReportOK
  <2>2. CASE g # cur
    <3>1. /\ LastSent(g)' <=> LastSent(g)
          /\ UNCHANGED <<sink, lost>>
      BY <1>8, <2>0, <2>2, MainElsewhere DEF Do, LastSent, setup
    <3> QED
      BY <2>0, <2>2, <3>1, MainElsewhere DEF IInv, ReportsOK, ReportOK
  <2> QED
    BY <2>1, <2>2
<1>9. CASE Done
  <2>0. cur \in Files /\ cur \in Int /\ cur' = cur /\ MainStep
    <3>1. cur \in Files /\ cur \in Int
      BY TransferAssumption DEF IInv, PlacesOK, Files
    <3>2. cur' = cur
      BY <1>9 DEF Done
    <3>3. MainStep
      BY <1>9 DEF MainStep
    <3> QED
      BY <3>1, <3>2, <3>3
  <2> SUFFICES ASSUME NEW g \in Files PROVE ReportOK(g)'
    BY <1>9, <2>0 DEF Done, IInv, PlacesOK, ReportsOK
  <2>1. CASE g = cur
    <3>1. PICK t \in Tees : /\ t.at = "d1" /\ (t.r.err <=> outcome[cur] = "failed")
                            /\ tee' = [tee EXCEPT ![cur] = t]
      BY <1>9, DoneEffect
    <3>2. tee'[cur] = t /\ outcome' = outcome /\ outcome[cur] # "none"
      BY <1>9, <3>1 DEF Done, IInv, PlacesOK, ReportsOK
    <3> QED
      BY <2>1, <3>1, <3>2 DEF ReportOK
  <2>2. CASE g # cur
    <3>1. /\ LastSent(g)' <=> LastSent(g)
          /\ UNCHANGED <<sink, lost>>
      BY <1>9, <2>0, <2>2, MainElsewhere DEF Done, LastSent, setup
    <3> QED
      BY <2>0, <2>2, <3>1, MainElsewhere DEF IInv, ReportsOK, ReportOK
  <2> QED
    BY <2>1, <2>2
<1>10. CASE DoneCancelled
  BY <1>10
    DEF DoneCancelled, IInv, PlacesOK, KindOK, TransportOK, ClosedOK, LoggersOK, ReportsOK,
        ReportOK, LastSent, reader, sinks, setup
<1>11. CASE Close
  BY <1>11
    DEF Close, IInv, PlacesOK, KindOK, TransportOK, ClosedOK, LoggersOK, ReportsOK,
        ReportOK, LastSent, sinks, setup
<1>12. CASE LoggerWait
  BY <1>12
    DEF LoggerWait, IInv, PlacesOK, KindOK, TransportOK, ClosedOK, LoggersOK, ReportsOK,
        ReportOK, LastSent, reader, sinks, setup
<1>13. CASE NextFile
  BY <1>13
    DEF NextFile, IInv, PlacesOK, KindOK, TransportOK, ClosedOK, LoggersOK, ReportsOK,
        ReportOK, LastSent, reader, sinks, setup
<1>14. CASE StopUpdater
  BY <1>14
    DEF StopUpdater, IInv, PlacesOK, KindOK, TransportOK, ClosedOK, LoggersOK, ReportsOK,
        ReportOK, LastSent, reader, sinks, setup
<1>15. CASE Return
  BY <1>15
    DEF Return, IInv, PlacesOK, KindOK, TransportOK, ClosedOK, LoggersOK, ReportsOK,
        ReportOK, LastSent, reader, sinks, setup
<1>16. CASE CancelContext
  BY <1>16
    DEF CancelContext, IInv, PlacesOK, KindOK, TransportOK, ClosedOK, LoggersOK, ReportsOK,
        ReportOK, LastSent, main, reader, sinks, setup
<1>17. CASE UpdaterStep
  BY <1>17
    DEF UpdaterStep, Tick, HttpNfcLeaseProgress, UpdaterDone, IInv, PlacesOK, KindOK,
        TransportOK, ClosedOK, LoggersOK, ReportsOK, ReportOK, LastSent, main, reader,
        sinks, setup
<1>18. ASSUME NEW f \in Files, ReadChunk(f) PROVE ReportsOK'
  BY <1>18
    DEF ReadChunk, IInv, PlacesOK, KindOK, TransportOK, ClosedOK, LoggersOK, ReportsOK,
        ReportOK, LastSent, main, reader, sinks, setup
<1>19. ASSUME NEW f \in Files, SendReport(f) PROVE ReportsOK'
  <2>0. /\ UNCHANGED <<mpc, cur, outcome, late, lost, closed, sink>>
        /\ \A g \in Files : LastSent(g)' <=> LastSent(g)
    BY <1>19 DEF SendReport, LastSent, main, reader, setup
  <2> SUFFICES ASSUME NEW g \in Files PROVE ReportOK(g)'
    BY <2>0 DEF IInv, ReportsOK
  <2>1. ReportOK(g)
    BY DEF IInv, ReportsOK
  <2>2. CASE g \in late \/ ~LastSent(g)
    BY <2>0, <2>1, <2>2 DEF ReportOK
  <2>3. CASE g \notin late /\ LastSent(g)
    <3>1. g # f
      BY <1>19, <2>3, TransferAssumption
        DEF SendReport, IInv, PlacesOK, TransportOK, ClosedOK, Active, LastSent, Files
    <3>2. tee'[g] = tee[g] /\ logger'[g] = logger[g]
      BY <1>19, <3>1, SendEffect DEF SendReport, IInv, PlacesOK
    <3> QED
      BY <2>0, <2>1, <3>2 DEF ReportOK
  <2> QED
    BY <2>2, <2>3
<1>20. ASSUME NEW f \in Files, SendOnClosed(f) PROVE ReportsOK'
  BY <1>20
    DEF SendOnClosed, IInv, PlacesOK, KindOK, TransportOK, ClosedOK, LoggersOK, ReportsOK,
        ReportOK, LastSent, main, reader, sinks, setup
<1>21. ASSUME NEW f \in Files, TransportStops(f) PROVE ReportsOK'
  BY <1>21
    DEF TransportStops, IInv, PlacesOK, KindOK, TransportOK, ClosedOK, LoggersOK, ReportsOK,
        ReportOK, LastSent, main, reader, sinks, setup
<1>22. ASSUME NEW f \in Files, TeeFirst(f) PROVE ReportsOK'
  <2>0. /\ UNCHANGED <<mpc, cur, outcome, late, lost, closed, sink>>
        /\ \A g \in Files : LastSent(g)' <=> LastSent(g)
    BY <1>22 DEF TeeFirst, LastSent, main, reader, setup
  <2> SUFFICES ASSUME NEW g \in Files PROVE ReportOK(g)'
    BY <2>0 DEF IInv, ReportsOK
  <2>1. ReportOK(g)
    BY DEF IInv, ReportsOK
  <2>2. CASE g = f
    <3>1. /\ tee[g].at = "d1" /\ tee'[g].at = "d2" /\ tee'[g].r = tee[g].r
      BY <1>22, <2>2, TeeEffect
    <3>2. sink = "logger" => logger'[g].err = tee[g].r.err
      BY <1>22, <2>2 DEF TeeFirst, IInv, PlacesOK, Loggers
    <3>3. sink = "logger" /\ LastSent(g) /\ g \notin late =>
            (logger'[g].err <=> outcome[g] = "failed")
      BY <2>1, <3>1, <3>2 DEF ReportOK
    <3>4. outcome[g] \in {"none", "ok", "failed"}
      BY DEF IInv, PlacesOK
    <3> QED
      BY <2>0, <2>1, <3>1, <3>3, <3>4 DEF ReportOK
  <2>3. CASE g # f
    <3>1. tee'[g] = tee[g] /\ logger'[g] = logger[g]
      BY <1>22, <2>3, TeeEffect DEF TeeFirst, IInv, PlacesOK
    <3> QED
      BY <2>0, <2>1, <3>1 DEF ReportOK
  <2> QED
    BY <2>2, <2>3
<1>23. ASSUME NEW f \in Files, TeeSecond(f) PROVE ReportsOK'
  <2>0. /\ UNCHANGED <<mpc, cur, outcome, late, lost, closed, sink>>
        /\ \A g \in Files : LastSent(g)' <=> LastSent(g)
    BY <1>23 DEF TeeSecond, LastSent, main, reader, setup
  <2> SUFFICES ASSUME NEW g \in Files PROVE ReportOK(g)'
    BY <2>0 DEF IInv, ReportsOK
  <2>1. ReportOK(g)
    BY DEF IInv, ReportsOK
  <2>2. logger' = logger /\ (tee'[g].at = "d1" <=> tee[g].at = "d1")
                       /\ (tee[g].at = "d1" => tee'[g] = tee[g])
    BY <1>23, TeeEffect DEF TeeSecond
  <2> QED
    BY <2>0, <2>1, <2>2 DEF ReportOK
<1>24. ASSUME NEW f \in Files, TeeEnd(f) PROVE ReportsOK'
  <2>0. /\ UNCHANGED <<mpc, cur, outcome, late, lost, closed, sink>>
        /\ \A g \in Files : LastSent(g)' <=> LastSent(g)
    BY <1>24 DEF TeeEnd, LastSent, main, reader, setup
  <2> SUFFICES ASSUME NEW g \in Files PROVE ReportOK(g)'
    BY <2>0 DEF IInv, ReportsOK
  <2>1. ReportOK(g)
    BY DEF IInv, ReportsOK
  <2>2. logger' = logger /\ (tee'[g].at = "d1" <=> tee[g].at = "d1")
                       /\ (tee[g].at = "d1" => tee'[g] = tee[g])
    BY <1>24, TeeEffect DEF TeeEnd
  <2> QED
    BY <2>0, <2>1, <2>2 DEF ReportOK
<1>25. ASSUME NEW f \in Files, LoggerEnd(f) PROVE ReportsOK'
  BY <1>25
    DEF LoggerEnd, IInv, PlacesOK, KindOK, TransportOK, ClosedOK, LoggersOK, ReportsOK,
        ReportOK, LastSent, main, reader, sinks, setup
<1>26. ASSUME NEW f \in Files, LoggerDone(f) PROVE ReportsOK'
  BY <1>26
    DEF LoggerDone, IInv, PlacesOK, KindOK, TransportOK, ClosedOK, LoggersOK, ReportsOK,
        ReportOK, LastSent, main, reader, sinks, setup
<1>27. ASSUME NEW f \in Files, ItemClosed(f) PROVE ReportsOK'
  BY <1>27
    DEF ItemClosed, IInv, PlacesOK, KindOK, TransportOK, ClosedOK, LoggersOK, ReportsOK,
        ReportOK, LastSent, main, reader, sinks, setup
<1>28. ASSUME NEW f \in Files, ItemDone(f) PROVE ReportsOK'
  BY <1>28
    DEF ItemDone, IInv, PlacesOK, KindOK, TransportOK, ClosedOK, LoggersOK, ReportsOK,
        ReportOK, LastSent, main, reader, sinks, setup
<1>29. CASE UNCHANGED vars
  BY <1>29
    DEF IInv, PlacesOK, KindOK, TransportOK, ClosedOK, LoggersOK, ReportsOK, ReportOK,
        LastSent, vars, main, reader, sinks, setup
<1> QED
  BY <1>1, <1>2, <1>3, <1>4, <1>5, <1>6, <1>7, <1>8, <1>9, <1>10, <1>11, <1>12, <1>13, <1>14,
     <1>15, <1>16, <1>17, <1>18, <1>19, <1>20, <1>21, <1>22, <1>23, <1>24, <1>25, <1>26, <1>27,
     <1>28, <1>29
    DEF Next, MainStep, TransportStep, TeeStep, SinkStep

(* What a logger has said stays true: main is done with the file. *)
LEMMA TruthfulStep == IInv /\ [Next]_vars => Truthful'
<1> SUFFICES ASSUME IInv, [Next]_vars PROVE Truthful'
  OBVIOUS
<1>1. CASE Start
  <2>0. cur \in Files /\ cur \in Int /\ cur' = cur /\ MainStep
    <3>1. cur \in Files /\ cur \in Int
      BY TransferAssumption DEF IInv, PlacesOK, Files
    <3>2. cur' = cur
      BY <1>1 DEF Start
    <3>3. MainStep
      BY <1>1 DEF MainStep
    <3> QED
      BY <3>1, <3>2, <3>3
  <2>1. cur \notin closed /\ closed' = closed /\ lost' = lost
    BY <1>1, <2>0 DEF Start, IInv, ClosedOK, reader
  <2> SUFFICES ASSUME NEW g \in Files \ late'
               PROVE  /\ logger'[g].said = "OK" => outcome'[g] = "ok" \/ lost'
                      /\ logger'[g].said = "Error" => outcome'[g] = "failed"
    BY DEF Truthful
  <2>2. CASE g = cur
    <3>1. logger'[g].said = "nothing"
      BY <2>1, <2>2, LoggersStep DEF LoggersOK
    <3> QED
      BY <3>1
  <2>3. CASE g # cur
    BY <2>0, <2>1, <2>3, MainElsewhere DEF IInv, Truthful
  <2> QED
    BY <2>2, <2>3
<1>2. CASE WaitForResult
  <2>0. cur \in Files /\ cur \in Int /\ cur' = cur /\ MainStep
    <3>1. cur \in Files /\ cur \in Int
      BY TransferAssumption DEF IInv, PlacesOK, Files
    <3>2. cur' = cur
      BY <1>2 DEF WaitForResult
    <3>3. MainStep
      BY <1>2 DEF MainStep
    <3> QED
      BY <3>1, <3>2, <3>3
  <2>1. cur \notin closed /\ closed' = closed /\ lost' = lost
    BY <1>2, <2>0 DEF WaitForResult, IInv, ClosedOK, reader
  <2> SUFFICES ASSUME NEW g \in Files \ late'
               PROVE  /\ logger'[g].said = "OK" => outcome'[g] = "ok" \/ lost'
                      /\ logger'[g].said = "Error" => outcome'[g] = "failed"
    BY DEF Truthful
  <2>2. CASE g = cur
    <3>1. logger'[g].said = "nothing"
      BY <2>1, <2>2, LoggersStep DEF LoggersOK
    <3> QED
      BY <3>1
  <2>3. CASE g # cur
    BY <2>0, <2>1, <2>3, MainElsewhere DEF IInv, Truthful
  <2> QED
    BY <2>2, <2>3
<1>3. CASE TaskEnd
  <2>0. cur \in Files /\ cur \in Int /\ cur' = cur /\ MainStep
    <3>1. cur \in Files /\ cur \in Int
      BY TransferAssumption DEF IInv, PlacesOK, Files
    <3>2. cur' = cur
      BY <1>3 DEF TaskEnd
    <3>3. MainStep
      BY <1>3 DEF MainStep
    <3> QED
      BY <3>1, <3>2, <3>3
  <2>1. cur \notin closed /\ closed' = closed /\ lost' = lost
    BY <1>3, <2>0 DEF TaskEnd, IInv, ClosedOK, reader
  <2> SUFFICES ASSUME NEW g \in Files \ late'
               PROVE  /\ logger'[g].said = "OK" => outcome'[g] = "ok" \/ lost'
                      /\ logger'[g].said = "Error" => outcome'[g] = "failed"
    BY DEF Truthful
  <2>2. CASE g = cur
    <3>1. logger'[g].said = "nothing"
      BY <2>1, <2>2, LoggersStep DEF LoggersOK
    <3> QED
      BY <3>1
  <2>3. CASE g # cur
    BY <2>0, <2>1, <2>3, MainElsewhere DEF IInv, Truthful
  <2> QED
    BY <2>2, <2>3
<1>4. CASE TaskLost
  BY <1>4
    DEF TaskLost, IInv, PlacesOK, KindOK, TransportOK, ClosedOK, LoggersOK, LastSent,
        Truthful, reader, sinks, setup
<1>5. CASE Open
  <2>0. cur \in Files /\ cur \in Int /\ cur' = cur /\ MainStep
    <3>1. cur \in Files /\ cur \in Int
      BY TransferAssumption DEF IInv, PlacesOK, Files
    <3>2. cur' = cur
      BY <1>5 DEF Open
    <3>3. MainStep
      BY <1>5 DEF MainStep
    <3> QED
      BY <3>1, <3>2, <3>3
  <2>1. cur \notin closed /\ closed' = closed /\ lost' = lost
    BY <1>5, <2>0 DEF Open, IInv, ClosedOK, reader
  <2> SUFFICES ASSUME NEW g \in Files \ late'
               PROVE  /\ logger'[g].said = "OK" => outcome'[g] = "ok" \/ lost'
                      /\ logger'[g].said = "Error" => outcome'[g] = "failed"
    BY DEF Truthful
  <2>2. CASE g = cur
    <3>1. logger'[g].said = "nothing"
      BY <2>1, <2>2, LoggersStep DEF LoggersOK
    <3> QED
      BY <3>1
  <2>3. CASE g # cur
    BY <2>0, <2>1, <2>3, MainElsewhere DEF IInv, Truthful
  <2> QED
    BY <2>2, <2>3
<1>6. CASE OpenFails
  <2>0. cur \in Files /\ cur \in Int /\ cur' = cur /\ MainStep
    <3>1. cur \in Files /\ cur \in Int
      BY TransferAssumption DEF IInv, PlacesOK, Files
    <3>2. cur' = cur
      BY <1>6 DEF OpenFails
    <3>3. MainStep
      BY <1>6 DEF MainStep
    <3> QED
      BY <3>1, <3>2, <3>3
  <2>1. cur \notin closed /\ closed' = closed /\ lost' = lost
    BY <1>6, <2>0 DEF OpenFails, IInv, ClosedOK, reader
  <2> SUFFICES ASSUME NEW g \in Files \ late'
               PROVE  /\ logger'[g].said = "OK" => outcome'[g] = "ok" \/ lost'
                      /\ logger'[g].said = "Error" => outcome'[g] = "failed"
    BY DEF Truthful
  <2>2. CASE g = cur
    <3>1. logger'[g].said = "nothing"
      BY <2>1, <2>2, LoggersStep DEF LoggersOK
    <3> QED
      BY <3>1
  <2>3. CASE g # cur
    BY <2>0, <2>1, <2>3, MainElsewhere DEF IInv, Truthful
  <2> QED
    BY <2>2, <2>3
<1>7. CASE NewReader
  BY <1>7
    DEF NewReader, IInv, PlacesOK, KindOK, TransportOK, ClosedOK, LoggersOK, LastSent,
        Truthful, setup
<1>8. CASE Do
  <2>0. cur \in Files /\ cur \in Int /\ cur' = cur /\ MainStep
    <3>1. cur \in Files /\ cur \in Int
      BY TransferAssumption DEF IInv, PlacesOK, Files
    <3>2. cur' = cur
      BY <1>8 DEF Do
    <3>3. MainStep
      BY <1>8 DEF MainStep
    <3> QED
      BY <3>1, <3>2, <3>3
  <2>1. cur \notin closed /\ closed' = closed /\ lost' = lost
    BY <1>8, <2>0 DEF Do, IInv, ClosedOK, reader
  <2> SUFFICES ASSUME NEW g \in Files \ late'
               PROVE  /\ logger'[g].said = "OK" => outcome'[g] = "ok" \/ lost'
                      /\ logger'[g].said = "Error" => outcome'[g] = "failed"
    BY DEF Truthful
  <2>2. CASE g = cur
    <3>1. logger'[g].said = "nothing"
      BY <2>1, <2>2, LoggersStep DEF LoggersOK
    <3> QED
      BY <3>1
  <2>3. CASE g # cur
    BY <2>0, <2>1, <2>3, MainElsewhere DEF IInv, Truthful
  <2> QED
    BY <2>2, <2>3
<1>9. CASE Done
  BY <1>9
    DEF Done, IInv, PlacesOK, KindOK, TransportOK, ClosedOK, LoggersOK, LastSent, Truthful,
        reader, sinks, setup
<1>10. CASE DoneCancelled
  BY <1>10
    DEF DoneCancelled, IInv, PlacesOK, KindOK, TransportOK, ClosedOK, LoggersOK, LastSent,
        Truthful, reader, sinks, setup
<1>11. CASE Close
  BY <1>11
    DEF Close, IInv, PlacesOK, KindOK, TransportOK, ClosedOK, LoggersOK, LastSent, Truthful,
        sinks, setup
<1>12. CASE LoggerWait
  BY <1>12
    DEF LoggerWait, IInv, PlacesOK, KindOK, TransportOK, ClosedOK, LoggersOK, LastSent,
        Truthful, reader, sinks, setup
<1>13. CASE NextFile
  BY <1>13
    DEF NextFile, IInv, PlacesOK, KindOK, TransportOK, ClosedOK, LoggersOK, LastSent,
        Truthful, reader, sinks, setup
<1>14. CASE StopUpdater
  BY <1>14
    DEF StopUpdater, IInv, PlacesOK, KindOK, TransportOK, ClosedOK, LoggersOK, LastSent,
        Truthful, reader, sinks, setup
<1>15. CASE Return
  BY <1>15
    DEF Return, IInv, PlacesOK, KindOK, TransportOK, ClosedOK, LoggersOK, LastSent,
        Truthful, reader, sinks, setup
<1>16. CASE CancelContext
  BY <1>16
    DEF CancelContext, IInv, PlacesOK, KindOK, TransportOK, ClosedOK, LoggersOK, LastSent,
        Truthful, main, reader, sinks, setup
<1>17. CASE UpdaterStep
  BY <1>17
    DEF UpdaterStep, Tick, HttpNfcLeaseProgress, UpdaterDone, IInv, PlacesOK, KindOK,
        TransportOK, ClosedOK, LoggersOK, LastSent, Truthful, main, reader, sinks, setup
<1>18. ASSUME NEW f \in Files, ReadChunk(f) PROVE Truthful'
  BY <1>18
    DEF ReadChunk, IInv, PlacesOK, KindOK, TransportOK, ClosedOK, LoggersOK, LastSent,
        Truthful, main, reader, sinks, setup
<1>19. ASSUME NEW f \in Files, SendReport(f) PROVE Truthful'
  BY <1>19
    DEF SendReport, AfterRead, IInv, PlacesOK, KindOK, TransportOK, ClosedOK, LoggersOK,
        LastSent, Truthful, main, reader, sinks, setup
<1>20. ASSUME NEW f \in Files, SendOnClosed(f) PROVE Truthful'
  BY <1>20
    DEF SendOnClosed, IInv, PlacesOK, KindOK, TransportOK, ClosedOK, LoggersOK, LastSent,
        Truthful, main, reader, sinks, setup
<1>21. ASSUME NEW f \in Files, TransportStops(f) PROVE Truthful'
  BY <1>21
    DEF TransportStops, IInv, PlacesOK, KindOK, TransportOK, ClosedOK, LoggersOK, LastSent,
        Truthful, main, reader, sinks, setup
<1>22. ASSUME NEW f \in Files, TeeFirst(f) PROVE Truthful'
  <2>1. UNCHANGED <<outcome, late, lost>>
    BY <1>22 DEF TeeFirst, main
  <2>2. logger' = logger \/ logger' = [logger EXCEPT ![f] = [logger[f] EXCEPT !.err = tee[f].r.err]]
    BY <1>22 DEF TeeFirst
  <2>3. \A g \in Files : logger'[g].said = logger[g].said
    BY <2>2 DEF IInv, PlacesOK, Loggers
  <2> QED
    BY <2>1, <2>3 DEF IInv, Truthful
<1>23. ASSUME NEW f \in Files, TeeSecond(f) PROVE Truthful'
  BY <1>23
    DEF TeeSecond, IInv, PlacesOK, KindOK, TransportOK, ClosedOK, LoggersOK, LastSent,
        Truthful, main, reader, sinks, setup
<1>24. ASSUME NEW f \in Files, TeeEnd(f) PROVE Truthful'
  BY <1>24
    DEF TeeEnd, IInv, PlacesOK, KindOK, TransportOK, ClosedOK, LoggersOK, LastSent,
        Truthful, main, reader, sinks, setup
<1>25. ASSUME NEW f \in Files, LoggerEnd(f) PROVE Truthful'
  <2>1. UNCHANGED <<outcome, late, lost>> /\ logger[f].at = "B"
    BY <1>25 DEF LoggerEnd, main
  <2>2. f \in closed /\ tee[f].at # "d1" /\ sink = "logger"
    <3>1. f \in closed'
      BY <1>25, LoggersStep DEF LoggersOK, LoggerEnd, IInv, PlacesOK, Loggers
    <3>2. closed' = closed /\ tee[f].at # "d1"
      BY <1>25 DEF LoggerEnd, reader, IInv, KindOK
    <3>3. sink = "logger"
      BY <2>1, TransferAssumption DEF IInv, PlacesOK, LoggersOK
    <3> QED
      BY <3>1, <3>2, <3>3
  <2>3. f \notin late => /\ logger[f].err => outcome[f] = "failed"
                         /\ ~logger[f].err => outcome[f] = "ok" \/ lost
    BY <2>2 DEF IInv, ReportsOK, ReportOK, LastSent
  <2>4. logger' = [logger EXCEPT ![f] =
            [logger[f] EXCEPT !.at = "end", !.said = IF logger[f].err THEN "Error" ELSE "OK"]]
    BY <1>25 DEF LoggerEnd
  <2>5. /\ \A g \in Files \ {f} : logger'[g] = logger[g]
        /\ logger'[f].said = IF logger[f].err THEN "Error" ELSE "OK"
    BY <2>4 DEF IInv, PlacesOK, Loggers
  <2> QED
    BY <2>1, <2>3, <2>5 DEF IInv, Truthful
<1>26. ASSUME NEW f \in Files, LoggerDone(f) PROVE Truthful'
  BY <1>26
    DEF LoggerDone, IInv, PlacesOK, KindOK, TransportOK, ClosedOK, LoggersOK, LastSent,
        Truthful, main, reader, sinks, setup
<1>27. ASSUME NEW f \in Files, ItemClosed(f) PROVE Truthful'
  BY <1>27
    DEF ItemClosed, IInv, PlacesOK, KindOK, TransportOK, ClosedOK, LoggersOK, LastSent,
        Truthful, main, reader, sinks, setup
<1>28. ASSUME NEW f \in Files, ItemDone(f) PROVE Truthful'
  BY <1>28
    DEF ItemDone, IInv, PlacesOK, KindOK, TransportOK, ClosedOK, LoggersOK, LastSent,
        Truthful, main, reader, sinks, setup
<1>29. CASE UNCHANGED vars
  BY <1>29
    DEF IInv, PlacesOK, KindOK, TransportOK, ClosedOK, LoggersOK, LastSent, Truthful, vars,
        main, reader, sinks, setup
<1> QED
  BY <1>1, <1>2, <1>3, <1>4, <1>5, <1>6, <1>7, <1>8, <1>9, <1>10, <1>11, <1>12, <1>13, <1>14,
     <1>15, <1>16, <1>17, <1>18, <1>19, <1>20, <1>21, <1>22, <1>23, <1>24, <1>25, <1>26, <1>27,
     <1>28, <1>29
    DEF Next, MainStep, TransportStep, TeeStep, SinkStep

(* Only an error or the stop ends an item short of its file. *)
LEMMA ItemsStep == IInv /\ [Next]_vars => ItemsOK'
<1> SUFFICES ASSUME IInv, [Next]_vars PROVE ItemsOK'
  OBVIOUS
<1>1. CASE Start
  BY <1>1
    DEF Start, IInv, PlacesOK, KindOK, ClosedOK, LastSent, ItemsOK, ItemOK, reader, sinks,
        setup
<1>2. CASE WaitForResult
  BY <1>2
    DEF WaitForResult, IInv, PlacesOK, KindOK, ClosedOK, LastSent, ItemsOK, ItemOK, reader,
        sinks, setup
<1>3. CASE TaskEnd
  <2>0. cur \in Files /\ cur \in Int /\ cur' = cur /\ MainStep
    <3>1. cur \in Files /\ cur \in Int
      BY TransferAssumption DEF IInv, PlacesOK, Files
    <3>2. cur' = cur
      BY <1>3 DEF TaskEnd
    <3>3. MainStep
      BY <1>3 DEF MainStep
    <3> QED
      BY <3>1, <3>2, <3>3
  <2> SUFFICES ASSUME NEW g \in Files PROVE ItemOK(g)'
    BY DEF ItemsOK
  <2>1. ItemOK(g) /\ UNCHANGED <<kind, item, stop>> /\ mpc # "start"
    BY <1>3 DEF TaskEnd, IInv, ItemsOK, setup, sinks
  <2>2. CASE g = cur
    <3>1. ~LastSent(g)
      BY <1>3, <2>0, <2>2 DEF TaskEnd, IInv, ClosedOK, LastSent
    <3>2. tee' = tee /\ kind = "task"
      BY <1>3 DEF TaskEnd, IInv, KindOK
    <3> QED
      BY <2>1, <3>1, <3>2 DEF ItemOK
  <2>3. CASE g # cur
    <3>1. LastSent(g)' <=> LastSent(g)
      BY <1>3, <2>0, <2>3, MainElsewhere DEF TaskEnd, LastSent
    <3> QED
      BY <2>0, <2>1, <2>3, <3>1, MainElsewhere DEF ItemOK
  <2> QED
    BY <2>2, <2>3
<1>4. CASE TaskLost
  BY <1>4
    DEF TaskLost, IInv, PlacesOK, KindOK, ClosedOK, LastSent, ItemsOK, ItemOK, reader,
        sinks, setup
<1>5. CASE Open
  BY <1>5
    DEF Open, IInv, PlacesOK, KindOK, ClosedOK, LastSent, ItemsOK, ItemOK, reader, sinks,
        setup
<1>6. CASE OpenFails
  BY <1>6
    DEF OpenFails, IInv, PlacesOK, KindOK, ClosedOK, LastSent, ItemsOK, ItemOK, reader,
        sinks, setup
<1>7. CASE NewReader
  <2>0. cur \in Files /\ cur \in Int /\ cur' = cur /\ MainStep
    <3>1. cur \in Files /\ cur \in Int
      BY TransferAssumption DEF IInv, PlacesOK, Files
    <3>2. cur' = cur
      BY <1>7 DEF NewReader
    <3>3. MainStep
      BY <1>7 DEF MainStep
    <3> QED
      BY <3>1, <3>2, <3>3
  <2> SUFFICES ASSUME NEW g \in Files PROVE ItemOK(g)'
    BY DEF ItemsOK
  <2>1. ItemOK(g) /\ UNCHANGED <<kind, item, stop>> /\ mpc # "start"
    BY <1>7 DEF NewReader, IInv, ItemsOK, setup, sinks
  <2>2. CASE g = cur
    <3>1. ~LastSent(g)
      BY <1>7, <2>0, <2>2 DEF NewReader, IInv, ClosedOK, LastSent
    <3>2. tee'[g].r.err = FALSE
      BY <1>7, <2>2, TeeRecords DEF NewReader, IInv, PlacesOK
    <3> QED
      BY <2>1, <3>1, <3>2 DEF ItemOK
  <2>3. CASE g # cur
    <3>1. LastSent(g)' <=> LastSent(g)
      BY <1>7, <2>0, <2>3, MainElsewhere DEF NewReader, LastSent
    <3> QED
      BY <2>0, <2>1, <2>3, <3>1, MainElsewhere DEF ItemOK
  <2> QED
    BY <2>2, <2>3
<1>8. CASE Do
  <2>0. cur \in Files /\ cur \in Int /\ cur' = cur /\ MainStep
    <3>1. cur \in Files /\ cur \in Int
      BY TransferAssumption DEF IInv, PlacesOK, Files
    <3>2. cur' = cur
      BY <1>8 DEF Do
    <3>3. MainStep
      BY <1>8 DEF MainStep
    <3> QED
      BY <3>1, <3>2, <3>3
  <2> SUFFICES ASSUME NEW g \in Files PROVE ItemOK(g)'
    BY DEF ItemsOK
  <2>1. ItemOK(g) /\ UNCHANGED <<kind, item, stop>> /\ mpc # "start"
    BY <1>8 DEF Do, IInv, ItemsOK, setup, sinks
  <2>2. CASE g = cur
    <3>1. ~LastSent(g)
      BY <1>8, <2>0, <2>2 DEF Do, IInv, ClosedOK, LastSent
    <3>2. tee' = tee
      BY <1>8 DEF Do, sinks
    <3> QED
      BY <2>1, <3>1, <3>2 DEF ItemOK
  <2>3. CASE g # cur
    <3>1. LastSent(g)' <=> LastSent(g)
      BY <1>8, <2>0, <2>3, MainElsewhere DEF Do, LastSent
    <3> QED
      BY <2>0, <2>1, <2>3, <3>1, MainElsewhere DEF ItemOK
  <2> QED
    BY <2>2, <2>3
<1>9. CASE Done
  <2>0. cur \in Files /\ cur \in Int /\ cur' = cur /\ MainStep
    <3>1. cur \in Files /\ cur \in Int
      BY TransferAssumption DEF IInv, PlacesOK, Files
    <3>2. cur' = cur
      BY <1>9 DEF Done
    <3>3. MainStep
      BY <1>9 DEF MainStep
    <3> QED
      BY <3>1, <3>2, <3>3
  <2> SUFFICES ASSUME NEW g \in Files PROVE ItemOK(g)'
    BY DEF ItemsOK
  <2>1. ItemOK(g) /\ UNCHANGED <<kind, item, stop>> /\ mpc # "start"
    BY <1>9 DEF Done, IInv, ItemsOK, setup, sinks
  <2>2. CASE g = cur
    <3>1. ~LastSent(g)
      BY <1>9, <2>0, <2>2 DEF Done, IInv, ClosedOK, LastSent
    <3>2. PICK t \in Tees : /\ t.r.err <=> outcome[cur] = "failed"
                            /\ tee' = [tee EXCEPT ![cur] = t]
      BY <1>9, DoneEffect
    <3>3. tee'[g] = t /\ outcome' = outcome /\ LastSent(g)'
      BY <1>9, <2>0, <2>2, <3>2 DEF Done, IInv, PlacesOK, LastSent
    <3> QED
      BY <2>1, <2>2, <3>1, <3>2, <3>3 DEF ItemOK
  <2>3. CASE g # cur
    <3>1. LastSent(g)' <=> LastSent(g)
      BY <1>9, <2>0, <2>3, MainElsewhere DEF Done, LastSent
    <3> QED
      BY <2>0, <2>1, <2>3, <3>1, MainElsewhere DEF ItemOK
  <2> QED
    BY <2>2, <2>3
<1>10. CASE DoneCancelled
  BY <1>10
    DEF DoneCancelled, IInv, PlacesOK, KindOK, ClosedOK, LastSent, ItemsOK, ItemOK, reader,
        sinks, setup
<1>11. CASE Close
  BY <1>11 DEF Close, IInv, PlacesOK, KindOK, ClosedOK, LastSent, ItemsOK, ItemOK, sinks, setup
<1>12. CASE LoggerWait
  BY <1>12
    DEF LoggerWait, IInv, PlacesOK, KindOK, ClosedOK, LastSent, ItemsOK, ItemOK, reader,
        sinks, setup
<1>13. CASE NextFile
  BY <1>13
    DEF NextFile, IInv, PlacesOK, KindOK, ClosedOK, LastSent, ItemsOK, ItemOK, reader,
        sinks, setup
<1>14. CASE StopUpdater
  BY <1>14
    DEF StopUpdater, IInv, PlacesOK, KindOK, ClosedOK, LastSent, ItemsOK, ItemOK, reader,
        sinks, setup
<1>15. CASE Return
  BY <1>15
    DEF Return, IInv, PlacesOK, KindOK, ClosedOK, LastSent, ItemsOK, ItemOK, reader, sinks,
        setup
<1>16. CASE CancelContext
  BY <1>16
    DEF CancelContext, IInv, PlacesOK, KindOK, ClosedOK, LastSent, ItemsOK, ItemOK, main,
        reader, sinks, setup
<1>17. CASE UpdaterStep
  BY <1>17
    DEF UpdaterStep, Tick, HttpNfcLeaseProgress, UpdaterDone, IInv, PlacesOK, KindOK,
        ClosedOK, LastSent, ItemsOK, ItemOK, main, reader, sinks, setup
<1>18. ASSUME NEW f \in Files, ReadChunk(f) PROVE ItemsOK'
  BY <1>18
    DEF ReadChunk, IInv, PlacesOK, KindOK, ClosedOK, LastSent, ItemsOK, ItemOK, main,
        reader, sinks, setup
<1>19. ASSUME NEW f \in Files, SendReport(f) PROVE ItemsOK'
  <2>0. /\ UNCHANGED <<kind, mpc, outcome, stop>>
        /\ \A g \in Files : LastSent(g)' <=> LastSent(g)
    BY <1>19 DEF SendReport, LastSent, main, reader, setup
  <2> SUFFICES ASSUME NEW g \in Files PROVE ItemOK(g)'
    BY DEF ItemsOK
  <2>1. ItemOK(g)
    BY DEF IInv, ItemsOK
  <2>2. item' = item
    BY <1>19 DEF SendReport
  <2>3. tee'[g] = tee[g] \/ tee'[g].r.err = FALSE
    BY <1>19, SendEffect DEF IInv, PlacesOK
  <2> QED
    BY <2>0, <2>1, <2>2, <2>3 DEF ItemOK
<1>20. ASSUME NEW f \in Files, SendOnClosed(f) PROVE ItemsOK'
  BY <1>20
    DEF SendOnClosed, IInv, PlacesOK, KindOK, ClosedOK, LastSent, ItemsOK, ItemOK, main,
        reader, sinks, setup
<1>21. ASSUME NEW f \in Files, TransportStops(f) PROVE ItemsOK'
  BY <1>21
    DEF TransportStops, IInv, PlacesOK, KindOK, ClosedOK, LastSent, ItemsOK, ItemOK, main,
        reader, sinks, setup
<1>22. ASSUME NEW f \in Files, TeeFirst(f) PROVE ItemsOK'
  <2>0. /\ UNCHANGED <<kind, mpc, outcome, stop>>
        /\ \A g \in Files : LastSent(g)' <=> LastSent(g)
    BY <1>22 DEF TeeFirst, LastSent, main, reader, setup
  <2> SUFFICES ASSUME NEW g \in Files PROVE ItemOK(g)'
    BY DEF ItemsOK
  <2>1. ItemOK(g)
    BY DEF IInv, ItemsOK
  <2>2. tee'[g].r = tee[g].r
    BY <1>22, TeeEffect
  <2>3. \/ item'[g] = item[g]
        \/ item'[g].on
        \/ g = f /\ tee[g].r.err
    <3>1. \/ item' = item
          \/ tee[f].r.err /\ item' = [item EXCEPT ![f].on = FALSE]
          \/ item[f].on /\ \E x \in Int : item' = [item EXCEPT ![f].pos = x]
      <4>1. \A x \in Positions(tee[f].r.pos) : x \in Int
        BY DEF Positions
      <4> QED
        BY <1>22, <4>1 DEF TeeFirst
    <3> QED
      BY <3>1 DEF IInv, PlacesOK, FileItems
  <2> QED
    BY <2>0, <2>1, <2>2, <2>3 DEF ItemOK
<1>23. ASSUME NEW f \in Files, TeeSecond(f) PROVE ItemsOK'
  <2>0. /\ UNCHANGED <<kind, mpc, outcome, stop>>
        /\ \A g \in Files : LastSent(g)' <=> LastSent(g)
    BY <1>23 DEF TeeSecond, LastSent, main, reader, setup
  <2> SUFFICES ASSUME NEW g \in Files PROVE ItemOK(g)'
    BY DEF ItemsOK
  <2>1. ItemOK(g)
    BY DEF IInv, ItemsOK
  <2>2. item' = item
    BY <1>23 DEF TeeSecond
  <2>3. tee'[g] = tee[g] \/ tee'[g].r.err = FALSE
    BY <1>23, TeeEffect
  <2> QED
    BY <2>0, <2>1, <2>2, <2>3 DEF ItemOK
<1>24. ASSUME NEW f \in Files, TeeEnd(f) PROVE ItemsOK'
  <2>0. /\ UNCHANGED <<kind, mpc, outcome, stop>>
        /\ \A g \in Files : LastSent(g)' <=> LastSent(g)
    BY <1>24 DEF TeeEnd, LastSent, main, reader, setup
  <2> SUFFICES ASSUME NEW g \in Files PROVE ItemOK(g)'
    BY DEF ItemsOK
  <2>1. ItemOK(g)
    BY DEF IInv, ItemsOK
  <2>2. item' = item
    BY <1>24 DEF TeeEnd
  <2>3. tee'[g] = tee[g] \/ tee'[g].r.err = FALSE
    BY <1>24, TeeEffect
  <2> QED
    BY <2>0, <2>1, <2>2, <2>3 DEF ItemOK
<1>25. ASSUME NEW f \in Files, LoggerEnd(f) PROVE ItemsOK'
  BY <1>25
    DEF LoggerEnd, IInv, PlacesOK, KindOK, ClosedOK, LastSent, ItemsOK, ItemOK, main,
        reader, sinks, setup
<1>26. ASSUME NEW f \in Files, LoggerDone(f) PROVE ItemsOK'
  BY <1>26
    DEF LoggerDone, IInv, PlacesOK, KindOK, ClosedOK, LastSent, ItemsOK, ItemOK, main,
        reader, sinks, setup
<1>27. ASSUME NEW f \in Files, ItemClosed(f) PROVE ItemsOK'
  BY <1>27
    DEF ItemClosed, IInv, PlacesOK, KindOK, ClosedOK, LastSent, ItemsOK, ItemOK, main,
        reader, sinks, setup
<1>28. ASSUME NEW f \in Files, ItemDone(f) PROVE ItemsOK'
  BY <1>28
    DEF ItemDone, IInv, PlacesOK, KindOK, ClosedOK, LastSent, ItemsOK, ItemOK, main, reader,
        sinks, setup
<1>29. CASE UNCHANGED vars
  BY <1>29
    DEF IInv, PlacesOK, KindOK, ClosedOK, LastSent, ItemsOK, ItemOK, vars, main, reader,
        sinks, setup
<1> QED
  BY <1>1, <1>2, <1>3, <1>4, <1>5, <1>6, <1>7, <1>8, <1>9, <1>10, <1>11, <1>12, <1>13, <1>14,
     <1>15, <1>16, <1>17, <1>18, <1>19, <1>20, <1>21, <1>22, <1>23, <1>24, <1>25, <1>26, <1>27,
     <1>28, <1>29
    DEF Next, MainStep, TransportStep, TeeStep, SinkStep

-----------------------------------------------------------------------------
(* Main has not started anything yet. *)
LEMMA InitIInv == Init => IInv
<1> SUFFICES ASSUME Init PROVE IInv
  OBVIOUS
<1> USE TransferAssumption
<1>1. \A f \in Files :
        /\ tee[f] \in Tees /\ tee[f].at = "none" /\ tee[f].r.err = FALSE
        /\ logger[f] \in Loggers /\ logger[f].at = "none" /\ logger[f].said = "nothing"
        /\ item[f] \in FileItems
  BY DEF Init, Tee, NoReport, Report, Logger, Tees, Reports, Loggers, FileItems
<1>2. PlacesOK
  <2>1. tee \in [Files -> Tees] /\ logger \in [Files -> Loggers] /\ item \in [Files -> FileItems]
    BY <1>1 DEF Init
  <2>2. /\ outcome \in [Files -> {"none", "ok", "failed"}]
        /\ tr \in [Files -> {"none", "read", "send", "eof", "end", "broken"}]
        /\ read \in [Files -> 0 .. Chunks]
    BY DEF Init
  <2>3. cur \in Files
    BY DEF Init, Files
  <2> QED
    BY <2>1, <2>2, <2>3 DEF Init, PlacesOK
<1>3. KindOK /\ TransportOK /\ ClosedOK /\ UpdaterOK
  BY <1>1 DEF Init, KindOK, TransportOK, ClosedOK, UpdaterOK, Active
<1>4. LoggersOK /\ Truthful
  BY <1>1 DEF Init, LoggersOK, Truthful
<1>5. ReportsOK /\ ItemsOK
  BY <1>1 DEF Init, ReportsOK, ReportOK, ItemsOK, ItemOK, LastSent
<1> QED
  BY <1>2, <1>3, <1>4, <1>5 DEF IInv

(* The invariant holds throughout every behaviour. *)
THEOREM Invariance == Spec => []IInv
<1>1. Init => IInv
  BY InitIInv
<1>2. IInv /\ [Next]_vars => IInv'
  BY PlacesStep, KindStep, ActiveStep, ClosedStep, LoggersStep, ReportsStep, TruthfulStep,
     ItemsStep, UpdaterInvStep DEF IInv
<1> QED
  BY <1>1, <1>2, PTL DEF Spec

(***************************************************************************)
(* What a logger says at the end is how the transfer or the task went,     *)
(* through reader, tee and loopB, for any number of files and chunks.      *)
(***************************************************************************)
THEOREM LoggersAreTruthful == Spec => []Truthful
<1>1. IInv => Truthful
  BY DEF IInv
<1> QED
  BY <1>1, Invariance, PTL

(***************************************************************************)
(* A report on a closed channel, which crashes the process, needs an       *)
(* upload that was answered before its file had been read.                 *)
(***************************************************************************)
THEOREM OnlyLateReadsCrash == Spec => []CrashNeedsLateRead
<1>1. IInv => CrashNeedsLateRead
  BY DEF IInv, TransportOK, CrashNeedsLateRead
<1> QED
  BY <1>1, Invariance, PTL

(***************************************************************************)
(* Nothing renews the lease or logs once main has returned, and a logger   *)
(* ends before the next file is opened.                                    *)
(***************************************************************************)
THEOREM NothingIsLeft == Spec => []NothingLeft
<1>1. IInv => NothingLeft
  <2> SUFFICES ASSUME IInv, NEW f \in Files, f < cur \/ mpc = "returned"
               PROVE  logger[f].at \in {"none", "end"}
    BY DEF NothingLeft, IInv, UpdaterOK
  <2>1. logger[f].at \in {"none", "A", "B", "end"}
    BY DEF IInv, PlacesOK, Loggers
  <2>2. logger[f].at \notin {"A", "B"}
    BY TransferAssumption DEF IInv, PlacesOK, LoggersOK, Files
  <2> QED
    BY <2>1, <2>2
<1> QED
  BY <1>1, Invariance, PTL

(* An item that has ended, not stopped, has counted its file in full if that went well. *)
LEMMA IInvFull == IInv => ItemsFull
<1> SUFFICES ASSUME IInv, sink = "item", mpc # "start", NEW f \in Files,
                    ~item[f].on, ~stop, outcome[f] = "ok"
             PROVE  item[f].pos = Chunks
  BY DEF ItemsFull
<1>1. kind # "task"
  BY DEF IInv, KindOK
<1> QED
  BY <1>1 DEF IInv, ItemsOK, ItemOK

-----------------------------------------------------------------------------

(***************************************************************************)
(* Every set of natural numbers has a least one, and so induction over the *)
(* natural numbers, for a set: the induction theorems of the library are   *)
(* about an operator.                                                      *)
(***************************************************************************)
LEMMA LeastNat ==
    ASSUME NEW T \in SUBSET Nat, T # {}
    PROVE  \E m \in T : \A k \in T : m <= k
<1> DEFINE R == {p \in Nat \X Nat : p[1] < p[2]}
<1>1. IsWellFoundedOn(R, Nat)
  BY NatLessThanWellFounded DEF OpToRel
<1>2. PICK m \in T : \A k \in T : ~ (<<k, m>> \in R)
  <2> HIDE DEF R
  <2> QED
    BY <1>1, WFMin
<1>3. ASSUME NEW k \in T PROVE m <= k
  <2>1. k < m => <<k, m>> \in R
    OBVIOUS
  <2>2. ~(k < m)
    BY <1>2, <2>1
  <2> QED
    BY <2>2
<1> QED
  BY <1>3

LEMMA NatSetInduction ==
    ASSUME NEW S \in SUBSET Nat, 0 \in S, \A n \in S : n + 1 \in S
    PROVE  S = Nat
<1> DEFINE T == Nat \ S
<1> SUFFICES ASSUME T # {} PROVE FALSE
  OBVIOUS
<1>1. PICK m \in T : \A k \in T : m <= k
  BY LeastNat
<1>2. m - 1 \in Nat /\ m - 1 \in S
  BY <1>1
<1> QED
  BY <1>1, <1>2

(* The function that SumOf computes with. *)
Sums(items) ==
    CHOOSE sum : sum = [n \in 0 .. Items |-> IF n = 0 THEN 0 ELSE items[n].pos + sum[n - 1]]

(* There is such a function, by induction on the number of items ... *)
LEMMA SumsExist ==
    ASSUME NEW items \in [Files -> FileItems]
    PROVE  \E sum : sum = [n \in 0 .. Items |-> IF n = 0 THEN 0 ELSE items[n].pos + sum[n - 1]]
<1> USE TransferAssumption
<1> DEFINE P(k, g) == /\ g \in [0 .. k -> Int]
                      /\ \A n \in 0 .. k : g[n] = IF n = 0 THEN 0 ELSE items[n].pos + g[n - 1]
           S == {k \in Nat : k <= Items => \E g : P(k, g)}
<1> HIDE DEF P
<1>0. \A n \in 1 .. Items : items[n].pos \in Int
  BY DEF Files, FileItems
<1>1. 0 \in S
  <2>1. P(0, [n \in 0 .. 0 |-> 0])
    BY DEF P
  <2> QED
    BY <2>1
<1>2. ASSUME NEW k \in S PROVE k + 1 \in S
  <2>1. CASE k + 1 > Items
    BY <2>1
  <2>2. CASE k + 1 <= Items
    <3>1. PICK g : P(k, g)
      BY <2>2
    <3>2. P(k + 1, [n \in 0 .. k + 1 |-> IF n = k + 1 THEN items[n].pos + g[k] ELSE g[n]])
      BY <1>0, <2>2, <3>1 DEF P
    <3> QED
      BY <3>2
  <2> QED
    BY <2>1, <2>2
<1>3. S = Nat
  <2>1. S \in SUBSET Nat
    OBVIOUS
  <2> HIDE DEF S
  <2> QED
    BY <1>1, <1>2, <2>1, NatSetInduction
<1>4. PICK g : P(Items, g)
  BY <1>3
<1> QED
  BY <1>4 DEF P

(* ... so Sums is one. *)
LEMMA SumsDef ==
    ASSUME NEW items \in [Files -> FileItems]
    PROVE  /\ SumOf(items) = Sums(items)[Items]
           /\ Sums(items)[0] = 0
           /\ \A n \in 1 .. Items : Sums(items)[n] = items[n].pos + Sums(items)[n - 1]
<1> USE TransferAssumption
<1> DEFINE E(g) == g = [n \in 0 .. Items |-> IF n = 0 THEN 0 ELSE items[n].pos + g[n - 1]]
<1>1. \E g : E(g)
  BY SumsExist
<1>2. E(CHOOSE g : E(g))
  <2> HIDE DEF E
  <2> QED
    BY <1>1, Zenon
<1>3. E(Sums(items))
  BY <1>2 DEF Sums
<1>4. SumOf(items) = Sums(items)[Items]
  BY DEF SumOf, Sums
<1> HIDE DEF Sums
<1> QED
  BY <1>3, <1>4

(* The sum of items that count to B at most. *)
LEMMA SumBound ==
    ASSUME NEW items \in [Files -> FileItems], NEW B \in Nat,
           \A f \in Files : items[f].pos \in 0 .. B
    PROVE  SumOf(items) \in 0 .. Items * B
<1> USE TransferAssumption
<1> DEFINE S == {n \in Nat : n <= Items => Sums(items)[n] \in 0 .. n * B}
<1>1. 0 \in S
  BY SumsDef
<1>2. ASSUME NEW n \in S PROVE n + 1 \in S
  <2> SUFFICES ASSUME n + 1 <= Items PROVE Sums(items)[n + 1] \in 0 .. (n + 1) * B
    OBVIOUS
  <2>1. Sums(items)[n] \in 0 .. n * B
    OBVIOUS
  <2>2. Sums(items)[n + 1] = items[n + 1].pos + Sums(items)[n]
    BY SumsDef
  <2>3. items[n + 1].pos \in 0 .. B
    BY DEF Files
  <2>4. (n + 1) * B = n * B + B /\ n * B \in Nat
    OBVIOUS
  <2> QED
    BY <2>1, <2>2, <2>3, <2>4
<1>3. S = Nat
  <2>1. S \in SUBSET Nat
    OBVIOUS
  <2> HIDE DEF S
  <2> QED
    BY <1>1, <1>2, <2>1, NatSetInduction
<1> QED
  BY <1>3, SumsDef

(* The sum changes by what one item changes. *)
LEMMA SumChange ==
    ASSUME NEW items \in [Files -> FileItems], NEW changed \in [Files -> FileItems],
           NEW f \in Files, \A g \in Files \ {f} : changed[g].pos = items[g].pos
    PROVE  SumOf(changed) = SumOf(items) + changed[f].pos - items[f].pos
<1> USE TransferAssumption
<1>0. \A n \in 1 .. Items : items[n].pos \in Int /\ changed[n].pos \in Int
  BY DEF Files, FileItems
<1> DEFINE D(n) == IF n < f THEN 0 ELSE changed[f].pos - items[f].pos
           S == {n \in Nat : n <= Items =>
                     /\ Sums(items)[n] \in Int
                     /\ Sums(changed)[n] = Sums(items)[n] + D(n)}
<1>1. 0 \in S
  <2>1. 0 < f
    BY DEF Files
  <2>2. Sums(items)[0] = 0 /\ Sums(changed)[0] = 0
    BY SumsDef
  <2> QED
    BY <2>1, <2>2
<1>2. ASSUME NEW n \in S PROVE n + 1 \in S
  <2> SUFFICES ASSUME n + 1 <= Items
               PROVE  /\ Sums(items)[n + 1] \in Int
                      /\ Sums(changed)[n + 1] = Sums(items)[n + 1] + D(n + 1)
    OBVIOUS
  <2>1. /\ Sums(items)[n + 1] = items[n + 1].pos + Sums(items)[n]
        /\ Sums(changed)[n + 1] = changed[n + 1].pos + Sums(changed)[n]
    BY SumsDef
  <2>2. n + 1 # f => changed[n + 1].pos = items[n + 1].pos
    BY DEF Files
  <2>3. n \in Nat /\ Sums(items)[n] \in Int /\ Sums(changed)[n] = Sums(items)[n] + D(n)
    BY <1>0
  <2>4. items[n + 1].pos \in Int /\ changed[n + 1].pos \in Int
    BY <1>0, <2>3 DEF Files
  <2>5. f \in Int /\ items[f].pos \in Int /\ changed[f].pos \in Int
    BY <1>0 DEF Files
  <2>6. CASE n + 1 = f
    BY <2>1, <2>3, <2>4, <2>5, <2>6
  <2>7. CASE n + 1 # f
    BY <2>1, <2>2, <2>3, <2>4, <2>5, <2>7
  <2> QED
    BY <2>6, <2>7
<1>3. S = Nat
  <2>1. S \in SUBSET Nat
    OBVIOUS
  <2> HIDE DEF S
  <2> QED
    BY <1>1, <1>2, <2>1, NatSetInduction
<1>4. Sums(changed)[Items] = Sums(items)[Items] + D(Items) /\ Sums(items)[Items] \in Int
  BY <1>3
<1> QED
  <2>1. ~(Items < f)
    BY DEF Files
  <2>2. SumOf(items) = Sums(items)[Items] /\ SumOf(changed) = Sums(changed)[Items]
    BY SumsDef
  <2>3. changed[f].pos \in Int /\ items[f].pos \in Int
    BY <1>0 DEF Files
  <2> QED
    BY <1>4, <2>1, <2>2, <2>3

(* No item counts more than its file, but for the rounding. *)
LEMMA PosRange ==
    ASSUME PlacesOK, PosOK
    PROVE  pos \in 0 .. Items * (Chunks + Skew) /\ pos \in Int
<1>1. item \in [Files -> FileItems] /\ \A f \in Files : item[f].pos \in 0 .. Chunks + Skew
  BY DEF PlacesOK, FileItems
<1>2. Chunks + Skew \in Nat
  BY TransferAssumption
<1>3. SumOf(item) \in 0 .. Items * (Chunks + Skew)
  BY <1>1, <1>2, SumBound
<1> QED
  BY <1>3, TransferAssumption DEF PosOK

(* An item that counts adds to pos what it adds to its own position. *)
LEMMA CountStep ==
    ASSUME PlacesOK, PlacesOK', PosOK, NEW f \in Files, item[f].on, mpc' = mpc,
           \A g \in Files \ {f} : item'[g].pos = item[g].pos,
           pos' = pos + item'[f].pos - item[f].pos
    PROVE  PosOK'
<1>1. item \in [Files -> FileItems] /\ item' \in [Files -> FileItems]
  BY DEF PlacesOK
<1>2. SumOf(item') = SumOf(item) + item'[f].pos - item[f].pos
  BY <1>1, SumChange
<1> QED
  BY <1>2 DEF PosOK

(* What the lease has been told is what the items have counted. *)
LEMMA PosStep == IInv /\ PosOK /\ [Next]_vars => PosOK'
<1> SUFFICES ASSUME IInv /\ PosOK, [Next]_vars PROVE PosOK'
  OBVIOUS
<1>1. CASE Start
  <2>1. item' \in [Files -> FileItems] /\ mpc' # "start" /\ pos' = pos
    BY <1>1, PlacesStep DEF Start, IInv, PlacesOK
  <2>2. CASE kind = "task"
    BY <1>1, <2>1, <2>2 DEF Start, PosOK
  <2>3. CASE kind # "task"
    <3>1. \A f \in Files : item'[f].pos \in 0 .. 0
      BY <1>1, <2>3 DEF Start
    <3>2. SumOf(item') \in 0 .. Items * 0
      BY <2>1, <3>1, SumBound
    <3>3. SumOf(item') = 0
      BY <3>2, TransferAssumption
    <3> QED
      BY <1>1, <2>1, <3>3 DEF Start, PosOK
  <2> QED
    BY <2>2, <2>3
<1>2. CASE WaitForResult
  BY <1>2 DEF WaitForResult, PosOK, reader, sinks, setup
<1>3. CASE TaskEnd
  BY <1>3 DEF TaskEnd, PosOK, reader, sinks, setup
<1>4. CASE TaskLost
  BY <1>4 DEF TaskLost, PosOK, reader, sinks, setup
<1>5. CASE Open
  BY <1>5 DEF Open, PosOK, reader, sinks, setup
<1>6. CASE OpenFails
  BY <1>6 DEF OpenFails, PosOK, reader, sinks, setup
<1>7. CASE NewReader
  BY <1>7 DEF NewReader, PosOK, setup
<1>8. CASE Do
  BY <1>8 DEF Do, PosOK, reader, sinks, setup
<1>9. CASE Done
  BY <1>9 DEF Done, PosOK, reader, sinks, setup
<1>10. CASE DoneCancelled
  BY <1>10 DEF DoneCancelled, PosOK, reader, sinks, setup
<1>11. CASE Close
  BY <1>11 DEF Close, PosOK, sinks, setup
<1>12. CASE LoggerWait
  BY <1>12 DEF LoggerWait, PosOK, reader, sinks, setup
<1>13. CASE NextFile
  BY <1>13 DEF NextFile, PosOK, reader, sinks, setup
<1>14. CASE StopUpdater
  BY <1>14 DEF StopUpdater, PosOK, reader, sinks, setup
<1>15. CASE Return
  BY <1>15 DEF Return, PosOK, reader, sinks, setup
<1>16. CASE CancelContext
  BY <1>16 DEF CancelContext, PosOK, main, reader, sinks, setup
<1>17. CASE UpdaterStep
  BY <1>17
    DEF UpdaterStep, Tick, HttpNfcLeaseProgress, UpdaterDone, PosOK, main, reader, sinks,
        setup
<1>18. ASSUME NEW f \in Files, ReadChunk(f) PROVE PosOK'
  BY <1>18 DEF ReadChunk, PosOK, main, reader, sinks, setup
<1>19. ASSUME NEW f \in Files, SendReport(f) PROVE PosOK'
  BY <1>19 DEF SendReport, AfterRead, PosOK, main, reader, sinks, setup
<1>20. ASSUME NEW f \in Files, SendOnClosed(f) PROVE PosOK'
  BY <1>20 DEF SendOnClosed, PosOK, main, reader, sinks, setup
<1>21. ASSUME NEW f \in Files, TransportStops(f) PROVE PosOK'
  BY <1>21 DEF TransportStops, PosOK, main, reader, sinks, setup
<1>22. ASSUME NEW f \in Files, TeeFirst(f) PROVE PosOK'
  <2>1. mpc' = mpc
    BY <1>22 DEF TeeFirst, main
  <2>2. PlacesOK /\ PlacesOK'
    BY PlacesStep DEF IInv
  <2>3. \/ item' = item /\ pos' = pos
        \/ /\ item[f].on /\ pos' = pos + item'[f].pos - item[f].pos
           /\ \A g \in Files \ {f} : item'[g].pos = item[g].pos
    <3>1. CASE item' = item /\ pos' = pos
      BY <3>1
    <3>2. CASE item[f].on /\ item' = [item EXCEPT ![f].on = FALSE] /\ pos' = pos
      <4>1. item'[f].pos = item[f].pos /\ item[f].pos \in Int
        BY <3>2 DEF IInv, PlacesOK, FileItems
      <4>2. pos \in Int
        BY <2>2, PosRange
      <4> QED
        BY <2>2, <3>2, <4>1, <4>2 DEF PlacesOK, FileItems
    <3>3. ASSUME NEW x \in Positions(tee[f].r.pos),
                 item[f].on, item' = [item EXCEPT ![f].pos = x], pos' = pos + x - item[f].pos
          PROVE  /\ item[f].on /\ pos' = pos + item'[f].pos - item[f].pos
                 /\ \A g \in Files \ {f} : item'[g].pos = item[g].pos
      BY <2>2, <3>3 DEF PlacesOK, FileItems, Positions
    <3> QED
      BY <1>22, <3>1, <3>2, <3>3 DEF TeeFirst
  <2> QED
    BY <2>1, <2>2, <2>3, CountStep DEF PosOK
<1>23. ASSUME NEW f \in Files, TeeSecond(f) PROVE PosOK'
  BY <1>23 DEF TeeSecond, PosOK, main, reader, sinks, setup
<1>24. ASSUME NEW f \in Files, TeeEnd(f) PROVE PosOK'
  BY <1>24 DEF TeeEnd, PosOK, main, reader, sinks, setup
<1>25. ASSUME NEW f \in Files, LoggerEnd(f) PROVE PosOK'
  BY <1>25 DEF LoggerEnd, PosOK, main, reader, sinks, setup
<1>26. ASSUME NEW f \in Files, LoggerDone(f) PROVE PosOK'
  BY <1>26 DEF LoggerDone, PosOK, main, reader, sinks, setup
<1>27. ASSUME NEW f \in Files, ItemClosed(f) PROVE PosOK'
  <2>1. mpc' = mpc
    BY <1>27 DEF ItemClosed, main
  <2>2. PlacesOK /\ PlacesOK'
    BY PlacesStep DEF IInv
  <2>3. /\ item[f].on /\ pos' = pos + item'[f].pos - item[f].pos
        /\ \A g \in Files \ {f} : item'[g].pos = item[g].pos
    BY <1>27, <2>2 DEF ItemClosed, PlacesOK, FileItems
  <2> QED
    BY <2>1, <2>2, <2>3, CountStep DEF PosOK
<1>28. ASSUME NEW f \in Files, ItemDone(f) PROVE PosOK'
  <2>1. mpc' = mpc
    BY <1>28 DEF ItemDone, main
  <2>2. PlacesOK /\ PlacesOK'
    BY PlacesStep DEF IInv
  <2>3. /\ item[f].on /\ pos' = pos + item'[f].pos - item[f].pos
        /\ \A g \in Files \ {f} : item'[g].pos = item[g].pos
    <3>1. pos \in Int
      BY <2>2, PosRange
    <3> QED
      BY <1>28, <2>2, <3>1 DEF ItemDone, PlacesOK, FileItems
  <2> QED
    BY <2>1, <2>2, <2>3, CountStep DEF PosOK
<1>29. CASE UNCHANGED vars
  BY <1>29 DEF PosOK, vars, main, reader, sinks, setup
<1> QED
  BY <1>1, <1>2, <1>3, <1>4, <1>5, <1>6, <1>7, <1>8, <1>9, <1>10, <1>11, <1>12, <1>13, <1>14,
     <1>15, <1>16, <1>17, <1>18, <1>19, <1>20, <1>21, <1>22, <1>23, <1>24, <1>25, <1>26, <1>27,
     <1>28, <1>29
    DEF Next, MainStep, TransportStep, TeeStep, SinkStep

(***************************************************************************)
(* The counters stay in range and agree: however the reports of the files, *)
(* their ends and the stop interleave and the percentages are rounded, the *)
(* lease has been told of exactly what its items have counted, and that is *)
(* the whole of every file that went well.                                 *)
(***************************************************************************)
THEOREM TransfersAddUp == Spec => []TransferOK
<1>1. Init => PosOK
  <2> SUFFICES ASSUME Init PROVE PosOK
    OBVIOUS
  <2>1. item \in [Files -> FileItems]
    BY InitIInv DEF IInv, PlacesOK
  <2>2. \A f \in Files : item[f].pos \in 0 .. 0 /\ ~item[f].on
    BY DEF Init
  <2>3. SumOf(item) \in 0 .. Items * 0
    BY <2>1, <2>2, SumBound
  <2> QED
    BY <2>2, <2>3, TransferAssumption DEF Init, PosOK
<1>2. IInv /\ PosOK /\ [Next]_vars => PosOK'
  BY PosStep
<1>3. IInv /\ PosOK => TransferOK
  <2> SUFFICES ASSUME IInv, PosOK PROVE pos \in 0 .. Total + Items * Skew
    BY IInvFull DEF IInv, PosOK, TransferOK, TypeOK, AddsUp
  <2>1. pos \in 0 .. Items * (Chunks + Skew)
    BY PosRange DEF IInv
  <2>2. Items * (Chunks + Skew) = Items * Chunks + Items * Skew
    BY TransferAssumption
  <2> QED
    BY <2>1, <2>2 DEF Total
<1> QED
  BY <1>1, <1>2, <1>3, Invariance, PTL DEF Spec
=============================================================================
