--------------------------- MODULE OperationHost ----------------------------
(***************************************************************************)
(* A window that closes while operations run leaves its process behind to  *)
(* finish them; the next launch finds that process by the marker of its    *)
(* host, hands its path over and ends: src/app/operation_host.rs, main.rs  *)
(* and the windows' messages in src/iced_ui/mod.rs and update.rs.          *)
(*                                                                         *)
(* Every process is launched once, with a path that has its name.  A host  *)
(* is known by its process and how many the process has had, which stand   *)
(* for port and token.  Publishing a marker is one step here: AtomicFile   *)
(* shows that nobody reads a part of it.                                   *)
(***************************************************************************)
EXTENDS Integers, Sequences, FiniteSets, SequencesExt

CONSTANTS
  Procs,       \* processes, and the paths they are launched with
  MaxJobs,     \* bound: the operations that are started
  MaxStops,    \* bound: processes that are killed
  MaxTimeouts  \* bound: answers that a launch does not wait for

ASSUME OperationHostAssumption ==
  MaxJobs \in Nat /\ MaxStops \in Nat /\ MaxTimeouts \in Nat

\* Transfers are polled, the end of a delete is a message of its own, and an analysis
\* lasts until the user closes its window.
Kinds == {"transfer", "delete", "analysis"}
Host == [proc: Procs, port: Nat \ {0}]

VARIABLES
  app,      \* the state of each process
  markers,  \* the markers on disk, newest first
  acked,    \* launches that have received ACTIVATION_ACK
  opened,   \* the paths that each process has opened
  started,  \* how many operations were started
  stops,    \* how many processes were killed
  timeouts, \* how many answers came too late
  lost,     \* ghost: paths received by a host that ended before they were drained
  asked,    \* ghost: processes with a dialog that the user has not closed
  outlived  \* ghost: processes whose host outlives the operation that ended unpolled

counts == <<started, stops, timeouts>>
vars == <<app, markers, acked, opened, counts, lost, asked, outlived>>

App == [
  at: {"off", "seek", "wait", "run", "gone"},
  seen: Seq(Host),                      \* markers still to try
  main: {"none", "open", "closing"},    \* main_window_id, closing_windows
  jobs: SUBSET Kinds,                   \* detachable operations
  done: BOOLEAN,                        \* the transfer's last message is in its channel
  scanning: BOOLEAN,                    \* phase of the analysis
  history: {"none", "new", "old"},      \* transfer_history
  detached: BOOLEAN,                    \* main_window_detached_for_operations
  attention: BOOLEAN,                   \* pending_main_window_reactivation
  tick: BOOLEAN,                        \* a PollTransfers message is under way
  port: Nat, ports: Nat,                \* operation_host, 0 for none; how many so far
  backlog: SUBSET Procs,                \* requests the host has not answered
  queue: SUBSET Procs]                  \* its channel of activations

TypeOK ==
  /\ app \in [Procs -> App]
  /\ \A p \in Procs : LET a == app[p] IN
       /\ a.port \in {0, a.ports}
       /\ a.port = 0 => a.backlog = {} /\ a.queue = {}
       /\ a.at # "run" => a.main = "none" /\ a.port = 0
  /\ markers \in Seq(Host)
  /\ acked \subseteq Procs /\ opened \in [Procs -> SUBSET Procs]
  /\ started \in 0..MaxJobs /\ stops \in 0..MaxStops /\ timeouts \in 0..MaxTimeouts
  /\ lost \subseteq Procs /\ asked \subseteq Procs /\ outlived \subseteq Procs

Off == [at |-> "off", seen |-> <<>>, main |-> "none", jobs |-> {}, done |-> FALSE,
        scanning |-> FALSE, history |-> "none", detached |-> FALSE, attention |-> FALSE,
        tick |-> FALSE, port |-> 0, ports |-> 0, backlog |-> {}, queue |-> {}]

Init ==
  /\ app = [p \in Procs |-> Off]
  /\ markers = <<>> /\ acked = {} /\ opened = [p \in Procs |-> {}]
  /\ started = 0 /\ stops = 0 /\ timeouts = 0
  /\ lost = {} /\ asked = {} /\ outlived = {}

-----------------------------------------------------------------------------
(* A launch: try_activate_in.                                              *)

Current(h) == app[h.proc].port = h.port
Unlinked(h) == RemoveFirst(markers, h)

\* read_dir, sorted by the time of the last change.
Launch(c) ==
  /\ app[c].at = "off"
  /\ app' = [app EXCEPT ![c].at = "seek", ![c].seen = markers]
  /\ UNCHANGED <<markers, acked, opened, counts, lost, asked, outlived>>

Next1(c) == [app EXCEPT ![c].at = "seek", ![c].seen = Tail(@)]

\* activate_marker up to the request: the marker of a host that is gone is removed.
Connect(c) ==
  LET h == Head(app[c].seen) IN
  /\ app[c].at = "seek" /\ app[c].seen # <<>>
  /\ IF h \in ToSet(markers) /\ Current(h)
     THEN /\ app' = [app EXCEPT ![c].at = "wait", ![h.proc].backlog = @ \cup {c}]
          /\ UNCHANGED markers
     ELSE app' = Next1(c) /\ markers' = Unlinked(h)
  /\ UNCHANGED <<acked, opened, counts, lost, asked, outlived>>

\* Mutant of NoAnswer: a launch that gives up ends all the same.
NoAnswerEnds(c) ==
  /\ app[c].at = "wait" /\ c \notin acked
  /\ IF Current(Head(app[c].seen)) THEN timeouts < MaxTimeouts /\ timeouts' = timeouts + 1
                                   ELSE UNCHANGED timeouts
  /\ app' = [app EXCEPT ![c].at = "gone", ![c].seen = <<>>]
  /\ UNCHANGED <<markers, acked, opened, started, stops, lost, asked, outlived>>

\* The host has ended, or is slow: its marker is removed though it may still live.
NoAnswer(c) ==
  LET h == Head(app[c].seen) IN
  /\ app[c].at = "wait" /\ c \notin acked
  /\ IF Current(h) THEN timeouts < MaxTimeouts /\ timeouts' = timeouts + 1
                   ELSE UNCHANGED timeouts
  /\ app' = Next1(c) /\ markers' = Unlinked(h)
  /\ UNCHANGED <<acked, opened, started, stops, lost, asked, outlived>>

\* try_activate_existing returned true: the process ends.
Activated(c) ==
  /\ app[c].at = "wait" /\ c \in acked
  /\ app' = [app EXCEPT ![c].at = "gone", ![c].seen = <<>>]
  /\ UNCHANGED <<markers, acked, opened, counts, lost, asked, outlived>>

\* It returned false: iced_ui::run.
Start(c) ==
  /\ app[c].at = "seek" /\ app[c].seen = <<>>
  /\ app' = [app EXCEPT ![c].at = "run", ![c].main = "open"]
  /\ opened' = [opened EXCEPT ![c] = {c}]
  /\ UNCHANGED <<markers, acked, counts, lost, asked, outlived>>

LaunchStep(c) == Connect(c) \/ NoAnswer(c) \/ Activated(c) \/ Start(c)

-----------------------------------------------------------------------------
(* The host.                                                               *)

Waits(c, h) == app[c].at = "wait" /\ Head(app[c].seen) = h

\* handle_activation: the path goes into the channel, then the answer to whoever still waits.
HandleActivation(p) ==
  \E c \in app[p].backlog :
    /\ app' = [app EXCEPT ![p].backlog = @ \ {c}, ![p].queue = @ \cup {c}]
    /\ acked' = IF Waits(c, [proc |-> p, port |-> app[p].port]) THEN acked \cup {c} ELSE acked
    /\ UNCHANGED <<markers, opened, counts, lost, asked, outlived>>

-----------------------------------------------------------------------------
(* The windows of a process, one message at a time: what a handler makes of *)
(* the process' state, and whether it leaves a host and the program.       *)

\* Mutant of Published: the new host is not counted.
PublishedUncounted(a) == IF a.port # 0 THEN {a} ELSE {a, [a EXCEPT !.port = a.ports + 1]}

\* publish_operation_host creates a host that is not there; it may fail.
Published(a) ==
  IF a.port # 0 THEN {a} ELSE {a, [a EXCEPT !.port = a.ports + 1, !.ports = @ + 1]}

\* Mutant of Unpublished: the marker stays.
UnpublishNothing(h) == markers

\* unpublish: the host's own marker, if it is still there.
Unpublished(h) == Unlinked(h)

Running(p) == app[p].at = "run"

\* The handler leaves a; dropping the host waits for the request that is being answered.
Leaves(p, a, exits) ==
  LET h == [proc |-> p, port |-> app[p].port]
      b == IF exits THEN [a EXCEPT !.at = "gone", !.main = "none", !.tick = FALSE] ELSE a IN
  IF a.port = app[p].port
  THEN /\ app' = [app EXCEPT ![p] = b]
       /\ UNCHANGED <<markers, acked, lost>>
  ELSE IF app[p].port = 0
  THEN /\ app' = [app EXCEPT ![p] = b]
       /\ markers' = <<[proc |-> p, port |-> a.port]>> \o markers
       /\ UNCHANGED <<acked, lost>>
  ELSE \E late \in {{}} \cup {{c} : c \in app[p].backlog} :
         /\ app' = [app EXCEPT ![p] = [b EXCEPT !.backlog = {}, !.queue = {}]]
         /\ markers' = Unpublished(h)
         /\ acked' = acked \cup {c \in late : Waits(c, h)}
         /\ lost' = lost \cup a.queue \cup late

Retired(a) == [a EXCEPT !.port = 0]

\* reactivate_main_window_task.
Reactivated(a) ==
  [a EXCEPT !.detached = FALSE, !.attention = FALSE,
            !.main = IF @ = "none" THEN "open" ELSE @]

\* Mutant of Attended: a window that closes counts as open.
AttendedClosing(a) ==
  IF a.main = "none" THEN Reactivated(a) ELSE [a EXCEPT !.attention = FALSE]

\* ensure_main_window_for_attention_task.
Attended(a) ==
  IF a.main = "closing" THEN [a EXCEPT !.attention = TRUE]
  ELSE IF a.main = "none" THEN Reactivated(a)
  ELSE [a EXCEPT !.attention = FALSE]

\* Mutant of ReadyToExit: the operations are forgotten.
ReadyAnyway(a) == a.detached /\ a.main = "none" /\ ~a.attention

\* Mutant of ReadyToExit: only a process that has its host.
ReadyWithHost(a) ==
  a.detached /\ a.main = "none" /\ a.jobs = {} /\ a.history = "none" /\ ~a.attention /\ a.port # 0

\* should_exit_detached_operation_host.
ReadyToExit(a) ==
  a.detached /\ a.main = "none" /\ a.jobs = {} /\ a.history = "none" /\ ~a.attention

\* finish_detached_operation_host_task: the progress windows that it closes first are
\* left out.
Finish(p, a) ==
  IF ReadyToExit(a) THEN Leaves(p, Retired(a), TRUE) ELSE Leaves(p, a, FALSE)

\* The condition of the subscription that sends PollTransfers.
Ticks(a) ==
  \/ "transfer" \in a.jobs \/ "delete" \in a.jobs \/ a.history # "none"
  \/ a.scanning
  \/ a.detached \/ a.attention

\* An operation ends without PollTransfers, which alone retires a host whose window is open.
Outlives(p, a) ==
  outlived' = IF a.port # 0 /\ ~Ticks(a) THEN outlived \cup {p} ELSE outlived

-----------------------------------------------------------------------------
(* The user.                                                               *)

StartJob(p, k) ==
  LET a == app[p] IN
  /\ Running(p) /\ a.main = "open"
  /\ k \notin a.jobs
  /\ started < MaxJobs /\ started' = started + 1
  /\ app' = [app EXCEPT ![p].jobs = @ \cup {k}, ![p].scanning = @ \/ k = "analysis"]
  /\ UNCHANGED <<markers, acked, opened, stops, timeouts, lost, asked, outlived>>

\* Message::WindowClose.
WindowClose(p) ==
  LET a == app[p] IN
  /\ Running(p) /\ a.main = "open"
  /\ IF a.jobs # {}
     THEN \E b \in Published([a EXCEPT !.detached = TRUE, !.main = "closing"]) :
            Leaves(p, b, FALSE)
     ELSE Leaves(p, Retired([a EXCEPT !.detached = FALSE, !.main = "closing"]), FALSE)
  /\ asked' = asked \ {p}
  /\ UNCHANGED <<opened, counts, outlived>>

\* Message::WindowClosed of the analysis, which ends with its window.
CloseAnalysis(p) ==
  LET a == [app[p] EXCEPT !.jobs = @ \ {"analysis"}, !.scanning = FALSE] IN
  /\ Running(p) /\ "analysis" \in app[p].jobs
  /\ Finish(p, a)
  /\ Outlives(p, a)
  /\ UNCHANGED <<opened, counts, asked>>

-----------------------------------------------------------------------------
(* The system.                                                             *)

\* Message::WindowClosed of the main window.
WindowClosed(p) ==
  LET a == [app[p] EXCEPT !.main = "none"] IN
  /\ Running(p) /\ app[p].main = "closing"
  /\ IF a.attention THEN Leaves(p, Reactivated(a), FALSE)
     ELSE IF a.detached \/ a.jobs # {}
     THEN \E b \in Published([a EXCEPT !.detached = TRUE]) : Finish(p, b)
     ELSE Leaves(p, Retired(a), TRUE)
  /\ IF a.attention THEN Outlives(p, Reactivated(a)) ELSE UNCHANGED outlived
  /\ UNCHANGED <<opened, counts, asked>>

\* The transfer's worker sends its last message.
TransferEnds(p) ==
  /\ Running(p) /\ "transfer" \in app[p].jobs /\ ~app[p].done
  /\ app' = [app EXCEPT ![p].done = TRUE]
  /\ UNCHANGED <<markers, acked, opened, counts, lost, asked, outlived>>

\* An entry of the history has been shown long enough.
HistoryAges(p) ==
  /\ Running(p) /\ app[p].history = "new"
  /\ app' = [app EXCEPT ![p].history = "old"]
  /\ UNCHANGED <<markers, acked, opened, counts, lost, asked, outlived>>

\* Message::TrashFinished or DeleteFinished: the delete is over or wants to be elevated.
DeleteFinished(p) ==
  LET a == [app[p] EXCEPT !.jobs = @ \ {"delete"}] IN
  /\ Running(p) /\ "delete" \in app[p].jobs
  /\ \/ Leaves(p, a, FALSE) /\ Outlives(p, a) /\ UNCHANGED asked
     \/ Leaves(p, Attended(a), FALSE) /\ Outlives(p, Attended(a)) /\ asked' = asked \cup {p}
  /\ UNCHANGED <<opened, counts>>

Tick(p) ==
  /\ Running(p) /\ Ticks(app[p]) /\ ~app[p].tick
  /\ app' = [app EXCEPT ![p].tick = TRUE]
  /\ UNCHANGED <<markers, acked, opened, counts, lost, asked, outlived>>

\* poll_transfer_messages, as far as it matters here: a transfer that has ended leaves
\* an entry in the history, or asks to be elevated.
Polled(a) ==
  LET pruned == [a EXCEPT !.tick = FALSE, !.history = IF @ = "old" THEN "none" ELSE @]
      ended == [pruned EXCEPT !.jobs = @ \ {"transfer"}, !.done = FALSE] IN
  IF a.done THEN {<<[ended EXCEPT !.history = "new"], FALSE>>, <<Attended(ended), TRUE>>}
  ELSE {<<pruned, FALSE>>}

\* poll_operation_host_activations_task: nothing while the main window closes.
Drained(a) == IF a.main = "closing" THEN {} ELSE a.queue
Activations(a) ==
  IF Drained(a) = {} THEN a ELSE [Reactivated(a) EXCEPT !.queue = {}]

\* Mutant of Settled: the host stays for the window.
SettledLater(a) == a

\* A host is not needed by a process that has its window and no operation.
Settled(a) == IF a.main # "none" /\ a.jobs = {} THEN Retired(a) ELSE a

\* Message::PollTransfers; the analysis may have ended its scan.
PollTransfers(p) ==
  /\ Running(p) /\ app[p].tick
  /\ \E polled \in Polled(app[p]), scans \in BOOLEAN :
       LET a == [polled[1] EXCEPT !.scanning = @ /\ scans]
           b == Settled(Activations(a)) IN
       /\ Finish(p, b)
       /\ opened' = [opened EXCEPT ![p] = @ \cup Drained(a)]
       /\ asked' = IF polled[2] THEN asked \cup {p} ELSE asked
       /\ IF b.jobs = {} THEN UNCHANGED outlived ELSE Outlives(p, b)
  /\ UNCHANGED counts

\* A process is killed: its marker stays, what it had received is gone.
Crash(p) ==
  /\ Running(p) /\ stops < MaxStops /\ stops' = stops + 1
  /\ app' = [app EXCEPT ![p] = [Off EXCEPT !.at = "gone", !.jobs = app[p].jobs,
                                           !.ports = app[p].ports]]
  /\ lost' = lost \cup app[p].queue
  /\ asked' = asked \ {p}
  /\ UNCHANGED <<markers, acked, opened, started, timeouts, outlived>>

-----------------------------------------------------------------------------
\* Everything has been said and done; windows may stay open.
Rest ==
  /\ \A p \in Procs :
       \/ app[p].at = "gone"
       \/ app[p].at = "run" /\ app[p].main = "open" /\ app[p].jobs = {} /\ ~Ticks(app[p])
  /\ UNCHANGED vars

System(p) ==
  \/ WindowClosed(p) \/ TransferEnds(p) \/ HistoryAges(p) \/ DeleteFinished(p)
  \/ Tick(p) \/ PollTransfers(p)

Next ==
  \/ \E p \in Procs : \/ Launch(p) \/ LaunchStep(p) \/ HandleActivation(p)
                      \/ \E k \in Kinds : StartJob(p, k)
                      \/ WindowClose(p) \/ CloseAnalysis(p)
                      \/ System(p)
                      \/ Crash(p)
  \/ Rest

Spec == Init /\ [][Next]_vars

\* The threads and the windows' system go on; nobody has to launch, close or start anything.
FairSpec ==
  /\ Spec
  /\ \A p \in Procs :
       /\ WF_vars(LaunchStep(p)) /\ WF_vars(HandleActivation(p))
       /\ WF_vars(WindowClosed(p)) /\ WF_vars(TransferEnds(p)) /\ WF_vars(HistoryAges(p))
       /\ WF_vars(DeleteFinished(p)) /\ WF_vars(Tick(p)) /\ WF_vars(PollTransfers(p))

-----------------------------------------------------------------------------
(* Properties.                                                             *)

\* A launch that ends because it was acknowledged has handed its path over: a process
\* has opened it, or still has it in its channel, or has ended with it there.
AcknowledgedIsHeld ==
  \A c \in Procs :
    app[c].at = "gone" /\ c \notin opened[c] =>
      c \in lost \/ \E p \in Procs : c \in opened[p] \cup app[p].queue

\* The markers of a process that runs lead to the host that it has now: a launch never
\* waits for a host that the process has left behind.
MarkersLead ==
  \A i \in 1..Len(markers) :
    LET p == markers[i].proc IN
    Running(p) => /\ app[p].port = markers[i].port
                  /\ \A j \in 1..Len(markers) : markers[j].proc = p => i = j

\* A dialog that an operation needs is in a window that is there or will be.
AttentionIsShown ==
  \A p \in asked :
    Running(p) => app[p].main = "open" \/ (app[p].main = "closing" /\ app[p].attention)

\* What a host has received is polled; the one known exception is a host whose last
\* operation ended without a poll while the window was open.
ActivationsArePolled ==
  \A p \in Procs :
    Running(p) /\ app[p].queue # {} => Ticks(app[p]) \/ app[p].tick \/ p \in outlived

\* A process only ends by itself when none of its operations is left.
WorkIsNotKilled ==
  [][\A p \in Procs :
       Running(p) /\ app'[p].at = "gone" /\ UNCHANGED stops => app'[p].jobs = {}]_vars

\* A process without a window ends, or shows its window again, unless the user keeps an
\* analysis open: it never stays behind unseen.
DetachedEnds ==
  \A p \in Procs :
    Running(p) /\ app[p].main = "none" ~>
      ~Running(p) \/ app[p].main = "open" \/ "analysis" \in app[p].jobs
=============================================================================
