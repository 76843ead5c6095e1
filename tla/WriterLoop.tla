------------------------------- MODULE WriterLoop ------------------------------
(***************************************************************************)
(* The daemon's writer thread, its merge worker and watch intake.          *)
(*                                                                         *)
(*   ferret/src/daemon/writer.rs, writer/background.rs, commands.rs,       *)
(*   content.rs                                                            *)
(*                                                                         *)
(* Each step ends where another thread can see a difference.  A receive's  *)
(* timeout is "soon" when the watch held a burst as the deadline was       *)
(* computed, "far" otherwise (content, the poll, the hourly backstop), and *)
(* "never" while the host drains.  The inotify watch is taken to start.    *)
(***************************************************************************)
EXTENDS HostState

At(w) == writer.at = w

Goto(w) == writer' = [writer EXCEPT !.at = w]

\* Operation::drop
OperationDropped(h) == [h EXCEPT !.running = FALSE, !.wake = TRUE]

--------------------------------------------------------------------------------
(* load, and what start does when it fails.                                *)

\* The watch starts with a backstop to refresh.  Intake, the command lane or
\* the thread's priority may still fail.
LoadReady ==
    /\ At("load")
    /\ \/ /\ writer' = [writer EXCEPT !.at = "top", !.events = TRUE, !.intake = TRUE]
          /\ UNCHANGED spent
       \/ /\ Failing
          /\ \E i \in BOOLEAN :
                writer' = [writer EXCEPT !.at = "failing", !.events = TRUE, !.intake = i]
    /\ host' = OperationDropped([host EXCEPT !.loaded = "ready"])
    /\ conn' = ReadyNotified(conn)
    /\ UNCHANGED <<inbox, server>>

LoadFail ==
    /\ At("load") /\ Goto("unloaded")
    /\ Failing
    /\ host' = OperationDropped(host)
    /\ inbox' = QueueDropped
    /\ conn' = RepliesDropped(conn)
    /\ UNCHANGED server

LoadFailed ==
    /\ At("unloaded") /\ Goto("ended")
    /\ host' = [host EXCEPT !.loaded = "failed", !.pending = 0, !.wake = TRUE]
    /\ conn' = ReadyNotified(conn)
    /\ UNCHANGED <<inbox, server, spent>>

--------------------------------------------------------------------------------
(* The head of serve's loop and Queue::receive.                            *)

\* A variant of Top whose deadline leaves the watch's next_due out.
TopFar ==
    /\ At("top")
    /\ \/ host.stop /\ Goto("teardown")
       \/ /\ ~host.stop
          /\ writer' = [writer EXCEPT !.at = "try",
                                      !.timeout = IF host.draining THEN "never" ELSE "far"]
    /\ UNCHANGED <<host, inbox, conn, server, spent>>

Top ==
    /\ At("top")
    /\ \/ /\ host.stop
          /\ Goto("teardown")
       \/ /\ ~host.stop
          /\ writer' = [writer EXCEPT
                          !.at = "try",
                          !.timeout = IF host.draining THEN "never"
                                      ELSE IF writer.events THEN "soon" ELSE "far"]
    /\ UNCHANGED <<host, inbox, conn, server, spent>>

Taken ==
    /\ inbox.queue # <<>>
    /\ inbox' = [inbox EXCEPT !.queue = Tail(@)]
    /\ writer' = IF Head(inbox.queue) = Intake
                 THEN [writer EXCEPT !.at = "took"]
                 ELSE [writer EXCEPT !.at = "command", !.command = {Head(inbox.queue)}]

TryRecv ==
    /\ At("try")
    /\ \/ Taken
       \/ inbox.queue = <<>> /\ Goto("empty") /\ UNCHANGED inbox
    /\ UNCHANGED <<host, conn, server, spent>>

\* The queue is empty: a pending wakeup is delivered before blocking.
Empty ==
    /\ At("empty")
    /\ Goto(IF inbox.woken THEN "turn" ELSE "block")
    /\ inbox' = [inbox EXCEPT !.woken = FALSE]
    /\ UNCHANGED <<host, conn, server, spent>>

Blocked ==
    /\ At("block")
    /\ Taken
    /\ UNCHANGED <<host, conn, server, spent>>

TimeoutSoon ==
    /\ At("block") /\ writer.timeout = "soon" /\ Goto("turn")
    /\ UNCHANGED <<host, inbox, conn, server, spent>>

\* backstop_if_due and poll_if_due give the watch something to refresh;
\* otherwise content is due.
TimeoutFar ==
    /\ At("block") /\ writer.timeout = "far"
    /\ spent.events < MaxEvents
    /\ spent' = [spent EXCEPT !.events = @ + 1]
    /\ \/ Goto("turn")
       \/ writer' = [writer EXCEPT !.at = "turn", !.events = TRUE]
    /\ UNCHANGED <<host, inbox, conn, server>>

Took ==
    /\ At("took") /\ Goto("turn")
    /\ inbox' = [inbox EXCEPT !.woken = FALSE]
    /\ UNCHANGED <<host, conn, server, spent>>

--------------------------------------------------------------------------------
(* Background::turn.                                                       *)

\* Draining, or nothing is due yet.
TurnNothing ==
    /\ At("turn") /\ Goto("top")
    /\ UNCHANGED <<host, inbox, conn, server, spent>>

\* take_admitted found a burst that is due.
TurnRefresh ==
    /\ At("turn") /\ ~host.draining /\ writer.events
    /\ writer' = [writer EXCEPT !.at = "refresh", !.events = FALSE]
    /\ host' = [host EXCEPT !.running = TRUE]
    /\ UNCHANGED <<inbox, conn, server, spent>>

\* watch.finish and watch.defer keep the burst of a refresh that failed or
\* was put off.
RefreshEnd ==
    /\ At("refresh")
    /\ \/ Goto("top") /\ UNCHANGED spent
       \/ writer' = [writer EXCEPT !.at = "top", !.events = TRUE] /\ Failing
    /\ host' = OperationDropped(host)
    /\ UNCHANGED <<inbox, conn, server>>

\* No burst is due: content::turn joins a merge that ended and, unless the
\* writer is wanted elsewhere (urgent), follows the catalog.
TurnContent ==
    /\ At("turn") /\ ~host.draining
    /\ \/ /\ writer.merge = "broken"
          /\ writer' = [writer EXCEPT !.at = "failing", !.merge = "none"]
          /\ UNCHANGED host
       \/ /\ writer.merge # "broken"
          /\ ~host.stop /\ host.pending = 0
          /\ writer' = [writer EXCEPT !.at = "content",
                                      !.merge = IF @ = "finished" THEN "none" ELSE @]
          /\ host' = [host EXCEPT !.running = TRUE]
       \/ /\ writer.merge = "finished"
          /\ writer' = [writer EXCEPT !.at = "top", !.merge = "none"]
          /\ UNCHANGED host
    /\ UNCHANGED <<inbox, conn, server, spent>>

\* Caught up, it may start a merge.
ContentEnd ==
    /\ At("content")
    /\ \/ Goto("top") /\ UNCHANGED spent
       \/ /\ writer.merge = "none" /\ spent.merges < MaxMerges
          /\ writer' = [writer EXCEPT !.at = "top", !.merge = "running"]
          /\ spent' = [spent EXCEPT !.merges = @ + 1]
       \/ Goto("failing") /\ Failing
    /\ host' = OperationDropped(host)
    /\ UNCHANGED <<inbox, conn, server>>

--------------------------------------------------------------------------------
(* run_command: the command lane runs it while the writer waits.           *)

CommandStart ==
    /\ At("command") /\ Goto("lane")
    /\ host' = [host EXCEPT !.running = TRUE]
    /\ UNCHANGED <<inbox, conn, server, spent>>

\* A command whose change was put off or not written asks for a backstop.
CommandReply ==
    /\ At("lane")
    /\ \/ Goto("reply") /\ UNCHANGED spent
       \/ writer' = [writer EXCEPT !.at = "reply", !.events = TRUE] /\ Failing
    /\ conn' = [c \in Client |-> IF c \in writer.command
                                 THEN [conn[c] EXCEPT !.reply = "done"] ELSE conn[c]]
    /\ UNCHANGED <<host, inbox, server>>

CommandEnd ==
    /\ At("reply")
    /\ writer' = [writer EXCEPT !.at = "top", !.command = {}]
    /\ host' = OperationDropped([host EXCEPT !.pending = Released])
    /\ UNCHANGED <<inbox, conn, server, spent>>

\* A variant of CommandFail that keeps the reply's sender.
CommandFailHeld ==
    /\ At("lane")
    /\ Failing
    /\ writer' = [writer EXCEPT !.at = "failing", !.command = {}]
    /\ host' = OperationDropped(host)
    /\ UNCHANGED <<inbox, conn, server>>

\* The lane panicked: the unwinding writer drops the reply's sender.
CommandFail ==
    /\ At("lane")
    /\ Failing
    /\ writer' = [writer EXCEPT !.at = "failing", !.command = {}]
    /\ conn' = [c \in Client |-> IF c \in writer.command
                                 THEN [conn[c] EXCEPT !.reply = "dropped"] ELSE conn[c]]
    /\ host' = OperationDropped(host)
    /\ UNCHANGED <<inbox, server>>

--------------------------------------------------------------------------------
(* The end of the thread: content::State's drop joins the merge worker,    *)
(* the receiver goes, and a failure drains the host.                       *)

Joined == writer.merge \in {"none", "finished", "broken"}

Teardown ==
    /\ At("teardown") /\ Joined
    /\ writer' = [writer EXCEPT !.at = "ended", !.merge = "none"]
    /\ inbox' = QueueDropped
    /\ conn' = RepliesDropped(conn)
    /\ UNCHANGED <<host, server, spent>>

WriterFailing ==
    /\ At("failing") /\ Joined
    /\ writer' = [writer EXCEPT !.at = "failed", !.merge = "none"]
    /\ inbox' = QueueDropped
    /\ conn' = RepliesDropped(conn)
    /\ UNCHANGED <<host, server, spent>>

WriterFailed ==
    /\ At("failed") /\ Goto("ended")
    /\ host' = [host EXCEPT !.pending = 0, !.fatal = TRUE, !.draining = TRUE, !.wake = TRUE]
    /\ conn' = Drained(conn)
    /\ UNCHANGED <<inbox, server, spent>>

--------------------------------------------------------------------------------
(* The merge worker and watch intake.                                      *)

\* Done, cancelled by the teardown, or broken; MergeOperation's drop wakes
\* the writer and then the server.
MergeEnd ==
    /\ writer.merge = "running"
    /\ writer' = [writer EXCEPT !.merge = "bye"]
    /\ inbox' = [inbox EXCEPT !.waker["merge"] = "swap"]
    /\ UNCHANGED <<host, conn, server, spent>>

MergeBye ==
    /\ writer.merge = "bye"
    /\ inbox.waker["merge"] = "idle"
    /\ \/ writer' = [writer EXCEPT !.merge = "finished"] /\ UNCHANGED spent
       \/ writer' = [writer EXCEPT !.merge = "broken"] /\ Failing
    /\ host' = [host EXCEPT !.wake = TRUE]
    /\ UNCHANGED <<inbox, conn, server>>

\* run_intake: the watch takes the event, then the writer is woken.  (After a
\* stop the thread ends with the next event, which nobody sees.)
Event ==
    /\ writer.intake
    /\ inbox.waker["intake"] = "idle"
    /\ spent.events < MaxEvents
    /\ spent' = [spent EXCEPT !.events = @ + 1]
    /\ writer' = [writer EXCEPT !.events = TRUE]
    /\ inbox' = [inbox EXCEPT !.waker["intake"] = "swap"]
    /\ UNCHANGED <<host, conn, server>>

\* A read error, which asks for a backstop, or a panic.
IntakeFail ==
    /\ writer.intake /\ inbox.waker["intake"] = "idle"
    /\ Failing
    /\ \E e \in {writer.events, TRUE} :
          writer' = [writer EXCEPT !.intake = FALSE, !.events = e]
    /\ host' = [host EXCEPT !.fatal = TRUE, !.draining = TRUE, !.wake = TRUE]
    /\ conn' = Drained(conn)
    /\ UNCHANGED <<inbox, server>>

WriterStep ==
    \/ LoadReady \/ LoadFailed
    \/ Top \/ TryRecv \/ Empty \/ Blocked \/ TimeoutSoon \/ Took
    \/ TurnNothing \/ TurnRefresh \/ RefreshEnd \/ TurnContent \/ ContentEnd
    \/ CommandStart \/ CommandReply \/ CommandEnd
    \/ Teardown \/ WriterFailing \/ WriterFailed

MergeStep == MergeEnd \/ MergeBye
================================================================================
