---------------------------- MODULE MCDaemonCore ----------------------------
(* DaemonCore on a small instance: a mailbox of one request, a request      *)
(* channel of one request and an event channel of one event, so that all    *)
(* three are met full.                                                      *)
EXTENDS DaemonCore

(* A bound for the runs with two clients and the hosted transport: run()    *)
(* spawns the terminal watcher before any client is served, and here it has *)
(* blocked before the first of them connects.  All it does is set the       *)
(* shutdown flag, which a signal may do at any time.  The run of the        *)
(* clients alone lets it start as late as it likes.                         *)
WatcherFirst ==
  watcher \in {"start", "check"} /\ ~notified => \A c \in Clients : pc[c] = "gone"

(* The same bound on the steps: no client connects before. *)
ConnectAfterWatcher ==
  (\E c \in Clients : pc[c] = "gone" /\ pc'[c] = "idle") => watcher \notin {"start", "check"}

(* A bound on the file system and the keyring: no step of the cleanup       *)
(* fails.  A failure only changes the terminal state that finish() reports; *)
(* the other runs let every step fail.                                      *)
CleanupSucceeds == ~failed'

(* A bound on the server: it does not drop a session and reports no state   *)
(* during one.  One report before the session, one at its start and one at  *)
(* its end are enough to fill the event channel and to wait for room.       *)
SteadySession ==
  /\ ~(hosted = "connected" /\ hosted' = "connecting")
  /\ ~(hosted = "connected" /\ hosted' = "connected" /\ publishing = "none" /\ publishing' = "state")

=============================================================================
