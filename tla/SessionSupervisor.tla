------------------------- MODULE SessionSupervisor -------------------------
(***************************************************************************)
(* The v0.4 Supervisor of lib/jbl_aura_session.py: one process that holds  *)
(* the control sessions of both speakers, moves their roles on command,    *)
(* and records its state in a file that its replacement reads to decide    *)
(* whether the roles must be normalized first.  Writes to the speakers and *)
(* to the state file may fail, SIGTERM may come at any step, an exception  *)
(* other than SessionError may end the process while it connects or        *)
(* serves, and it may be killed between any two steps.                     *)
(***************************************************************************)
EXTENDS Naturals

CONSTANT MaxLeaving     \* bound on exiting processes past their lock release

ASSUME MaxLeavingAssumption == MaxLeaving \in Nat \ {0}

VARIABLES
    spc,        \* the step of the process that holds the session lock, or "down"
    sstate,     \* its state field
    file,       \* the state in the state file, "none" without one
    owed,       \* normalize_roles, until the normalization is published
    stopFor,    \* the caller of _best_effort_stop
    succeeded,  \* its local: no acknowledgement failed so far
    term,       \* shutdown_requested
    rc,         \* the exit code of the last process, once it is set
    leaving,    \* exiting processes that have yet to write "offline"
    overlap,    \* history: a later process was launched before they did
    late,       \* a write of this process timed out: its answer may come during a later one
    roles,      \* the speakers that are switched to Play Together
    forgot      \* history: a record of changed roles was lost that its replacement needs

svars == <<spc, sstate, file, owed, stopFor, succeeded, term, rc, leaving, overlap, late, roles, forgot>>

aside == <<leaving, overlap, late>>
data == <<sstate, file, owed, stopFor, succeeded, term, aside, roles>>

Speakers == {"jbl", "aura"}
RequiresNormalization == {"linked", "starting", "stopping", "degraded", "failed"}
States == RequiresNormalization \cup {"initializing", "connecting", "ready", "offline"}
Callers == {"normalize", "rollback", "stop", "shutdown", "term"}

\* What a process that leaves with state s and record f does not tell its
\* replacement: cleanup() replaces the record by "offline" unless the state is
\* failed or degraded.
Unrecorded(s, f) == roles # {} /\ ~(s \in {"failed", "degraded"} /\ f \in RequiresNormalization)

\* _set_state: memory first, then the file is replaced.  An OSError is no
\* SessionError: it leaves serve() at once, through cleanup().
SetState(s, next) ==
    /\ sstate' = s
    /\ \/ /\ file' = s /\ spc' = next
          /\ rc' = IF next = "cleanup" THEN 0 ELSE rc
          /\ UNCHANGED forgot
       \/ /\ spc' = "cleanup" /\ rc' = 1
          /\ forgot' = (forgot \/ Unrecorded(s, file))
          /\ UNCHANGED file

SInit ==
    /\ spc = "down" /\ sstate = "initializing" /\ file \in {"none", "offline"}
    /\ owed = FALSE /\ stopFor = "stop" /\ succeeded = TRUE
    /\ term = FALSE /\ rc = 0 /\ leaving = 0 /\ overlap = FALSE /\ late = FALSE
    /\ roles = {} /\ forgot = FALSE

\* serve() takes the session lock; connect_sessions() reads the file of the
\* previous process and replaces it.
Launch ==
    /\ spc = "down" /\ leaving < MaxLeaving
    /\ owed' = (file \in RequiresNormalization)
    /\ overlap' = (leaving > 0) /\ late' = FALSE
    /\ SetState("connecting", "connect")
    /\ UNCHANGED <<stopFor, succeeded, term, leaving, roles>>

\* _connect_aura over LE or BR/EDR, then the JBL session, in any of its attempts.
ConnectedForgettingOwed ==
    /\ spc = "connect"
    /\ SetState("ready", "bind")
    /\ UNCHANGED <<owed, stopFor, succeeded, term, aside, roles>>
Connected ==
    /\ spc = "connect"
    /\ SetState("ready", IF owed THEN "off" ELSE "bind")
    /\ stopFor' = "normalize" /\ succeeded' = TRUE
    /\ UNCHANGED <<owed, term, aside, roles>>

\* The deadline passed, shutdown was requested while waiting, or JBL refused.
ConnectFailed ==
    /\ spc = "connect"
    /\ spc' = "fail"
    /\ UNCHANGED <<data, rc, forgot>>

\* An exception that serve() does not catch leaves it through cleanup() with
\* the state as it is: gatttool or its reader thread cannot be started, or
\* cannot be ended before the next attempt; accept() or recv() fails; or a
\* reply fails for another reason than a client that left.
Raise ==
    /\ spc \in {"connect", "accept", "reply", "bye"}
    /\ spc' = "cleanup" /\ rc' = 1
    /\ forgot' = (forgot \/ Unrecorded(sstate, file))
    /\ UNCHANGED data

BindServer ==
    /\ spc = "bind"
    /\ \/ spc' = "loop" /\ UNCHANGED rc
       \/ spc' = "cleanup" /\ rc' = 1
    /\ UNCHANGED <<data, forgot>>

\* The head of the serve loop.
Loop ==
    /\ spc = "loop" /\ ~term
    /\ \/ sstate = "degraded" /\ spc' = "fail"
       \/ sstate # "degraded" /\ spc' \in {"accept", "fail"}    \* "fail": a bearer disconnected
    /\ UNCHANGED <<data, rc, forgot>>

\* The loop ends on SIGTERM: stop_link unless the state is ready.
Terminate ==
    /\ spc = "loop" /\ term
    /\ IF sstate = "ready"
       THEN /\ spc' = "cleanup" /\ rc' = 0
            /\ UNCHANGED <<sstate, file, stopFor, succeeded, forgot>>
       ELSE /\ SetState("stopping", "off")
            /\ stopFor' = "term" /\ succeeded' = TRUE
    /\ UNCHANGED <<owed, term, aside, roles>>

\* accept() times out, or there is only a reply: the command is status or
\* unknown, or start and stop find their state reached or refuse.
ReplyOnly ==
    /\ spc = "accept"
    /\ spc' \in {"loop", "reply"}
    /\ UNCHANGED <<data, rc, forgot>>

\* The reply to the client, which may have left; "bye" is the one of a shutdown
\* that was carried out, after which the loop ends.
Replied ==
    /\ \/ spc = "reply" /\ spc' = "loop" /\ UNCHANGED rc
       \/ spc = "bye" /\ spc' = "cleanup" /\ rc' = 0
    /\ UNCHANGED <<data, forgot>>

StartLink ==
    /\ spc = "accept" /\ sstate = "ready"
    /\ SetState("starting", "enter")
    /\ UNCHANGED <<owed, stopFor, succeeded, term, aside, roles>>

StopLink(caller) ==
    /\ spc = "accept" /\ sstate = "linked"
    /\ SetState("stopping", "off")
    /\ stopFor' = caller /\ succeeded' = TRUE
    /\ UNCHANGED <<owed, term, aside, roles>>

ShutdownReady ==
    /\ spc = "accept" /\ sstate = "ready"
    /\ spc' = "bye"
    /\ UNCHANGED <<data, rc, forgot>>

\* start_link: JBL enter, JBL start, Aura on.  Only enter and on move a role;
\* the acknowledgement of the start frame says nothing about one.
After == [enter |-> "start", start |-> "on", on |-> "started", off |-> "stop", stop |-> "exit", exit |-> "stopped"]
Written(step) ==
    CASE step = "enter" -> roles \cup {"jbl"}
      [] step = "on" -> roles \cup {"aura"}
      [] step = "off" -> roles \ {"aura"}
      [] step = "exit" -> roles \ {"jbl"}
      [] OTHER -> roles

\* GattSession.command sees an acknowledgement, which after an earlier timeout
\* may be the one of that earlier write.
Write ==
    /\ spc \in DOMAIN After
    /\ roles' \in {Written(spc)} \cup (IF late THEN {roles} ELSE {})
    /\ spc' = After[spc]
    /\ IF roles' # Written(spc) /\ stopFor = "term"
       THEN forgot' = TRUE
       ELSE forgot' = (forgot /\ ~(spc = "exit" /\ succeeded /\ ~late))
    /\ UNCHANGED <<sstate, file, owed, stopFor, succeeded, term, rc, aside>>

\* A failed write may have been applied.  The start sequence ends there; the
\* stop sequence goes on and remembers it.
StopGivingUp ==
    /\ spc \in DOMAIN After
    /\ roles' \in {roles, Written(spc)}
    /\ spc' = IF spc \in {"enter", "start", "on"} THEN "startfailed" ELSE After[spc]
    /\ late' = TRUE
    /\ UNCHANGED <<sstate, file, owed, stopFor, succeeded, term, rc, leaving, overlap, forgot>>
StartGoingOn ==
    /\ spc \in DOMAIN After
    /\ roles' \in {roles, Written(spc)}
    /\ spc' = After[spc]
    /\ succeeded' = (succeeded /\ spc \in {"enter", "start", "on"})
    /\ late' = TRUE
    /\ UNCHANGED <<sstate, file, owed, stopFor, term, rc, leaving, overlap, forgot>>
WriteFailed ==
    /\ spc \in DOMAIN After
    /\ roles' \in {roles, Written(spc)}
    /\ IF spc \in {"enter", "start", "on"}
       THEN spc' = "startfailed" /\ UNCHANGED succeeded
       ELSE spc' = After[spc] /\ succeeded' = FALSE
    /\ late' = TRUE
    /\ UNCHANGED <<sstate, file, owed, stopFor, term, rc, leaving, overlap, forgot>>

Started ==
    /\ spc = "started"
    /\ SetState("linked", "reply")
    /\ UNCHANGED <<owed, stopFor, succeeded, term, aside, roles>>

StartRollback ==
    /\ spc = "startfailed"
    /\ SetState("degraded", "off")
    /\ stopFor' = "rollback" /\ succeeded' = TRUE
    /\ UNCHANGED <<owed, term, aside, roles>>

\* What follows a stop sequence: start_link re-raises, everyone else publishes
\* ready or degraded.
StoppedRollback ==
    /\ spc = "stopped" /\ stopFor = "rollback"
    /\ spc' = "reply"
    /\ UNCHANGED <<data, rc, forgot>>

AfterReady == [normalize |-> "bind", stop |-> "reply", shutdown |-> "bye", term |-> "cleanup"]
AfterDegraded == [normalize |-> "fail", stop |-> "reply", shutdown |-> "reply", term |-> "cleanup"]

Stopped ==
    /\ spc = "stopped" /\ stopFor # "rollback"
    /\ IF succeeded THEN SetState("ready", AfterReady[stopFor])
                    ELSE SetState("degraded", AfterDegraded[stopFor])
    /\ owed' = FALSE
    /\ UNCHANGED <<stopFor, succeeded, term, aside, roles>>

\* The handler of a SessionError.
Fatal ==
    /\ spc = "fail"
    /\ sstate' = "failed" /\ file' \in {"failed", file}
    /\ spc' = "cleanup" /\ rc' = 1
    /\ forgot' = (forgot \/ Unrecorded("failed", file'))
    /\ UNCHANGED <<owed, stopFor, succeeded, term, aside, roles>>

\* cleanup() up to the release of the session lock ...
CleanupOffline ==
    /\ spc = "cleanup"
    /\ spc' = "down"
    /\ leaving' = leaving + 1
    /\ term' = FALSE /\ owed' = FALSE
    /\ UNCHANGED <<sstate, file, stopFor, succeeded, rc, overlap, late, roles, forgot>>
Cleanup ==
    /\ spc = "cleanup"
    /\ spc' = "down"
    /\ leaving' = IF sstate \in {"failed", "degraded"} THEN leaving ELSE leaving + 1
    /\ term' = FALSE /\ owed' = FALSE
    /\ UNCHANGED <<sstate, file, stopFor, succeeded, rc, overlap, late, roles, forgot>>

\* ... and the write of "offline" that follows it, whose failure is ignored.
WriteOffline ==
    /\ leaving > 0
    /\ leaving' = leaving - 1
    /\ file' \in {"offline", file}
    /\ overlap' = (overlap /\ leaving' > 0)
    /\ forgot' = (forgot \/ (overlap /\ file' # file /\ file \in RequiresNormalization))
    /\ UNCHANGED <<spc, sstate, owed, stopFor, succeeded, term, rc, late, roles>>

RequestShutdown ==
    /\ spc \notin {"down", "cleanup"}
    /\ term' = TRUE
    /\ UNCHANGED <<spc, sstate, file, owed, stopFor, succeeded, rc, aside, roles, forgot>>

\* SIGKILL; in cleanup() also a session that will not be closed.
Kill ==
    /\ spc # "down"
    /\ spc' = "down" /\ rc' = 1
    /\ term' = FALSE /\ owed' = FALSE
    /\ forgot' = (forgot \/ (owed /\ roles # {}))
    /\ UNCHANGED <<sstate, file, stopFor, succeeded, aside, roles>>

Command == StartLink \/ \E caller \in {"stop", "shutdown"} : StopLink(caller) \/ ShutdownReady
Progress ==
    \/ Connected \/ BindServer \/ Loop \/ Terminate \/ ReplyOnly \/ Replied
    \/ Write \/ Started \/ StartRollback \/ StoppedRollback \/ Stopped
    \/ Fatal \/ Cleanup \/ WriteOffline

SNext ==
    \/ Launch \/ Progress \/ Command
    \/ ConnectFailed \/ WriteFailed \/ Raise \/ RequestShutdown \/ Kill

SSpec == SInit /\ [][SNext]_svars

\* A step that fails, disconnects or ends the process from outside.
Disturbance ==
    \/ ConnectFailed \/ WriteFailed \/ Raise \/ RequestShutdown \/ Kill
    \/ spc # "fail" /\ spc' = "cleanup" /\ rc' = 1
    \/ spc = "fail" /\ spc' = "cleanup" /\ file' # "failed"
    \/ spc = "loop" /\ spc' = "fail" /\ sstate # "degraded"

\* Restart=on-failure without a start limit, a process that goes on, and
\* disturbances that end.
SLive ==
    /\ SSpec
    /\ WF_svars(rc = 1 /\ Launch) /\ WF_svars(Progress)
    /\ <>[][~Disturbance]_svars

-----------------------------------------------------------------------------
(* Properties *)

Serving == spc \in {"loop", "accept", "reply", "bye"}

\* "If the prior state could have changed speaker roles, the replacement daemon
\* sends the verified OFF/STOP/EXIT sequence before it publishes `ready`"
\* (README.md): a supervisor that answers ready has no speaker in its role.
ReadyMeansReleased == Serving /\ sstate = "ready" => roles = {}

\* The same, except where a record of changed roles was lost: by a kill between
\* the file's "connecting" and the end of the normalization, by a failed
\* replacement of the file, by an exception that serve() does not catch (Raise)
\* and the "offline" that cleanup() then writes, by the late "offline" of an
\* earlier process, or by a stop on SIGTERM that took the answer of a timed-out
\* write for its own.
ReadyReleasedUnlessForgotten == ~forgot => ReadyMeansReleased

\* While no supervisor runs and a speaker is still in its role, the state file
\* makes the next supervisor normalize it: whichever writes to the speakers
\* failed, whenever a session was lost and wherever the process was killed, the
\* record goes only in the five ways named above.
RolesOnRecord == spc = "down" /\ roles # {} /\ ~forgot => file \in RequiresNormalization

\* A supervisor that answers linked has switched both speakers, and it reaches
\* that only by acknowledged writes.
LinkedTrue == Serving /\ sstate = "linked" => roles = Speakers

\* After a failed exit with roles on record, systemd's restarts end in a
\* supervisor that serves ready with both speakers released, once speakers,
\* files and operators stop failing it, unless one is told to end (rc 0).
RestartNormalizes ==
    spc = "down" /\ rc = 1 /\ file \in RequiresNormalization
        ~> \/ spc = "accept" /\ sstate = "ready" /\ (roles = {} \/ forgot)
           \/ spc = "down" /\ rc = 0
=============================================================================
