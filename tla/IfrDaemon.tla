------------------------------ MODULE IfrDaemon ------------------------------
(***************************************************************************)
(* Starting and stopping the server on Unix: the invoked process forks and *)
(* waits on a pipe; the child checks and writes the pidfile, initialises   *)
(* the Repository, tells its parent, and serves until a signal or a crash  *)
(* ends it.  Whoever leaves through exit() or main() passes through        *)
(* DaemonImpl::shutdown(), which removes the pidfile and tells the parent. *)
(*                                                                         *)
(* All invocations name the same pidfile (-P).  A step is one or a few     *)
(* system calls with nothing shared between them.                          *)
(***************************************************************************)
EXTENDS Naturals, FiniteSets

CONSTANTS
    Procs,      \* servers that can be started; one that ended can start again
    Pids,       \* process ids; one that is free is used again
    NoPid,
    HaveOnExit  \* configure found on_exit(), which passes the exit status on

ASSUME DaemonAssumption ==
    /\ NoPid \notin Pids \cup {"absent", "empty"}
    /\ Pids \cap {"absent", "empty"} = {}
    /\ HaveOnExit \in BOOLEAN

VARIABLES
    pc,          \* where the child is in main(); "idle" when there is none
    pid,         \* its process id
    parent,      \* "none", "waiting", "killed", or the exit status of the parent
    pipe,        \* the status in the pipe, or "empty"
    pidfile,     \* "absent", "empty" or a process id
    havePidfile, \* DaemonImpl::_havePidfile
    haveParent,  \* DaemonImpl::_haveParent
    status       \* the argument of shutdown()

vars == <<pc, pid, parent, pipe, pidfile, havePidfile, haveParent, status>>

Places ==
    {"idle", "check", "truncate", "write", "detach", "init", "ready", "serving",
     "unlink", "notify", "end"}
Alive(p) == pc[p] # "idle"
Goto(p, place) == pc' = [pc EXCEPT ![p] = place]

-----------------------------------------------------------------------------

\* The invocation, up to daemonize() and fork(); with -f there is no fork.
Start(p) ==
    /\ pc[p] = "idle" /\ parent[p] # "waiting"
    /\ Goto(p, "check")
    /\ \E i \in Pids :
        /\ \A q \in Procs : Alive(q) => pid[q] # i
        /\ pid' = [pid EXCEPT ![p] = i]
    /\ \E foreground \in BOOLEAN :
        /\ haveParent' = [haveParent EXCEPT ![p] = ~ foreground]
        /\ parent' = [parent EXCEPT ![p] =
                        IF foreground THEN "none" ELSE "waiting"]
    /\ pipe' = [pipe EXCEPT ![p] = "empty"]
    /\ UNCHANGED <<pidfile, havePidfile, status>>

\* exit(): the exit handler calls shutdown(), with the status where on_exit()
\* exists and with 0 where only atexit() does.
ExitFailed(p) ==
    /\ Goto(p, "unlink")
    /\ status' = [status EXCEPT ![p] = IF HaveOnExit THEN "failed" ELSE "ok"]

\* main() returns, with 0 or with 1: ~Daemon() calls shutdown(0) first.
LeaveMain(p) ==
    /\ Goto(p, "unlink")
    /\ status' = [status EXCEPT ![p] = "ok"]

\* checkPidfileOrShutdown(): kill(pidFromFile, 0) finds any running process,
\* this one too when it was given the process id of a server that crashed.  It
\* also quits over a process that is no server, and when it cannot read the file
\* or ask about the process.
CheckPidfile(p) ==
    /\ pc[p] = "check"
    /\ \/ ExitFailed(p)
       \/ /\ ~ \E q \in Procs : Alive(q) /\ pid[q] = pidfile
          /\ Goto(p, "truncate") /\ status' = status
    /\ UNCHANGED <<pid, parent, pipe, pidfile, havePidfile, haveParent>>

\* writePidfile(): the file is opened (and truncated), then written.
TruncatePidfile(p) ==
    /\ pc[p] = "truncate"
    /\ pidfile' = "empty"
    /\ Goto(p, "write")
    /\ UNCHANGED <<pid, parent, pipe, havePidfile, haveParent, status>>

WritePidfile(p) ==
    /\ pc[p] = "write"
    /\ pidfile' = pid[p]
    /\ havePidfile' = [havePidfile EXCEPT ![p] = TRUE]
    /\ Goto(p, "detach")
    /\ UNCHANGED <<pid, parent, pipe, haveParent, status>>

\* redirectStreamsTo(): /dev/null and the trace file are opened, or exit().
RedirectStreams(p) ==
    \/ Goto(p, "init") /\ status' = status
    \/ ExitFailed(p)

\* The rest of daemonize(): exit() when chdir() fails; without a trace file it is
\* syslog, which cannot fail.
Detach(p) ==
    /\ pc[p] = "detach"
    /\ \/ ExitFailed(p)
       \/ RedirectStreams(p)
       \/ Goto(p, "init") /\ status' = status
    /\ UNCHANGED <<pid, parent, pipe, pidfile, havePidfile, haveParent>>

\* main() and Repository_impl::init(): done, a CORBA exception that main()
\* catches, or exit() with a failure.
Initialise(p) ==
    /\ pc[p] = "init"
    /\ \/ Goto(p, "ready") /\ status' = status
       \/ LeaveMain(p)
       \/ ExitFailed(p)
    /\ UNCHANGED <<pid, parent, pipe, pidfile, havePidfile, haveParent>>

\* notifyParent(): write to the pipe and close it, if there is a parent.
NotifyParent(p, s) ==
    /\ haveParent' = [haveParent EXCEPT ![p] = FALSE]
    /\ pipe' = IF haveParent[p] THEN [pipe EXCEPT ![p] = s] ELSE pipe

\* runningOk().
RunningOk_NothingWritten(p) ==
    /\ pc[p] = "ready"
    /\ Goto(p, "serving")
    /\ haveParent' = [haveParent EXCEPT ![p] = FALSE]
    /\ UNCHANGED <<pid, parent, pipe, pidfile, havePidfile, status>>
RunningOk(p) ==
    /\ pc[p] = "ready"
    /\ Goto(p, "serving")
    /\ NotifyParent(p, "ok")
    /\ UNCHANGED <<pid, parent, pidfile, havePidfile, status>>

\* SIGTERM or SIGINT, once their handler is there.
Terminate(p) ==
    /\ pc[p] = "serving"
    /\ LeaveMain(p)
    /\ UNCHANGED <<pid, parent, pipe, pidfile, havePidfile, haveParent>>

\* shutdown(): remove the pidfile if this process has written one.
RemovePidfile_Always(p) ==
    /\ pc[p] = "unlink"
    /\ pidfile' = "absent"
    /\ havePidfile' = [havePidfile EXCEPT ![p] = FALSE]
    /\ Goto(p, "notify")
    /\ UNCHANGED <<pid, parent, pipe, haveParent, status>>
RemovePidfile(p) ==
    /\ pc[p] = "unlink"
    /\ IF havePidfile[p]
       THEN /\ pidfile' = "absent"
            /\ status' = IF pidfile = "absent"
                         THEN [status EXCEPT ![p] = "failed"] ELSE status
       ELSE UNCHANGED <<pidfile, status>>
    /\ havePidfile' = [havePidfile EXCEPT ![p] = FALSE]
    /\ Goto(p, "notify")
    /\ UNCHANGED <<pid, parent, pipe, haveParent>>

\* shutdown(): tell the parent.
TellParent(p) ==
    /\ pc[p] = "notify"
    /\ Goto(p, "end")
    /\ NotifyParent(p, status[p])
    /\ UNCHANGED <<pid, parent, pidfile, havePidfile, status>>

\* The process is gone and so are its variables and its end of the pipe.
Gone(p) ==
    /\ Goto(p, "idle")
    /\ pid' = [pid EXCEPT ![p] = NoPid]
    /\ havePidfile' = [havePidfile EXCEPT ![p] = FALSE]
    /\ haveParent' = [haveParent EXCEPT ![p] = FALSE]
    /\ status' = [status EXCEPT ![p] = "ok"]
    /\ UNCHANGED <<parent, pipe, pidfile>>

End(p) == pc[p] = "end" /\ Gone(p)

\* abort(), a segmentation fault, SIGKILL; any signal before its handler is
\* there, SIGUSR2 included.
Crash(p) == Alive(p) /\ Gone(p)

\* waitForChild(): the parent reads a status, or the end of the file once the
\* child has closed the pipe, and exits.
ParentExits_WriteEndOpen(p) ==
    /\ parent[p] = "waiting"
    /\ pipe[p] # "empty"
    /\ parent' = [parent EXCEPT ![p] = pipe[p]]
    /\ UNCHANGED <<pc, pid, pipe, pidfile, havePidfile, haveParent, status>>
ParentExits(p) ==
    /\ parent[p] = "waiting"
    /\ pipe[p] # "empty" \/ ~ haveParent[p]
    /\ parent' = [parent EXCEPT ![p] =
                    IF pipe[p] = "empty" THEN "failed" ELSE pipe[p]]
    /\ UNCHANGED <<pc, pid, pipe, pidfile, havePidfile, haveParent, status>>

\* The parent is killed while it waits; the child does not notice.
ParentKilled(p) ==
    /\ parent[p] = "waiting"
    /\ parent' = [parent EXCEPT ![p] = "killed"]
    /\ UNCHANGED <<pc, pid, pipe, pidfile, havePidfile, haveParent, status>>

Init ==
    /\ pc = [p \in Procs |-> "idle"]
    /\ pid = [p \in Procs |-> NoPid]
    /\ parent = [p \in Procs |-> "none"]
    /\ pipe = [p \in Procs |-> "empty"]
    /\ pidfile = "absent"
    /\ havePidfile = [p \in Procs |-> FALSE]
    /\ haveParent = [p \in Procs |-> FALSE]
    /\ status = [p \in Procs |-> "ok"]

\* What a process does by itself once it was started.
Proceed(p) ==
    \/ CheckPidfile(p)
    \/ TruncatePidfile(p)
    \/ WritePidfile(p)
    \/ Detach(p)
    \/ Initialise(p)
    \/ RunningOk(p)
    \/ RemovePidfile(p)
    \/ TellParent(p)
    \/ End(p)

Next ==
    \E p \in Procs :
        \/ Start(p)
        \/ Proceed(p)
        \/ Terminate(p)
        \/ Crash(p)
        \/ ParentExits(p)
        \/ ParentKilled(p)

\* The operating system runs every process that can run.
Spec ==
    /\ Init /\ [][Next]_vars
    /\ \A p \in Procs : WF_vars(Proceed(p)) /\ WF_vars(ParentExits(p))

-----------------------------------------------------------------------------
(* Properties.                                                             *)

TypeOK ==
    /\ pc \in [Procs -> Places]
    /\ pid \in [Procs -> Pids \cup {NoPid}]
    /\ parent \in [Procs -> {"none", "waiting", "killed", "ok", "failed"}]
    /\ pipe \in [Procs -> {"empty", "ok", "failed"}]
    /\ pidfile \in Pids \cup {"absent", "empty"}
    /\ havePidfile \in [Procs -> BOOLEAN]
    /\ haveParent \in [Procs -> BOOLEAN]
    /\ status \in [Procs -> {"ok", "failed"}]

\* A start that was reported as failed has left no server behind: the child is
\* gone or on its way out (daemon_unix.cc:445-476).
FailedIsFailed ==
    \A p \in Procs : parent[p] = "failed" => pc[p] \in {"idle", "end"}

\* A process that has not passed its check of the pidfile, or was refused by it.
Harmless(q) ==
    \/ pc[q] \in {"idle", "check"}
    \/ pc[q] \in {"unlink", "notify", "end"} /\ ~ havePidfile[q]

\* Once the pidfile names a server, and no other process is past its own check
\* of the file, the file stays until that server takes it away or ends: a start
\* that is refused removes nothing (daemon_unix.cc:239, 283-335).
PidfileRespected ==
    [][\A p \in Procs :
        (/\ Alive(p) /\ pidfile = pid[p] /\ pc[p] # "unlink"
         /\ \A q \in Procs \ {p} : Harmless(q)) => pidfile' = pidfile]_vars

\* The command that starts the server comes back, whatever happens to the child
\* and whenever (daemon_unix.cc:384-388, 445-459).
ParentReleased ==
    \A p \in Procs : parent[p] = "waiting" ~> parent[p] # "waiting"

\* daemon_unix.h:100-102: the status "is usually '0' - indicating that the daemon
\* has started successfully".  Not so when an exception reaches main(): the
\* parent reports success while the child, which never served, is leaving.
SuccessIsSuccess ==
    [][\A p \in Procs :
        (pipe[p] = "empty" /\ pipe'[p] = "ok") => pc'[p] = "serving"]_vars

=============================================================================
