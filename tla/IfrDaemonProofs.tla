--------------------------- MODULE IfrDaemonProofs ---------------------------
(***************************************************************************)
(* IfrDaemon, for any number of servers and process ids: a start reported  *)
(* as failed leaves no server behind, and a pidfile that names a server is *)
(* left alone by processes that their own check of it stopped.             *)
(***************************************************************************)
EXTENDS IfrDaemon, TLAPS

\* A failure is only ever reported by a child that is done; and as long as it is
\* not, it holds the write end of the pipe.
Reported ==
    \A p \in Procs :
        /\ pipe[p] = "failed" => pc[p] \in {"idle", "end"}
        /\ (parent[p] = "waiting" /\ pipe[p] = "empty" /\ pc[p] # "idle")
            => haveParent[p]

\* Running processes have different process ids, and one that is past its check
\* does not find itself in the pidfile before it has written it.
PidsDistinct ==
    /\ \A p, q \in Procs :
        (p # q /\ Alive(p) /\ Alive(q)) => pid[p] # pid[q]
    /\ \A p \in Procs : Alive(p) => pid[p] \in Pids
NotYetNamed ==
    \A p \in Procs : pc[p] \in {"truncate", "write"} => pidfile # pid[p]

DInv == TypeOK /\ FailedIsFailed /\ Reported /\ PidsDistinct /\ NotYetNamed

\* The invariant holds before the first start.
LEMMA DInvInit == Init => DInv
BY DEF Init, DInv, TypeOK, Places, FailedIsFailed, Reported, PidsDistinct,
       NotYetNamed, Alive

\* Every step keeps the types.
LEMMA TypeStep ==
    ASSUME DaemonAssumption, TypeOK, PidsDistinct, [Next]_vars PROVE TypeOK'
<1> USE DEF TypeOK, Places, Goto
<1>1. ASSUME NEW p \in Procs, Start(p) PROVE TypeOK'
  BY <1>1 DEF Start
<1>2. ASSUME NEW p \in Procs, CheckPidfile(p) PROVE TypeOK'
  BY <1>2 DEF CheckPidfile, ExitFailed
<1>3. ASSUME NEW p \in Procs, TruncatePidfile(p) PROVE TypeOK'
  BY <1>3 DEF TruncatePidfile
<1>4. ASSUME NEW p \in Procs, WritePidfile(p) PROVE TypeOK'
  BY <1>4 DEF WritePidfile, PidsDistinct, Alive
<1>5. ASSUME NEW p \in Procs, Detach(p) \/ Initialise(p) PROVE TypeOK'
  BY <1>5 DEF Detach, RedirectStreams, Initialise, LeaveMain, ExitFailed
<1>6. ASSUME NEW p \in Procs, RunningOk(p) PROVE TypeOK'
  BY <1>6 DEF RunningOk, NotifyParent
<1>7. ASSUME NEW p \in Procs, Terminate(p) PROVE TypeOK'
  BY <1>7 DEF Terminate, LeaveMain
<1>8. ASSUME NEW p \in Procs, RemovePidfile(p) PROVE TypeOK'
  BY <1>8 DEF RemovePidfile
<1>9. ASSUME NEW p \in Procs, TellParent(p) PROVE TypeOK'
  BY <1>9 DEF TellParent, NotifyParent
<1>10. ASSUME NEW p \in Procs, Gone(p) PROVE TypeOK'
  BY <1>10 DEF Gone
<1>11. ASSUME NEW p \in Procs, ParentExits(p) \/ ParentKilled(p) PROVE TypeOK'
  BY <1>11 DEF ParentExits, ParentKilled
<1>12. CASE UNCHANGED vars
  BY <1>12 DEF vars
<1> QED
  BY <1>1, <1>2, <1>3, <1>4, <1>5, <1>6, <1>7, <1>8, <1>9, <1>10, <1>11, <1>12
     DEF Next, Proceed, End, Crash

\* Every step keeps what is known of the pipe and of the parent.
LEMMA ReportStep ==
    ASSUME TypeOK, FailedIsFailed, Reported, [Next]_vars
    PROVE FailedIsFailed' /\ Reported'
<1> USE DEF TypeOK, Places, Goto, FailedIsFailed, Reported
<1> DEFINE Goal == FailedIsFailed' /\ Reported'
<1>1. ASSUME NEW p \in Procs, Start(p) PROVE Goal
  <2>1. \A q \in Procs \ {p} : /\ pc'[q] = pc[q] /\ pipe'[q] = pipe[q]
                              /\ parent'[q] = parent[q]
                              /\ haveParent'[q] = haveParent[q]
    BY <1>1 DEF Start
  <2>2. pipe'[p] = "empty" /\ (parent'[p] = "waiting" => haveParent'[p])
    BY <1>1 DEF Start
  <2>3. status' = status /\ parent'[p] \in {"none", "waiting"}
    BY <1>1 DEF Start
  <2> QED
    BY <2>1, <2>2, <2>3
<1>2. ASSUME NEW p \in Procs, CheckPidfile(p) PROVE Goal
  BY <1>2 DEF CheckPidfile, ExitFailed
<1>3. ASSUME NEW p \in Procs, TruncatePidfile(p) \/ WritePidfile(p) PROVE Goal
  BY <1>3 DEF TruncatePidfile, WritePidfile
<1>5. ASSUME NEW p \in Procs, Detach(p) \/ Initialise(p) PROVE Goal
  BY <1>5 DEF Detach, RedirectStreams, Initialise, LeaveMain, ExitFailed
<1>6. ASSUME NEW p \in Procs, RunningOk(p) PROVE Goal
  BY <1>6 DEF RunningOk, NotifyParent
<1>7. ASSUME NEW p \in Procs, Terminate(p) PROVE Goal
  BY <1>7 DEF Terminate, LeaveMain
<1>8. ASSUME NEW p \in Procs, RemovePidfile(p) PROVE Goal
  BY <1>8 DEF RemovePidfile
<1>9. ASSUME NEW p \in Procs, TellParent(p) PROVE Goal
  BY <1>9 DEF TellParent, NotifyParent
<1>10. ASSUME NEW p \in Procs, Gone(p) PROVE Goal
  BY <1>10 DEF Gone
<1>11. ASSUME NEW p \in Procs, ParentExits(p) \/ ParentKilled(p) PROVE Goal
  BY <1>11 DEF ParentExits, ParentKilled
<1>12. CASE UNCHANGED vars
  BY <1>12 DEF vars
<1> QED
  BY <1>1, <1>2, <1>3, <1>5, <1>6, <1>7, <1>8, <1>9, <1>10, <1>11, <1>12
     DEF Next, Proceed, End, Crash

\* Every step keeps the process ids apart and out of the pidfile until written.
LEMMA PidStep ==
    ASSUME DaemonAssumption, TypeOK, PidsDistinct, NotYetNamed, [Next]_vars
    PROVE PidsDistinct' /\ NotYetNamed'
<1> USE DEF TypeOK, Places, Goto, PidsDistinct, NotYetNamed, Alive,
            DaemonAssumption
<1> DEFINE Goal == PidsDistinct' /\ NotYetNamed'
<1>1. ASSUME NEW p \in Procs, Start(p) PROVE Goal
  BY <1>1 DEF Start
<1>2. ASSUME NEW p \in Procs, CheckPidfile(p) PROVE Goal
  BY <1>2 DEF CheckPidfile, ExitFailed
<1>3. ASSUME NEW p \in Procs, TruncatePidfile(p) PROVE Goal
  BY <1>3 DEF TruncatePidfile
<1>4. ASSUME NEW p \in Procs, WritePidfile(p) PROVE Goal
  BY <1>4 DEF WritePidfile
<1>5. ASSUME NEW p \in Procs, Detach(p) \/ Initialise(p) PROVE Goal
  BY <1>5 DEF Detach, RedirectStreams, Initialise, LeaveMain, ExitFailed
<1>6. ASSUME NEW p \in Procs, RunningOk(p) \/ TellParent(p) PROVE Goal
  BY <1>6 DEF RunningOk, TellParent, NotifyParent
<1>7. ASSUME NEW p \in Procs, Terminate(p) PROVE Goal
  BY <1>7 DEF Terminate, LeaveMain
<1>8. ASSUME NEW p \in Procs, RemovePidfile(p) PROVE Goal
  BY <1>8 DEF RemovePidfile
<1>10. ASSUME NEW p \in Procs, Gone(p) PROVE Goal
  BY <1>10 DEF Gone
<1>11. ASSUME NEW p \in Procs, ParentExits(p) \/ ParentKilled(p) PROVE Goal
  BY <1>11 DEF ParentExits, ParentKilled
<1>12. CASE UNCHANGED vars
  BY <1>12 DEF vars
<1> QED
  BY <1>1, <1>2, <1>3, <1>4, <1>5, <1>6, <1>7, <1>8, <1>10, <1>11, <1>12
     DEF Next, Proceed, End, Crash

\* Only three kinds of step touch the pidfile, and none of them is taken by a
\* harmless process, or by the server it names unless that one is leaving.
LEMMA RespectStep ==
    ASSUME TypeOK, PidsDistinct, NotYetNamed, [Next]_vars,
           NEW p \in Procs, Alive(p), pidfile = pid[p], pc[p] # "unlink",
           \A q \in Procs \ {p} : Harmless(q)
    PROVE pidfile' = pidfile
<1> USE DEF TypeOK, NotYetNamed, Harmless
<1>1. ASSUME NEW q \in Procs, TruncatePidfile(q) \/ WritePidfile(q) PROVE FALSE
  BY <1>1 DEF TruncatePidfile, WritePidfile
<1>2. ASSUME NEW q \in Procs, RemovePidfile(q) PROVE pidfile' = pidfile
  BY <1>2 DEF RemovePidfile
<1>3. ASSUME NEW q \in Procs,
             \/ Start(q) \/ CheckPidfile(q) \/ Detach(q) \/ Initialise(q)
             \/ RunningOk(q)
             \/ Terminate(q) \/ TellParent(q) \/ Gone(q) \/ ParentExits(q)
             \/ ParentKilled(q)
      PROVE pidfile' = pidfile
  BY <1>3 DEF Start, CheckPidfile, Detach, Initialise, RunningOk, Terminate, TellParent,
              Gone, ParentExits, ParentKilled
<1>4. CASE UNCHANGED vars
  BY <1>4 DEF vars
<1> QED
  BY <1>1, <1>2, <1>3, <1>4 DEF Next, Proceed, End, Crash

\* The invariant holds throughout.
THEOREM DaemonInvariance == Spec => []DInv
<1>1. Init => DInv
  BY DInvInit
<1>2. DInv /\ [Next]_vars => DInv'
  BY TypeStep, ReportStep, PidStep, DaemonAssumption DEF DInv
<1> QED
  BY <1>1, <1>2, PTL DEF Spec

\* A start that was reported as failed has left no server behind.
THEOREM FailedStartsLeaveNothing == Spec => []FailedIsFailed
<1>1. DInv => FailedIsFailed
  BY DEF DInv
<1> QED
  BY <1>1, DaemonInvariance, PTL

\* A pidfile that names a running server is left alone by harmless processes.
THEOREM PidfileIsRespected == Spec => PidfileRespected
<1>1. DInv /\ [Next]_vars =>
        [\A p \in Procs :
            (/\ Alive(p) /\ pidfile = pid[p] /\ pc[p] # "unlink"
             /\ \A q \in Procs \ {p} : Harmless(q)) => pidfile' = pidfile]_vars
  BY RespectStep DEF DInv
<1> QED
  BY <1>1, DaemonInvariance, PTL DEF Spec, PidfileRespected

=============================================================================
