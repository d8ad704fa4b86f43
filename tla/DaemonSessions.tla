--------------------------- MODULE DaemonSessions ---------------------------
(***************************************************************************)
(* The session daemon, termojinald: the SessionManager behind one tokio    *)
(* mutex, the io task that owns each PTY, the session files on disk, and   *)
(* as much of the kernel as they depend on (process ids, zombies, the      *)
(* slave side of each PTY).                                                *)
(*                                                                         *)
(* A handler that holds the mutex without awaiting anything is one action  *)
(* guarded by lock = "free".  Three holders do await under the mutex and   *)
(* so keep it over several steps: a handler sending to a full control      *)
(* channel, an attach writing its snapshot to the client's socket, and     *)
(* graceful_shutdown, which sleeps for 200 ms.                             *)
(*                                                                         *)
(* What flows from a PTY to the attached clients is in AttachStream.       *)
(***************************************************************************)
EXTENDS Naturals, FiniteSets

CONSTANTS
    Session,    \* ids of daemon-owned sessions; a UUID is used once
    Ext,        \* ids of registrations of PTYs that a GUI owns
    Pane,       \* pane ids those registrations are keyed by
    PaneOf,     \* [Ext -> Pane]: the pane a registration is for
    Pid,        \* process ids; the kernel reuses them
    NoPid,      \* the pid of an id not yet given to a process
    CtlCap,     \* capacity of a control channel (256 in the code)
    DiskFails   \* whether saving or removing a file may fail

Id == Session \cup Ext

ASSUME ConstantsAssumption ==
    /\ Session \cap Ext = {}
    /\ Session \cap {"free", "other", "client", "shutdown"} = {}
    /\ PaneOf \in [Ext -> Pane]
    /\ NoPid \notin Pid
    /\ CtlCap \in Nat \ {0}
    /\ DiskFails \in BOOLEAN

VARIABLES
    phase,      \* "down", "up", "stopping" (after graceful_shutdown)
    lock,       \* holder of the manager mutex across steps; a session
                \* stands for a handler blocked sending to its io task
    sessions,   \* SessionManager.sessions: ids in the map
    tracked,    \* SessionManager.tracked: registrations in the map
    pid,        \* SessionState.pid
    file,       \* the JSON file of each id
    failed,     \* history: ids whose last save or removal by this daemon
                \* did not succeed
    task,       \* where the io task of each session is
    ctl,        \* commands waiting in each control channel
    proc,       \* who runs under each process id
    zombie,     \* ids of shells that exited and were not waited for
    tty,        \* sessions whose PTY slave some process holds open
    hup         \* sessions whose shell the daemon has sent SIGHUP

manager == <<lock, sessions, tracked, pid>>
kernel  == <<proc, zombie, tty>>
disk    == <<file, failed>>
vars    == <<phase, manager, disk, task, ctl, kernel, hup>>

FileState == {"absent", "ok", "torn"}    \* torn: fs::write cut short
TaskState == {"none", "start", "run", "write", "wait", "cleanup", "done",
              "failed"}

\* The io task still owns the receiving end of its control channel.
HasReceiver(s) == task[s] \in {"start", "run", "write", "wait", "cleanup"}

\* The io task got past AsyncFd::new and has not ended.
Serving(s) == task[s] \in {"run", "write", "wait", "cleanup"}

\* The io task has yet to call waitpid for its shell.
Unwaited == {"start", "run", "write", "wait", "failed"}

\* The shells that killpg(pid) for the sessions S reaches.
Reached(S) == {t \in Session : \E s \in S : proc[pid[s]] = t}

\* kill(pid, None) fails: nobody, not even a zombie, has the pid.
Gone(i) == proc[pid[i]] = "free"

(* SessionStore.remove and clear.  A file that cannot be unlinked stays;   *)
(* clear stops at the first one, so any of the others may stay with it.    *)
Erase(I) ==
    \E kept \in SUBSET {i \in I : file[i] # "absent"} :
        /\ kept # {} => DiskFails
        /\ file' = [i \in Id |-> IF i \in I \ kept THEN "absent" ELSE file[i]]
        /\ failed' = (failed \ I) \cup kept

(* SessionStore.save is fs::write: it fails before the file is opened and  *)
(* leaves what was there, or after truncating it.                          *)
Saved(i) ==
    /\ file' = [file EXCEPT ![i] = "ok"]
    /\ failed' = failed \ {i}

SaveFails(i) ==
    /\ DiskFails
    /\ \E left \in {file[i], "torn"} : file' = [file EXCEPT ![i] = left]
    /\ failed' = failed \cup {i}

(* save_all stops at the first save that fails.                            *)
SaveAll ==
    \E bad \in SUBSET sessions, torn \in SUBSET sessions :
        /\ bad # {} => DiskFails
        /\ torn \subseteq bad /\ Cardinality(torn) <= 1
        /\ file' = [i \in Id |-> IF i \in sessions \ bad THEN "ok"
                                ELSE IF i \in torn THEN "torn" ELSE file[i]]
        /\ failed' = (failed \ sessions) \cup bad

Free == lock = "free" /\ phase # "down"

-----------------------------------------------------------------------------
(* The first start finds a directory without session files.               *)
Init ==
    /\ phase = "down"
    /\ lock = "free"
    /\ sessions = {} /\ tracked = {}
    /\ pid = [i \in Id |-> NoPid]
    /\ file = [i \in Id |-> "absent"]
    /\ task = [s \in Session |-> "none"]
    /\ ctl = [s \in Session |-> 0]
    /\ proc = [p \in Pid |-> "free"]
    /\ failed = {}
    /\ zombie = {} /\ tty = {} /\ hup = {}

(* Daemon::run removes the files it can read and parse; a torn one stays.  *)
Startup ==
    /\ phase = "down"
    /\ phase' = "up"
    /\ Erase({i \in Id : file[i] = "ok"})
    /\ UNCHANGED <<manager, task, ctl, kernel, hup>>

(* The process is gone: no map, no task; init adopts the shells and reaps  *)
(* the zombies, and the kernel closes the PTY masters.                     *)
Vanish ==
    /\ phase' = "down" /\ lock' = "free"
    /\ sessions' = {} /\ tracked' = {}
    /\ ctl' = [s \in Session |-> 0]
    /\ proc' = [p \in Pid |-> IF p \in zombie THEN "free"
                              ELSE IF proc[p] \in Session THEN "other"
                              ELSE proc[p]]
    /\ zombie' = {} /\ tty' = {}
    /\ failed' = {}
    /\ UNCHANGED <<pid, hup>>

Ended(t) == IF t = "none" THEN "none" ELSE "done"

Crash ==
    /\ phase # "down"
    /\ Vanish
    /\ task' = [s \in Session |-> Ended(task[s])]
    /\ UNCHANGED file

-----------------------------------------------------------------------------
(* create_session_with_manager, under the mutex: spawn the PTY, save the   *)
(* state, start the io task, insert the session.                           *)
Spawn(s, p) ==
    /\ Free
    /\ task[s] = "none"
    /\ proc[p] = "free"
    /\ proc' = [proc EXCEPT ![p] = s]
    /\ pid' = [pid EXCEPT ![s] = p]

Create(s, p) ==
    /\ Spawn(s, p)
    /\ Saved(s)
    /\ task' = [task EXCEPT ![s] = "start"]
    /\ tty' = tty \cup {s}
    /\ sessions' = sessions \cup {s}
    /\ UNCHANGED <<phase, lock, tracked, ctl, zombie, hup>>

(* The save fails: the early return drops the Pty, which sends SIGHUP and  *)
(* closes the master; nobody will wait for the shell.                      *)
CreateFails(s, p) ==
    /\ Spawn(s, p)
    /\ SaveFails(s)
    /\ task' = [task EXCEPT ![s] = "done"]
    /\ hup' = hup \cup {s}
    /\ UNCHANGED <<phase, lock, tracked, sessions, ctl, zombie, tty>>

(* The daemon dies inside fs::write, which truncates before it writes:     *)
(* while creating a session or updating a listed one.                      *)
CrashInSave(s) ==
    /\ Free
    /\ task[s] = "none" \/ s \in sessions
    /\ Vanish
    /\ file' = [file EXCEPT ![s] = "torn"]
    /\ task' = [t \in Session |-> IF t = s THEN "done" ELSE Ended(task[t])]

\* Mutant: saves without looking the session up.
UpdateAnySession(s) ==
    /\ Free
    /\ task[s] # "none"
    /\ Saved(s) \/ SaveFails(s)
    /\ UNCHANGED <<phase, manager, task, ctl, kernel, hup>>

(* update_session_workspace and update_session_cwd save only a session     *)
(* that is in the map.                                                     *)
UpdateSession(s) ==
    /\ Free
    /\ s \in sessions
    /\ Saved(s) \/ SaveFails(s)
    /\ UNCHANGED <<phase, manager, task, ctl, kernel, hup>>

\* Mutant: no killpg, dropping the session is meant to be enough.
RemoveWithoutSignal(s) ==
    /\ Free
    /\ s \in sessions
    /\ sessions' = sessions \ {s}
    /\ Erase({s})
    /\ UNCHANGED <<phase, lock, tracked, pid, task, ctl, kernel, hup>>

(* remove, which kill_session, exit_session (when the shell has no         *)
(* foreground child) and force_exit_session come down to.                  *)
Remove(s) ==
    /\ Free
    /\ s \in sessions
    /\ hup' = hup \cup Reached({s})
    /\ sessions' = sessions \ {s}
    /\ Erase({s})
    /\ UNCHANGED <<phase, lock, tracked, pid, task, ctl, kernel>>

(* kill_all also clears every file in the directory.  The SIGKILL to a     *)
(* tracked pid is for the owner of that process to notice.                 *)
KillAll ==
    /\ Free
    /\ hup' = hup \cup Reached(sessions)
    /\ sessions' = {} /\ tracked' = {}
    /\ Erase(Id)
    /\ UNCHANGED <<phase, lock, pid, task, ctl, kernel>>

\* Mutant: probes with waitpid, which frees the pid of a zombie.
ReapDeadByWaiting ==
    /\ Free
    /\ LET found == zombie \cap {pid[s] : s \in sessions}
           dead  == {i \in tracked : Gone(i)} IN
       /\ dead # {} \/ found # {}
       /\ tracked' = tracked \ dead
       /\ proc' = [p \in Pid |-> IF p \in found THEN "free" ELSE proc[p]]
       /\ zombie' = zombie \ found
       /\ Erase(dead)
    /\ UNCHANGED <<phase, lock, sessions, pid, task, ctl, tty, hup>>

(* reap_dead, every 5 s and before each listing.                           *)
ReapDead ==
    /\ Free
    /\ LET dead == {i \in sessions \cup tracked : Gone(i)} IN
       /\ dead # {}
       /\ sessions' = sessions \ dead
       /\ tracked' = tracked \ dead
       /\ Erase(dead)
    /\ UNCHANGED <<phase, lock, pid, task, ctl, kernel, hup>>

(* register_external_session: inserting drops the pane's earlier           *)
(* registration from the map, but not its file.                            *)
Register(e, p) ==
    /\ Free
    /\ pid[e] = NoPid
    /\ proc[p] = "other"
    /\ pid' = [pid EXCEPT ![e] = p]
    /\ Saved(e) \/ SaveFails(e)
    /\ tracked' = {o \in tracked : PaneOf[o] # PaneOf[e]} \cup {e}
    /\ UNCHANGED <<phase, lock, sessions, task, ctl, kernel, hup>>

(* unregister_external_session, and the branches of exit_session and       *)
(* force_exit_session for a tracked id, which also signal its process.     *)
Unregister(e) ==
    /\ Free
    /\ e \in tracked
    /\ tracked' = tracked \ {e}
    /\ Erase({e})
    /\ UNCHANGED <<phase, lock, sessions, pid, task, ctl, kernel, hup>>

-----------------------------------------------------------------------------
\* Mutant: queues whether or not there is room.
SendUnbounded(s) ==
    /\ Free
    /\ s \in sessions /\ HasReceiver(s)
    /\ ctl' = [ctl EXCEPT ![s] = @ + 1]
    /\ UNCHANGED <<phase, manager, disk, task, kernel, hup>>

(* send_input and resize_session await control_tx.send with the mutex      *)
(* held by the caller: with room the command is queued at once, with none  *)
(* the handler stays there holding the mutex.                              *)
Send(s) ==
    /\ Free
    /\ s \in sessions /\ HasReceiver(s)
    /\ IF ctl[s] < CtlCap
       THEN ctl' = [ctl EXCEPT ![s] = @ + 1] /\ UNCHANGED lock
       ELSE lock' = s /\ UNCHANGED ctl
    /\ UNCHANGED <<phase, sessions, tracked, pid, disk, task, kernel, hup>>

SendResumes(s) ==
    /\ lock = s
    /\ ctl[s] < CtlCap
    /\ ctl' = [ctl EXCEPT ![s] = @ + 1]
    /\ lock' = "free"
    /\ UNCHANGED <<phase, sessions, tracked, pid, disk, task, kernel, hup>>

(* The receiver was dropped: send returns an error.                        *)
SendFails(s) ==
    /\ lock = s
    /\ ~HasReceiver(s)
    /\ lock' = "free"
    /\ UNCHANGED <<phase, sessions, tracked, pid, disk, task, ctl, kernel,
                   hup>>

(* handle_binary_connection writes the snapshot to the socket under the    *)
(* mutex: it is held until the client has read enough or has gone.         *)
AttachBegins ==
    /\ Free
    /\ sessions # {}
    /\ lock' = "client"
    /\ UNCHANGED <<phase, sessions, tracked, pid, disk, task, ctl, kernel,
                   hup>>

AttachEnds ==
    /\ lock = "client"
    /\ lock' = "free"
    /\ UNCHANGED <<phase, sessions, tracked, pid, disk, task, ctl, kernel,
                   hup>>

(* SIGTERM: SIGHUP to every session, 200 ms later one waitpid for each and *)
(* save_all, all under the mutex; the process ends soon after.             *)
ShutdownBegins ==
    /\ Free /\ phase = "up"
    /\ lock' = "shutdown"
    /\ hup' = hup \cup Reached(sessions)
    /\ UNCHANGED <<phase, sessions, tracked, pid, disk, task, ctl, kernel>>

ShutdownEnds ==
    /\ lock = "shutdown"
    /\ lock' = "free" /\ phase' = "stopping"
    /\ LET reaped == zombie \cap {pid[s] : s \in sessions} IN
       /\ proc' = [p \in Pid |-> IF p \in reaped THEN "free" ELSE proc[p]]
       /\ zombie' = zombie \ reaped
    /\ SaveAll
    /\ UNCHANGED <<sessions, tracked, pid, task, ctl, tty, hup>>

-----------------------------------------------------------------------------
(* session_io_task.  AsyncFd::new may fail: the task then returns at once, *)
(* without telling the manager.                                            *)
Goto(s, from, to) ==
    /\ phase # "down"
    /\ task[s] = from
    /\ task' = [task EXCEPT ![s] = to]

TaskStarts(s) ==
    /\ Goto(s, "start", "run")
    /\ UNCHANGED <<phase, manager, disk, ctl, kernel, hup>>

TaskFails(s) ==
    /\ Goto(s, "start", "failed")
    /\ ctl' = [ctl EXCEPT ![s] = 0]
    /\ UNCHANGED <<phase, manager, disk, kernel, hup>>

(* control_rx.recv(): WriteInput enters the write loop; Resize and Detach  *)
(* are done with at once.                                                  *)
TaskTakes(s) ==
    /\ ctl[s] > 0
    /\ ctl' = [ctl EXCEPT ![s] = @ - 1]
    /\ \/ Goto(s, "run", "write")
       \/ Goto(s, "run", "run")
    /\ UNCHANGED <<phase, manager, disk, kernel, hup>>

(* The loop ends when the PTY has taken every byte, or on an error other   *)
(* than EAGAIN; on EAGAIN it yields and retries, reading no output.        *)
TaskWrites(s) ==
    /\ s \in tty
    /\ Goto(s, "write", "run")
    /\ UNCHANGED <<phase, manager, disk, ctl, kernel, hup>>

\* Mutant: every error of write is taken for EAGAIN.
TaskWriteRetries(s) ==
    /\ s \notin tty
    /\ Goto(s, "write", "write")
    /\ UNCHANGED <<phase, manager, disk, ctl, kernel, hup>>

TaskWriteFails(s) ==
    /\ s \notin tty
    /\ Goto(s, "write", "run")
    /\ UNCHANGED <<phase, manager, disk, ctl, kernel, hup>>

\* Mutant: every error of read is taken for EAGAIN.
TaskReadRetries(s) ==
    /\ s \notin tty
    /\ Goto(s, "run", "run")
    /\ UNCHANGED <<phase, manager, disk, ctl, kernel, hup>>

(* EOF or EIO: no process holds the slave side any more.                   *)
TaskReadsEof(s) ==
    /\ s \notin tty
    /\ Goto(s, "run", "wait")
    /\ UNCHANGED <<phase, manager, disk, ctl, kernel, hup>>

(* recv() is None: the queue is empty and the manager dropped the sender.  *)
TaskSenderGone(s) ==
    /\ s \notin sessions /\ ctl[s] = 0
    /\ Goto(s, "run", "wait")
    /\ UNCHANGED <<phase, manager, disk, ctl, kernel, hup>>

(* The waitpid loop: the exit status of the child with that pid, or a      *)
(* timeout after 1 s, or ECHILD when no child has it.                      *)
TaskCollects(s) ==
    /\ pid[s] \in zombie
    /\ Goto(s, "wait", "cleanup")
    /\ proc' = [proc EXCEPT ![pid[s]] = "free"]
    /\ zombie' = zombie \ {pid[s]}
    /\ UNCHANGED <<phase, manager, disk, ctl, tty, hup>>

TaskGivesUp(s) ==
    /\ pid[s] \notin zombie
    /\ Goto(s, "wait", "cleanup")
    /\ UNCHANGED <<phase, manager, disk, ctl, kernel, hup>>

\* Mutant: the task ends without removing its session from the map.
TaskEndsListed(s) ==
    /\ Free
    /\ Goto(s, "cleanup", "done")
    /\ Erase({s})
    /\ ctl' = [ctl EXCEPT ![s] = 0]
    /\ UNCHANGED <<phase, manager, kernel, hup>>

\* Mutant: removes the session but not its file.
TaskKeepsFile(s) ==
    /\ Free
    /\ Goto(s, "cleanup", "done")
    /\ sessions' = sessions \ {s}
    /\ ctl' = [ctl EXCEPT ![s] = 0]
    /\ UNCHANGED <<phase, lock, tracked, pid, disk, kernel, hup>>

(* The task takes the mutex, removes itself from the manager and ends.     *)
TaskDelists(s) ==
    /\ Free
    /\ Goto(s, "cleanup", "done")
    /\ sessions' = sessions \ {s}
    /\ Erase({s})
    /\ ctl' = [ctl EXCEPT ![s] = 0]
    /\ UNCHANGED <<phase, lock, tracked, pid, kernel, hup>>

-----------------------------------------------------------------------------
(* The kernel and the processes outside the daemon.                        *)
ShellExits(s) ==
    /\ \E p \in Pid \ zombie : proc[p] = s /\ zombie' = zombie \cup {p}
    /\ UNCHANGED <<phase, manager, disk, task, ctl, proc, tty, hup>>

TtyCloses(s) ==
    /\ s \in tty
    /\ tty' = tty \ {s}
    /\ UNCHANGED <<phase, manager, disk, task, ctl, proc, zombie, hup>>

OtherStarts(p) ==
    /\ proc[p] = "free"
    /\ proc' = [proc EXCEPT ![p] = "other"]
    /\ UNCHANGED <<phase, manager, disk, task, ctl, zombie, tty, hup>>

OtherExits(p) ==
    /\ proc[p] = "other"
    /\ proc' = [proc EXCEPT ![p] = "free"]
    /\ UNCHANGED <<phase, manager, disk, task, ctl, zombie, tty, hup>>

-----------------------------------------------------------------------------
Requests ==
    \/ \E s \in Session, p \in Pid : Create(s, p) \/ CreateFails(s, p)
    \/ \E s \in Session : UpdateSession(s) \/ Remove(s) \/ Send(s)
    \/ \E e \in Ext, p \in Pid : Register(e, p)
    \/ \E e \in Ext : Unregister(e)
    \/ KillAll
    \/ ReapDead
    \/ AttachBegins
    \/ ShutdownBegins

Resumptions ==
    \/ \E s \in Session : SendResumes(s) \/ SendFails(s)
    \/ AttachEnds
    \/ ShutdownEnds

IoTask(s) ==
    \/ TaskStarts(s) \/ TaskFails(s)
    \/ TaskTakes(s) \/ TaskWrites(s) \/ TaskWriteFails(s)
    \/ TaskReadsEof(s) \/ TaskSenderGone(s)
    \/ TaskCollects(s) \/ TaskGivesUp(s)
    \/ TaskDelists(s)

Kernel ==
    \/ \E s \in Session : ShellExits(s) \/ TtyCloses(s)
    \/ \E p \in Pid : OtherStarts(p) \/ OtherExits(p)

Next ==
    \/ Startup \/ Crash
    \/ \E s \in Session : CrashInSave(s) \/ IoTask(s)
    \/ Requests
    \/ Resumptions
    \/ Kernel

(***************************************************************************)
(* tokio polls every ready task, and its mutex is first come first served: *)
(* strong fairness for the step that needs the mutex, weak fairness for    *)
(* the others.  A task whose read and receive are both ready picks either  *)
(* (tokio::select!), so end of file is also strongly fair.  Outside the    *)
(* daemon: a client that is being attached reads or goes away, and a shell *)
(* that was sent SIGHUP exits and its terminal is closed.  Nothing makes   *)
(* a shell read its input: TaskWrites has no fairness.  After shutdown     *)
(* main returns and the process ends, which is a Crash here.               *)
(***************************************************************************)
Fairness ==
    /\ \A s \in Session :
        /\ WF_vars(TaskStarts(s) \/ TaskFails(s))
        /\ WF_vars(TaskTakes(s))
        /\ WF_vars(TaskWriteFails(s))
        /\ SF_vars(TaskReadsEof(s))
        /\ WF_vars(TaskSenderGone(s))
        /\ WF_vars(TaskCollects(s) \/ TaskGivesUp(s))
        /\ SF_vars(TaskDelists(s))
        /\ WF_vars(SendResumes(s) \/ SendFails(s))
        /\ WF_vars(s \in hup /\ ShellExits(s))
        /\ WF_vars(s \in hup /\ TtyCloses(s))
    /\ WF_vars(AttachEnds)
    /\ WF_vars(ShutdownEnds)
    /\ WF_vars(phase = "stopping" /\ Crash)

Spec == Init /\ [][Next]_vars

FairSpec == Spec /\ Fairness

-----------------------------------------------------------------------------
TypeOK ==
    /\ phase \in {"down", "up", "stopping"}
    /\ lock \in {"free", "client", "shutdown"} \cup Session
    /\ sessions \subseteq Session
    /\ tracked \subseteq Ext
    /\ pid \in [Id -> Pid \cup {NoPid}]
    /\ file \in [Id -> FileState]
    /\ failed \subseteq Id
    /\ task \in [Session -> TaskState]
    /\ ctl \in [Session -> 0..CtlCap]
    /\ proc \in [Pid -> {"free", "other"} \cup Session]
    /\ zombie \subseteq Pid
    /\ tty \subseteq Session
    /\ hup \subseteq Session

-----------------------------------------------------------------------------
(* While the daemon runs, every listed session and registration whose last *)
(* save succeeded has a readable file, and a readable session file belongs *)
(* to a listed session unless the disk refused to remove it: whatever      *)
(* order requests, io tasks, reap_dead and shutdown take the mutex in, none *)
(* of them rewrites the file of a session another has removed.  A failed   *)
(* save may leave a registration without a file, but never a session.      *)
FilesMatchSessions ==
    phase # "down" =>
        /\ \A i \in (sessions \cup tracked) \ failed : file[i] = "ok"
        /\ \A s \in sessions : file[s] # "absent"
        /\ \A s \in Session \ (sessions \cup failed) : file[s] # "ok"

(* A listed session has an io task that will delist it, or had one that    *)
(* could not register its PTY: session_io_task ends by removing itself, so *)
(* no session stays listed because its task ended first.                   *)
NoGhostSession ==
    \A s \in sessions : task[s] \notin {"none", "done"}

(* Until its io task calls waitpid, the pid stored with a session is its   *)
(* own shell or that shell's zombie, never a process that reused the       *)
(* number: what remove, kill_all and Resize signal is the shell.           *)
PidPinned ==
    phase = "up" =>
        \A s \in Session :
            task[s] \in Unwaited => pid[s] \in Pid /\ proc[pid[s]] = s

(* No session leaves the manager with its shell alive and never told to    *)
(* hang up, unless its io task waited 1 s for it in vain.                  *)
DelistedShellsSignalled ==
    [][phase = "up" /\ phase' = "up" =>
        \A s \in sessions \ sessions' :
            s \in hup' \/ proc[pid[s]] # s \/ task[s] = "cleanup"]_vars

-----------------------------------------------------------------------------
(* A handler holds the mutex, waiting for room in a full control channel.  *)
Jammed == lock \in Session /\ ctl[lock] = CtlCap

(* "Remove the session from the manager so it's no longer listed": once    *)
(* nobody holds a session's terminal open it is eventually delisted, by    *)
(* its task, a request or reap_dead.                                       *)
HungUpSessionIsDelisted ==
    \A s \in Session :
        (s \in sessions /\ s \notin tty /\ Serving(s))
            ~> s \notin sessions

(* The same, as far as the code goes: a session whose terminal hung up is  *)
(* delisted unless some handler is stuck sending to a full channel.        *)
HungUpSessionIsDelistedUnlessJammed ==
    \A s \in Session :
        (s \in sessions /\ s \notin tty /\ Serving(s))
            ~> (s \notin sessions \/ Jammed)

(* The io task of a session that was removed ends and closes its PTY, also *)
(* when it was in the middle of writing input, unless the mutex is jammed. *)
RemovedSessionTaskEnds ==
    \A s \in Session :
        (s \notin sessions /\ s \in hup /\ Serving(s))
            ~> (~Serving(s) \/ Jammed)

-----------------------------------------------------------------------------
(* What the manager promises of a session, whatever happens inside.        *)
Directory == INSTANCE SessionDirectory WITH
    up       <- phase # "down",
    live     <- sessions,
    ended    <- {s \in Session : task[s] # "none"} \ sessions,
    recorded <- {s \in Session : file[s] = "ok"},
    stuck    <- failed \cap Session

(* The manager implements the directory.                                   *)
ImplementsDirectory == Directory!Spec

=============================================================================
