------------------------ MODULE DaemonSessions_proofs ------------------------
(***************************************************************************)
(* Theorems about DaemonSessions, for any number of sessions, process ids  *)
(* and registrations and any channel capacity.                             *)
(***************************************************************************)
EXTENDS DaemonSessions, TLAPS

\* A stopped daemon has no session, no registration and no io task.
DownIdle ==
    phase = "down" =>
        /\ lock = "free"
        /\ sessions = {} /\ tracked = {} /\ failed = {}
        /\ \A s \in Session : task[s] \in {"none", "done"}

\* An id that no session has been given yet has no file.
FreshIds ==
    \A s \in Session : task[s] = "none" => file[s] = "absent"

Idle == DownIdle /\ FreshIds

\* The inductive invariant behind the safety properties.
IInv ==
    /\ TypeOK
    /\ Idle
    /\ FilesMatchSessions
    /\ NoGhostSession
    /\ PidPinned

-----------------------------------------------------------------------------
(* Every step keeps the variables in their sets.                           *)
LEMMA TypeStep ==
    TypeOK /\ [Next]_vars => TypeOK'
<1> SUFFICES ASSUME TypeOK, [Next]_vars PROVE TypeOK'
  OBVIOUS
<1> USE ConstantsAssumption DEF disk, TypeOK, Id
<1>1. CASE Startup
  BY <1>1 DEF Startup, Erase, manager, kernel, FileState
<1>2. CASE Crash
  BY <1>2 DEF Crash, Vanish, Ended, TaskState, FileState
<1>3. ASSUME NEW s \in Session,
             CrashInSave(s)
      PROVE TypeOK'
  BY <1>3 DEF CrashInSave, Free, Vanish, Ended, TaskState, FileState
<1>4. ASSUME NEW s \in Session, NEW p \in Pid,
             Create(s, p)
      PROVE TypeOK'
  BY <1>4 DEF Create, Spawn, Saved, Free, TaskState, FileState
<1>5. ASSUME NEW s \in Session, NEW p \in Pid,
             CreateFails(s, p)
      PROVE TypeOK'
  BY <1>5 DEF CreateFails, Spawn, SaveFails, Free, TaskState, FileState
<1>6. ASSUME NEW s \in Session,
             UpdateSession(s)
      PROVE TypeOK'
  BY <1>6 DEF UpdateSession, Free, Saved, SaveFails, manager, kernel, FileState
<1>7. ASSUME NEW s \in Session,
             Remove(s)
      PROVE TypeOK'
  BY <1>7 DEF Remove, Free, Erase, kernel, FileState, Reached
<1>8. ASSUME NEW s \in Session,
             Send(s)
      PROVE TypeOK'
  BY <1>8 DEF Send, Free, HasReceiver, kernel
<1>9. ASSUME NEW e \in Ext, NEW p \in Pid,
             Register(e, p)
      PROVE TypeOK'
  BY <1>9 DEF Register, Free, Saved, SaveFails, kernel, FileState
<1>10. ASSUME NEW e \in Ext,
             Unregister(e)
      PROVE TypeOK'
  BY <1>10 DEF Unregister, Free, Erase, kernel, FileState
<1>11. CASE KillAll
  BY <1>11 DEF KillAll, Free, Erase, kernel, FileState, Reached
<1>12. CASE ReapDead
  BY <1>12 DEF ReapDead, Free, Erase, kernel, FileState
<1>13. CASE AttachBegins
  BY <1>13 DEF AttachBegins, Free, kernel
<1>14. CASE ShutdownBegins
  BY <1>14 DEF ShutdownBegins, Free, kernel, Reached
<1>15. ASSUME NEW s \in Session,
             SendResumes(s)
      PROVE TypeOK'
  BY <1>15 DEF SendResumes, kernel
<1>16. ASSUME NEW s \in Session,
             SendFails(s)
      PROVE TypeOK'
  BY <1>16 DEF SendFails, HasReceiver, kernel
<1>17. CASE AttachEnds
  BY <1>17 DEF AttachEnds, kernel
<1>18. CASE ShutdownEnds
  BY <1>18 DEF ShutdownEnds, SaveAll, FileState
<1>19. ASSUME NEW s \in Session,
             TaskStarts(s)
      PROVE TypeOK'
  BY <1>19 DEF TaskStarts, Goto, manager, kernel, TaskState
<1>20. ASSUME NEW s \in Session,
             TaskFails(s)
      PROVE TypeOK'
  BY <1>20 DEF TaskFails, Goto, manager, kernel, TaskState
<1>21. ASSUME NEW s \in Session,
             TaskTakes(s)
      PROVE TypeOK'
  BY <1>21 DEF TaskTakes, Goto, manager, kernel, TaskState
<1>22. ASSUME NEW s \in Session,
             TaskWrites(s)
      PROVE TypeOK'
  BY <1>22 DEF TaskWrites, Goto, manager, kernel, TaskState
<1>23. ASSUME NEW s \in Session,
             TaskWriteFails(s)
      PROVE TypeOK'
  BY <1>23 DEF TaskWriteFails, Goto, manager, kernel, TaskState
<1>24. ASSUME NEW s \in Session,
             TaskReadsEof(s)
      PROVE TypeOK'
  BY <1>24 DEF TaskReadsEof, Goto, manager, kernel, TaskState
<1>25. ASSUME NEW s \in Session,
             TaskSenderGone(s)
      PROVE TypeOK'
  BY <1>25 DEF TaskSenderGone, Goto, manager, kernel, TaskState
<1>26. ASSUME NEW s \in Session,
             TaskCollects(s)
      PROVE TypeOK'
  BY <1>26 DEF TaskCollects, Goto, manager, TaskState
<1>27. ASSUME NEW s \in Session,
             TaskGivesUp(s)
      PROVE TypeOK'
  BY <1>27 DEF TaskGivesUp, Goto, manager, kernel, TaskState
<1>28. ASSUME NEW s \in Session,
             TaskDelists(s)
      PROVE TypeOK'
  BY <1>28 DEF TaskDelists, Free, Goto, Erase, kernel, TaskState, FileState
<1>29. ASSUME NEW s \in Session,
             ShellExits(s)
      PROVE TypeOK'
  BY <1>29 DEF ShellExits, manager
<1>30. ASSUME NEW s \in Session,
             TtyCloses(s)
      PROVE TypeOK'
  BY <1>30 DEF TtyCloses, manager
<1>31. ASSUME NEW p \in Pid,
             OtherStarts(p)
      PROVE TypeOK'
  BY <1>31 DEF OtherStarts, manager
<1>32. ASSUME NEW p \in Pid,
             OtherExits(p)
      PROVE TypeOK'
  BY <1>32 DEF OtherExits, manager
<1>33. CASE UNCHANGED vars
  BY <1>33 DEF vars, manager, kernel
<1> QED
  BY <1>1, <1>2, <1>3, <1>4, <1>5, <1>6, <1>7, <1>8, <1>9, <1>10, <1>11,
     <1>12, <1>13, <1>14, <1>15, <1>16, <1>17, <1>18, <1>19, <1>20, <1>21,
     <1>22, <1>23, <1>24, <1>25, <1>26, <1>27, <1>28, <1>29, <1>30, <1>31,
     <1>32, <1>33
     DEF Next, Requests, Resumptions, IoTask, Kernel

(* The daemon goes down with nothing and starts with nothing, and only the *)
(* step that uses an id gives it a file.                                   *)
LEMMA IdleStep ==
    IInv /\ [Next]_vars => Idle'
<1> SUFFICES ASSUME IInv, [Next]_vars PROVE Idle'
  OBVIOUS
<1> USE ConstantsAssumption DEF disk, IInv, TypeOK, Id, Idle, DownIdle,
        FreshIds, NoGhostSession
<1>1. CASE Startup
  BY <1>1 DEF Startup, Erase, manager, kernel
<1>2. CASE Crash
  BY <1>2 DEF Crash, Vanish, Ended
<1>3. ASSUME NEW s \in Session,
             CrashInSave(s)
      PROVE Idle'
  BY <1>3 DEF CrashInSave, Free, Vanish, Ended
<1>4. ASSUME NEW s \in Session, NEW p \in Pid,
             Create(s, p)
      PROVE Idle'
  BY <1>4 DEF Create, Spawn, Saved, Free
<1>5. ASSUME NEW s \in Session, NEW p \in Pid,
             CreateFails(s, p)
      PROVE Idle'
  BY <1>5 DEF CreateFails, Spawn, SaveFails, Free
<1>6. ASSUME NEW s \in Session,
             UpdateSession(s)
      PROVE Idle'
  BY <1>6 DEF UpdateSession, Free, Saved, SaveFails, manager, kernel
<1>7. ASSUME NEW s \in Session,
             Remove(s)
      PROVE Idle'
  BY <1>7 DEF Remove, Free, Erase, kernel
<1>8. ASSUME NEW s \in Session,
             Send(s)
      PROVE Idle'
  BY <1>8 DEF Send, Free, HasReceiver, kernel
<1>9. ASSUME NEW e \in Ext, NEW p \in Pid,
             Register(e, p)
      PROVE Idle'
  BY <1>9 DEF Register, Free, Saved, SaveFails, kernel
<1>10. ASSUME NEW e \in Ext,
             Unregister(e)
      PROVE Idle'
  BY <1>10 DEF Unregister, Free, Erase, kernel
<1>11. CASE KillAll
  BY <1>11 DEF KillAll, Free, Erase, kernel
<1>12. CASE ReapDead
  BY <1>12 DEF ReapDead, Free, Erase, kernel
<1>13. CASE AttachBegins
  BY <1>13 DEF AttachBegins, Free, kernel
<1>14. CASE ShutdownBegins
  BY <1>14 DEF ShutdownBegins, Free, kernel
<1>15. ASSUME NEW s \in Session,
             SendResumes(s)
      PROVE Idle'
  BY <1>15 DEF SendResumes, kernel
<1>16. ASSUME NEW s \in Session,
             SendFails(s)
      PROVE Idle'
  BY <1>16 DEF SendFails, HasReceiver, kernel
<1>17. CASE AttachEnds
  BY <1>17 DEF AttachEnds, kernel
<1>18. CASE ShutdownEnds
  BY <1>18 DEF ShutdownEnds, SaveAll, FileState
<1>19. ASSUME NEW s \in Session,
             TaskStarts(s)
      PROVE Idle'
  BY <1>19 DEF TaskStarts, Goto, manager, kernel
<1>20. ASSUME NEW s \in Session,
             TaskFails(s)
      PROVE Idle'
  BY <1>20 DEF TaskFails, Goto, manager, kernel
<1>21. ASSUME NEW s \in Session,
             TaskTakes(s)
      PROVE Idle'
  BY <1>21 DEF TaskTakes, Goto, manager, kernel
<1>22. ASSUME NEW s \in Session,
             TaskWrites(s)
      PROVE Idle'
  BY <1>22 DEF TaskWrites, Goto, manager, kernel
<1>23. ASSUME NEW s \in Session,
             TaskWriteFails(s)
      PROVE Idle'
  BY <1>23 DEF TaskWriteFails, Goto, manager, kernel
<1>24. ASSUME NEW s \in Session,
             TaskReadsEof(s)
      PROVE Idle'
  BY <1>24 DEF TaskReadsEof, Goto, manager, kernel
<1>25. ASSUME NEW s \in Session,
             TaskSenderGone(s)
      PROVE Idle'
  BY <1>25 DEF TaskSenderGone, Goto, manager, kernel
<1>26. ASSUME NEW s \in Session,
             TaskCollects(s)
      PROVE Idle'
  BY <1>26 DEF TaskCollects, Goto, manager
<1>27. ASSUME NEW s \in Session,
             TaskGivesUp(s)
      PROVE Idle'
  BY <1>27 DEF TaskGivesUp, Goto, manager, kernel
<1>28. ASSUME NEW s \in Session,
             TaskDelists(s)
      PROVE Idle'
  BY <1>28 DEF TaskDelists, Free, Goto, Erase, kernel
<1>29. ASSUME NEW s \in Session,
             ShellExits(s)
      PROVE Idle'
  BY <1>29 DEF ShellExits, manager
<1>30. ASSUME NEW s \in Session,
             TtyCloses(s)
      PROVE Idle'
  BY <1>30 DEF TtyCloses, manager
<1>31. ASSUME NEW p \in Pid,
             OtherStarts(p)
      PROVE Idle'
  BY <1>31 DEF OtherStarts, manager
<1>32. ASSUME NEW p \in Pid,
             OtherExits(p)
      PROVE Idle'
  BY <1>32 DEF OtherExits, manager
<1>33. CASE UNCHANGED vars
  BY <1>33 DEF vars, manager, kernel
<1> QED
  BY <1>1, <1>2, <1>3, <1>4, <1>5, <1>6, <1>7, <1>8, <1>9, <1>10, <1>11,
     <1>12, <1>13, <1>14, <1>15, <1>16, <1>17, <1>18, <1>19, <1>20, <1>21,
     <1>22, <1>23, <1>24, <1>25, <1>26, <1>27, <1>28, <1>29, <1>30, <1>31,
     <1>32, <1>33
     DEF Next, Requests, Resumptions, IoTask, Kernel

(* Files and maps change together.                                         *)
LEMMA FilesMatchSessionsStep ==
    IInv /\ [Next]_vars => FilesMatchSessions'
<1> SUFFICES ASSUME IInv, [Next]_vars PROVE FilesMatchSessions'
  OBVIOUS
<1> USE ConstantsAssumption DEF disk, IInv, TypeOK, Id, Idle, DownIdle,
        FilesMatchSessions
<1>1. CASE Startup
  BY <1>1 DEF Startup, Erase, manager, kernel
<1>2. CASE Crash
  BY <1>2 DEF Crash, Vanish, Ended
<1>3. ASSUME NEW s \in Session,
             CrashInSave(s)
      PROVE FilesMatchSessions'
  BY <1>3 DEF CrashInSave, Free, Vanish, Ended
<1>4. ASSUME NEW s \in Session, NEW p \in Pid,
             Create(s, p)
      PROVE FilesMatchSessions'
  BY <1>4 DEF Create, Spawn, Saved, Free
<1>5. ASSUME NEW s \in Session, NEW p \in Pid,
             CreateFails(s, p)
      PROVE FilesMatchSessions'
  BY <1>5 DEF CreateFails, Spawn, SaveFails, Free
<1>6. ASSUME NEW s \in Session,
             UpdateSession(s)
      PROVE FilesMatchSessions'
  BY <1>6 DEF UpdateSession, Free, Saved, SaveFails, manager, kernel
<1>7. ASSUME NEW s \in Session,
             Remove(s)
      PROVE FilesMatchSessions'
  BY <1>7 DEF Remove, Free, Erase, kernel
<1>8. ASSUME NEW s \in Session,
             Send(s)
      PROVE FilesMatchSessions'
  BY <1>8 DEF Send, Free, HasReceiver, kernel
<1>9. ASSUME NEW e \in Ext, NEW p \in Pid,
             Register(e, p)
      PROVE FilesMatchSessions'
  BY <1>9 DEF Register, Free, Saved, SaveFails, kernel
<1>10. ASSUME NEW e \in Ext,
             Unregister(e)
      PROVE FilesMatchSessions'
  BY <1>10 DEF Unregister, Free, Erase, kernel
<1>11. CASE KillAll
  BY <1>11 DEF KillAll, Free, Erase, kernel
<1>12. CASE ReapDead
  BY <1>12 DEF ReapDead, Free, Erase, kernel
<1>13. CASE AttachBegins
  BY <1>13 DEF AttachBegins, Free, kernel
<1>14. CASE ShutdownBegins
  BY <1>14 DEF ShutdownBegins, Free, kernel
<1>15. ASSUME NEW s \in Session,
             SendResumes(s)
      PROVE FilesMatchSessions'
  BY <1>15 DEF SendResumes, kernel
<1>16. ASSUME NEW s \in Session,
             SendFails(s)
      PROVE FilesMatchSessions'
  BY <1>16 DEF SendFails, HasReceiver, kernel
<1>17. CASE AttachEnds
  BY <1>17 DEF AttachEnds, kernel
<1>18. CASE ShutdownEnds
  BY <1>18 DEF ShutdownEnds, SaveAll, FileState
<1>19. ASSUME NEW s \in Session,
             TaskStarts(s)
      PROVE FilesMatchSessions'
  BY <1>19 DEF TaskStarts, Goto, manager, kernel
<1>20. ASSUME NEW s \in Session,
             TaskFails(s)
      PROVE FilesMatchSessions'
  BY <1>20 DEF TaskFails, Goto, manager, kernel
<1>21. ASSUME NEW s \in Session,
             TaskTakes(s)
      PROVE FilesMatchSessions'
  BY <1>21 DEF TaskTakes, Goto, manager, kernel
<1>22. ASSUME NEW s \in Session,
             TaskWrites(s)
      PROVE FilesMatchSessions'
  BY <1>22 DEF TaskWrites, Goto, manager, kernel
<1>23. ASSUME NEW s \in Session,
             TaskWriteFails(s)
      PROVE FilesMatchSessions'
  BY <1>23 DEF TaskWriteFails, Goto, manager, kernel
<1>24. ASSUME NEW s \in Session,
             TaskReadsEof(s)
      PROVE FilesMatchSessions'
  BY <1>24 DEF TaskReadsEof, Goto, manager, kernel
<1>25. ASSUME NEW s \in Session,
             TaskSenderGone(s)
      PROVE FilesMatchSessions'
  BY <1>25 DEF TaskSenderGone, Goto, manager, kernel
<1>26. ASSUME NEW s \in Session,
             TaskCollects(s)
      PROVE FilesMatchSessions'
  BY <1>26 DEF TaskCollects, Goto, manager
<1>27. ASSUME NEW s \in Session,
             TaskGivesUp(s)
      PROVE FilesMatchSessions'
  BY <1>27 DEF TaskGivesUp, Goto, manager, kernel
<1>28. ASSUME NEW s \in Session,
             TaskDelists(s)
      PROVE FilesMatchSessions'
  BY <1>28 DEF TaskDelists, Free, Goto, Erase, kernel
<1>29. ASSUME NEW s \in Session,
             ShellExits(s)
      PROVE FilesMatchSessions'
  BY <1>29 DEF ShellExits, manager
<1>30. ASSUME NEW s \in Session,
             TtyCloses(s)
      PROVE FilesMatchSessions'
  BY <1>30 DEF TtyCloses, manager
<1>31. ASSUME NEW p \in Pid,
             OtherStarts(p)
      PROVE FilesMatchSessions'
  BY <1>31 DEF OtherStarts, manager
<1>32. ASSUME NEW p \in Pid,
             OtherExits(p)
      PROVE FilesMatchSessions'
  BY <1>32 DEF OtherExits, manager
<1>33. CASE UNCHANGED vars
  BY <1>33 DEF vars, manager, kernel
<1> QED
  BY <1>1, <1>2, <1>3, <1>4, <1>5, <1>6, <1>7, <1>8, <1>9, <1>10, <1>11,
     <1>12, <1>13, <1>14, <1>15, <1>16, <1>17, <1>18, <1>19, <1>20, <1>21,
     <1>22, <1>23, <1>24, <1>25, <1>26, <1>27, <1>28, <1>29, <1>30, <1>31,
     <1>32, <1>33
     DEF Next, Requests, Resumptions, IoTask, Kernel

(* A task ends no earlier than its session is removed.                     *)
LEMMA NoGhostSessionStep ==
    IInv /\ [Next]_vars => NoGhostSession'
<1> SUFFICES ASSUME IInv, [Next]_vars PROVE NoGhostSession'
  OBVIOUS
<1> USE ConstantsAssumption DEF disk, IInv, TypeOK, Id, Idle, DownIdle,
        NoGhostSession
<1>1. CASE Startup
  BY <1>1 DEF Startup, Erase, manager, kernel
<1>2. CASE Crash
  BY <1>2 DEF Crash, Vanish, Ended
<1>3. ASSUME NEW s \in Session,
             CrashInSave(s)
      PROVE NoGhostSession'
  BY <1>3 DEF CrashInSave, Free, Vanish, Ended
<1>4. ASSUME NEW s \in Session, NEW p \in Pid,
             Create(s, p)
      PROVE NoGhostSession'
  BY <1>4 DEF Create, Spawn, Saved, Free
<1>5. ASSUME NEW s \in Session, NEW p \in Pid,
             CreateFails(s, p)
      PROVE NoGhostSession'
  BY <1>5 DEF CreateFails, Spawn, SaveFails, Free
<1>6. ASSUME NEW s \in Session,
             UpdateSession(s)
      PROVE NoGhostSession'
  BY <1>6 DEF UpdateSession, Free, Saved, SaveFails, manager, kernel
<1>7. ASSUME NEW s \in Session,
             Remove(s)
      PROVE NoGhostSession'
  BY <1>7 DEF Remove, Free, Erase, kernel
<1>8. ASSUME NEW s \in Session,
             Send(s)
      PROVE NoGhostSession'
  BY <1>8 DEF Send, Free, HasReceiver, kernel
<1>9. ASSUME NEW e \in Ext, NEW p \in Pid,
             Register(e, p)
      PROVE NoGhostSession'
  BY <1>9 DEF Register, Free, Saved, SaveFails, kernel
<1>10. ASSUME NEW e \in Ext,
             Unregister(e)
      PROVE NoGhostSession'
  BY <1>10 DEF Unregister, Free, Erase, kernel
<1>11. CASE KillAll
  BY <1>11 DEF KillAll, Free, Erase, kernel
<1>12. CASE ReapDead
  BY <1>12 DEF ReapDead, Free, Erase, kernel
<1>13. CASE AttachBegins
  BY <1>13 DEF AttachBegins, Free, kernel
<1>14. CASE ShutdownBegins
  BY <1>14 DEF ShutdownBegins, Free, kernel
<1>15. ASSUME NEW s \in Session,
             SendResumes(s)
      PROVE NoGhostSession'
  BY <1>15 DEF SendResumes, kernel
<1>16. ASSUME NEW s \in Session,
             SendFails(s)
      PROVE NoGhostSession'
  BY <1>16 DEF SendFails, HasReceiver, kernel
<1>17. CASE AttachEnds
  BY <1>17 DEF AttachEnds, kernel
<1>18. CASE ShutdownEnds
  BY <1>18 DEF ShutdownEnds, SaveAll, FileState
<1>19. ASSUME NEW s \in Session,
             TaskStarts(s)
      PROVE NoGhostSession'
  BY <1>19 DEF TaskStarts, Goto, manager, kernel
<1>20. ASSUME NEW s \in Session,
             TaskFails(s)
      PROVE NoGhostSession'
  BY <1>20 DEF TaskFails, Goto, manager, kernel
<1>21. ASSUME NEW s \in Session,
             TaskTakes(s)
      PROVE NoGhostSession'
  BY <1>21 DEF TaskTakes, Goto, manager, kernel
<1>22. ASSUME NEW s \in Session,
             TaskWrites(s)
      PROVE NoGhostSession'
  BY <1>22 DEF TaskWrites, Goto, manager, kernel
<1>23. ASSUME NEW s \in Session,
             TaskWriteFails(s)
      PROVE NoGhostSession'
  BY <1>23 DEF TaskWriteFails, Goto, manager, kernel
<1>24. ASSUME NEW s \in Session,
             TaskReadsEof(s)
      PROVE NoGhostSession'
  BY <1>24 DEF TaskReadsEof, Goto, manager, kernel
<1>25. ASSUME NEW s \in Session,
             TaskSenderGone(s)
      PROVE NoGhostSession'
  BY <1>25 DEF TaskSenderGone, Goto, manager, kernel
<1>26. ASSUME NEW s \in Session,
             TaskCollects(s)
      PROVE NoGhostSession'
  BY <1>26 DEF TaskCollects, Goto, manager
<1>27. ASSUME NEW s \in Session,
             TaskGivesUp(s)
      PROVE NoGhostSession'
  BY <1>27 DEF TaskGivesUp, Goto, manager, kernel
<1>28. ASSUME NEW s \in Session,
             TaskDelists(s)
      PROVE NoGhostSession'
  BY <1>28 DEF TaskDelists, Free, Goto, Erase, kernel
<1>29. ASSUME NEW s \in Session,
             ShellExits(s)
      PROVE NoGhostSession'
  BY <1>29 DEF ShellExits, manager
<1>30. ASSUME NEW s \in Session,
             TtyCloses(s)
      PROVE NoGhostSession'
  BY <1>30 DEF TtyCloses, manager
<1>31. ASSUME NEW p \in Pid,
             OtherStarts(p)
      PROVE NoGhostSession'
  BY <1>31 DEF OtherStarts, manager
<1>32. ASSUME NEW p \in Pid,
             OtherExits(p)
      PROVE NoGhostSession'
  BY <1>32 DEF OtherExits, manager
<1>33. CASE UNCHANGED vars
  BY <1>33 DEF vars, manager, kernel
<1> QED
  BY <1>1, <1>2, <1>3, <1>4, <1>5, <1>6, <1>7, <1>8, <1>9, <1>10, <1>11,
     <1>12, <1>13, <1>14, <1>15, <1>16, <1>17, <1>18, <1>19, <1>20, <1>21,
     <1>22, <1>23, <1>24, <1>25, <1>26, <1>27, <1>28, <1>29, <1>30, <1>31,
     <1>32, <1>33
     DEF Next, Requests, Resumptions, IoTask, Kernel

(* Only the task's own waitpid, or the last one of shutdown, frees a pid.   *)
LEMMA PidPinnedStep ==
    IInv /\ [Next]_vars => PidPinned'
<1> SUFFICES ASSUME IInv, [Next]_vars PROVE PidPinned'
  OBVIOUS
<1> USE ConstantsAssumption DEF disk, IInv, TypeOK, Id, Idle, DownIdle,
        PidPinned, Unwaited
<1>1. CASE Startup
  BY <1>1 DEF Startup, Erase, manager, kernel
<1>2. CASE Crash
  BY <1>2 DEF Crash, Vanish, Ended
<1>3. ASSUME NEW s \in Session,
             CrashInSave(s)
      PROVE PidPinned'
  BY <1>3 DEF CrashInSave, Free, Vanish, Ended
<1>4. ASSUME NEW s \in Session, NEW p \in Pid,
             Create(s, p)
      PROVE PidPinned'
  BY <1>4 DEF Create, Spawn, Saved, Free
<1>5. ASSUME NEW s \in Session, NEW p \in Pid,
             CreateFails(s, p)
      PROVE PidPinned'
  BY <1>5 DEF CreateFails, Spawn, SaveFails, Free
<1>6. ASSUME NEW s \in Session,
             UpdateSession(s)
      PROVE PidPinned'
  BY <1>6 DEF UpdateSession, Free, Saved, SaveFails, manager, kernel
<1>7. ASSUME NEW s \in Session,
             Remove(s)
      PROVE PidPinned'
  BY <1>7 DEF Remove, Free, Erase, kernel
<1>8. ASSUME NEW s \in Session,
             Send(s)
      PROVE PidPinned'
  BY <1>8 DEF Send, Free, HasReceiver, kernel
<1>9. ASSUME NEW e \in Ext, NEW p \in Pid,
             Register(e, p)
      PROVE PidPinned'
  BY <1>9 DEF Register, Free, Saved, SaveFails, kernel
<1>10. ASSUME NEW e \in Ext,
             Unregister(e)
      PROVE PidPinned'
  BY <1>10 DEF Unregister, Free, Erase, kernel
<1>11. CASE KillAll
  BY <1>11 DEF KillAll, Free, Erase, kernel
<1>12. CASE ReapDead
  BY <1>12 DEF ReapDead, Free, Erase, kernel
<1>13. CASE AttachBegins
  BY <1>13 DEF AttachBegins, Free, kernel
<1>14. CASE ShutdownBegins
  BY <1>14 DEF ShutdownBegins, Free, kernel
<1>15. ASSUME NEW s \in Session,
             SendResumes(s)
      PROVE PidPinned'
  BY <1>15 DEF SendResumes, kernel
<1>16. ASSUME NEW s \in Session,
             SendFails(s)
      PROVE PidPinned'
  BY <1>16 DEF SendFails, HasReceiver, kernel
<1>17. CASE AttachEnds
  BY <1>17 DEF AttachEnds, kernel
<1>18. CASE ShutdownEnds
  BY <1>18 DEF ShutdownEnds, SaveAll, FileState
<1>19. ASSUME NEW s \in Session,
             TaskStarts(s)
      PROVE PidPinned'
  BY <1>19 DEF TaskStarts, Goto, manager, kernel
<1>20. ASSUME NEW s \in Session,
             TaskFails(s)
      PROVE PidPinned'
  BY <1>20 DEF TaskFails, Goto, manager, kernel
<1>21. ASSUME NEW s \in Session,
             TaskTakes(s)
      PROVE PidPinned'
  BY <1>21 DEF TaskTakes, Goto, manager, kernel
<1>22. ASSUME NEW s \in Session,
             TaskWrites(s)
      PROVE PidPinned'
  BY <1>22 DEF TaskWrites, Goto, manager, kernel
<1>23. ASSUME NEW s \in Session,
             TaskWriteFails(s)
      PROVE PidPinned'
  BY <1>23 DEF TaskWriteFails, Goto, manager, kernel
<1>24. ASSUME NEW s \in Session,
             TaskReadsEof(s)
      PROVE PidPinned'
  BY <1>24 DEF TaskReadsEof, Goto, manager, kernel
<1>25. ASSUME NEW s \in Session,
             TaskSenderGone(s)
      PROVE PidPinned'
  BY <1>25 DEF TaskSenderGone, Goto, manager, kernel
<1>26. ASSUME NEW s \in Session,
             TaskCollects(s)
      PROVE PidPinned'
  BY <1>26 DEF TaskCollects, Goto, manager
<1>27. ASSUME NEW s \in Session,
             TaskGivesUp(s)
      PROVE PidPinned'
  BY <1>27 DEF TaskGivesUp, Goto, manager, kernel
<1>28. ASSUME NEW s \in Session,
             TaskDelists(s)
      PROVE PidPinned'
  BY <1>28 DEF TaskDelists, Free, Goto, Erase, kernel
<1>29. ASSUME NEW s \in Session,
             ShellExits(s)
      PROVE PidPinned'
  BY <1>29 DEF ShellExits, manager
<1>30. ASSUME NEW s \in Session,
             TtyCloses(s)
      PROVE PidPinned'
  BY <1>30 DEF TtyCloses, manager
<1>31. ASSUME NEW p \in Pid,
             OtherStarts(p)
      PROVE PidPinned'
  BY <1>31 DEF OtherStarts, manager
<1>32. ASSUME NEW p \in Pid,
             OtherExits(p)
      PROVE PidPinned'
  BY <1>32 DEF OtherExits, manager
<1>33. CASE UNCHANGED vars
  BY <1>33 DEF vars, manager, kernel
<1> QED
  BY <1>1, <1>2, <1>3, <1>4, <1>5, <1>6, <1>7, <1>8, <1>9, <1>10, <1>11,
     <1>12, <1>13, <1>14, <1>15, <1>16, <1>17, <1>18, <1>19, <1>20, <1>21,
     <1>22, <1>23, <1>24, <1>25, <1>26, <1>27, <1>28, <1>29, <1>30, <1>31,
     <1>32, <1>33
     DEF Next, Requests, Resumptions, IoTask, Kernel

-----------------------------------------------------------------------------
(* The initial state satisfies the invariant.                              *)
LEMMA InitIInv == Init => IInv
  BY ConstantsAssumption
  DEF Init, IInv, TypeOK, Idle, DownIdle, FreshIds,
      FilesMatchSessions, NoGhostSession,
      PidPinned, Unwaited, Id, FileState, TaskState

(* IInv is inductive.                                                      *)
LEMMA IInvStep == IInv /\ [Next]_vars => IInv'
<1>1. IInv => TypeOK
  BY DEF IInv
<1> QED
  BY <1>1, TypeStep, IdleStep, FilesMatchSessionsStep, NoGhostSessionStep,
     PidPinnedStep DEF IInv

(* IInv holds in every reachable state.                                    *)
THEOREM Invariance == Spec => []IInv
  BY InitIInv, IInvStep, PTL DEF Spec

(* The variables of the daemon keep to their sets.                         *)
THEOREM TypeCorrect == Spec => []TypeOK
<1>1. IInv => TypeOK
  BY DEF IInv
<1> QED
  BY <1>1, Invariance, PTL

(* Files on disk and sessions in the manager agree while the daemon runs.  *)
THEOREM FilesCorrect == Spec => []FilesMatchSessions
<1>1. IInv => FilesMatchSessions
  BY DEF IInv
<1> QED
  BY <1>1, Invariance, PTL

(* Every listed session has an io task to delist it, or had one that could *)
(* not register its PTY.                                                   *)
THEOREM NoGhost == Spec => []NoGhostSession
<1>1. IInv => NoGhostSession
  BY DEF IInv
<1> QED
  BY <1>1, Invariance, PTL

(* Until its io task waits for it, a session's pid is its shell's.         *)
THEOREM PidsPinned == Spec => []PidPinned
<1>1. IInv => PidPinned
  BY DEF IInv
<1> QED
  BY <1>1, Invariance, PTL
-----------------------------------------------------------------------------
(* Every step is a step of the directory or leaves it alone.               *)
LEMMA DirectoryStep ==
    IInv /\ [Next]_vars => [Directory!Next]_(Directory!vars)
<1> SUFFICES ASSUME IInv, [Next]_vars
             PROVE  [Directory!Next]_(Directory!vars)
  OBVIOUS
<1>agreed. phase' # "down" => Directory!Agreed
  <2>1. FilesMatchSessions' /\ (sessions \subseteq Session)'
    BY FilesMatchSessionsStep, TypeStep DEF IInv, TypeOK
  <2> QED
    BY <2>1 DEF FilesMatchSessions, Directory!Agreed
<1> USE ConstantsAssumption DEF disk, IInv, TypeOK, Id, Idle, DownIdle,
        FreshIds, FilesMatchSessions, NoGhostSession
<1> DEFINE ended == {s \in Session : task[s] # "none"} \ sessions
           recorded == {s \in Session : file[s] = "ok"}
           stuck == failed \cap Session
<1>a. ASSUME UNCHANGED <<phase, sessions>>, recorded' = recorded,
             stuck' = stuck, ended' = ended
      PROVE  [Directory!Next]_(Directory!vars)
  BY <1>a DEF Directory!vars
<1>b. ASSUME phase # "down", UNCHANGED <<phase, sessions, task>>,
             \A t \in Session \ sessions : file'[t] = file[t],
             failed' \ sessions = failed \ sessions
      PROVE  [Directory!Next]_(Directory!vars)
  <2>1. Directory!Rewrite
    BY <1>b, <1>agreed DEF Directory!Rewrite
  <2> QED
    BY <2>1 DEF Directory!Next
<1>c. ASSUME NEW S \in SUBSET sessions, phase # "down", UNCHANGED phase,
             sessions' = sessions \ S, ended' = ended \cup S,
             NEW I \in SUBSET Id, Erase(I), I \cap sessions \subseteq S
      PROVE  [Directory!Next]_(Directory!vars)
  <2>1. /\ recorded' \subseteq recorded
        /\ recorded \cap sessions' \subseteq recorded'
        /\ failed' \cap sessions' = failed \cap sessions'
    BY <1>c DEF Erase
  <2>2. Directory!End(S)
    BY <2>1, <1>c, <1>agreed DEF Directory!End
  <2> QED
    BY <2>2 DEF Directory!Next
<1>d. ASSUME NEW S \in SUBSET Session, S \cap ended = {}, phase # "down",
             phase' = "down", sessions' = {},
             ended' = ended \cup sessions \cup S,
             recorded' = recorded \ S, stuck' = {}
      PROVE  [Directory!Next]_(Directory!vars)
  <2>1. Directory!Stop(S)
    BY <1>d DEF Directory!Stop
  <2> QED
    BY <2>1, <1>d DEF Directory!Next
<1>1. CASE Startup
  <2>1. Directory!Start
    BY <1>1 DEF Startup, Erase, manager, Directory!Start
  <2> QED
    BY <2>1 DEF Directory!Next
<1>2. CASE Crash
  <2>1. ended' = ended \cup sessions \cup {}
    BY <1>2 DEF Crash, Vanish, Ended, TaskState
  <2>2. /\ phase # "down" /\ phase' = "down" /\ sessions' = {}
        /\ recorded' = recorded \ {} /\ stuck' = {}
    BY <1>2 DEF Crash, Vanish
  <2>3. {} \in SUBSET Session /\ {} \cap ended = {}
    OBVIOUS
  <2> HIDE DEF ended, recorded, stuck
  <2> QED
    BY <2>1, <2>2, <2>3, <1>d
<1>3. ASSUME NEW s \in Session,
             CrashInSave(s)
      PROVE [Directory!Next]_(Directory!vars)
  <2>1. ended' = ended \cup sessions \cup {s}
    BY <1>3 DEF CrashInSave, Vanish, Ended, TaskState
  <2>2. /\ phase # "down" /\ phase' = "down" /\ sessions' = {}
        /\ recorded' = recorded \ {s} /\ stuck' = {}
    BY <1>3 DEF CrashInSave, Free, Vanish
  <2>3. {s} \cap ended = {}
    BY <1>3 DEF CrashInSave
  <2> QED
    BY <2>1, <2>2, <2>3, <1>d
<1>4. ASSUME NEW s \in Session, NEW p \in Pid,
             Create(s, p)
      PROVE [Directory!Next]_(Directory!vars)
  <2>1. Directory!Open(s)
    BY <1>4 DEF Create, Spawn, Saved, Free, Directory!Open
  <2> QED
    BY <2>1 DEF Directory!Next
<1>5. ASSUME NEW s \in Session, NEW p \in Pid,
             CreateFails(s, p)
      PROVE [Directory!Next]_(Directory!vars)
  <2>1. Directory!Abandon(s)
    BY <1>5 DEF CreateFails, Spawn, SaveFails, Free, Directory!Abandon
  <2> QED
    BY <2>1 DEF Directory!Next
<1>6. ASSUME NEW s \in Session,
             UpdateSession(s)
      PROVE [Directory!Next]_(Directory!vars)
  <2>1. /\ phase # "down" /\ UNCHANGED <<phase, sessions, task>>
        /\ s \in sessions
    BY <1>6 DEF UpdateSession, Free, manager
  <2>2. /\ \A t \in Session \ sessions : file'[t] = file[t]
        /\ failed' \ sessions = failed \ sessions
    BY <2>1, <1>6 DEF UpdateSession, Saved, SaveFails
  <2> QED
    BY <2>1, <2>2, <1>b
<1>7. ASSUME NEW s \in Session,
             Remove(s)
      PROVE [Directory!Next]_(Directory!vars)
  <2>1. /\ phase # "down" /\ UNCHANGED phase
        /\ sessions' = sessions \ {s} /\ Erase({s})
    BY <1>7 DEF Remove, Free
  <2>2. ended' = ended \cup {s} /\ {s} \in SUBSET sessions
    BY <1>7 DEF Remove
  <2> QED
    BY <2>1, <2>2, <1>c
<1>8. ASSUME NEW s \in Session,
             Send(s)
      PROVE [Directory!Next]_(Directory!vars)
  BY <1>8, <1>a DEF Send, Free, kernel
<1>9. ASSUME NEW e \in Ext, NEW p \in Pid,
             Register(e, p)
      PROVE [Directory!Next]_(Directory!vars)
  BY <1>9, <1>a DEF Register, Free, Saved, SaveFails, kernel
<1>10. ASSUME NEW e \in Ext,
             Unregister(e)
      PROVE [Directory!Next]_(Directory!vars)
  BY <1>10, <1>a DEF Unregister, Free, Erase, kernel
<1>11. CASE KillAll
  <2>1. /\ phase # "down" /\ UNCHANGED phase
        /\ sessions' = sessions \ sessions
        /\ Erase(Id)
    BY <1>11 DEF KillAll, Free
  <2>2. ended' = ended \cup sessions
    BY <1>11 DEF KillAll
  <2> QED
    BY <2>1, <2>2, <1>c
<1>12. CASE ReapDead
  <2> DEFINE S == {i \in sessions : Gone(i)}
  <2>1. /\ phase # "down" /\ UNCHANGED phase
        /\ sessions' = sessions \ S
        /\ Erase({i \in sessions \cup tracked : Gone(i)})
    BY <1>12 DEF ReapDead, Free
  <2>2. ended' = ended \cup S
    BY <1>12 DEF ReapDead
  <2>3. /\ {i \in sessions \cup tracked : Gone(i)} \in SUBSET Id
        /\ {i \in sessions \cup tracked : Gone(i)} \cap sessions \subseteq S
    OBVIOUS
  <2> QED
    BY <2>1, <2>2, <2>3, <1>c
<1>13. CASE AttachBegins
  BY <1>13, <1>a DEF AttachBegins, Free, kernel
<1>14. CASE ShutdownBegins
  BY <1>14, <1>a DEF ShutdownBegins, Free, kernel
<1>15. ASSUME NEW s \in Session,
             SendResumes(s)
      PROVE [Directory!Next]_(Directory!vars)
  BY <1>15, <1>a DEF SendResumes, kernel
<1>16. ASSUME NEW s \in Session,
             SendFails(s)
      PROVE [Directory!Next]_(Directory!vars)
  BY <1>16, <1>a DEF SendFails, kernel
<1>17. CASE AttachEnds
  BY <1>17, <1>a DEF AttachEnds, kernel
<1>18. CASE ShutdownEnds
  <2>1. ~(phase = "down") /\ UNCHANGED <<sessions, task>>
    BY <1>18 DEF ShutdownEnds, SaveAll
  <2>2. /\ \A t \in Session \ sessions : file'[t] = file[t]
        /\ failed' \ sessions = failed \ sessions
    BY <1>18 DEF ShutdownEnds, SaveAll
  <2>3. Directory!Rewrite
    BY <2>1, <2>2, <1>18, <1>agreed DEF ShutdownEnds, Directory!Rewrite
  <2> QED
    BY <2>3 DEF Directory!Next
<1>19. ASSUME NEW s \in Session,
             TaskStarts(s)
      PROVE [Directory!Next]_(Directory!vars)
  BY <1>19, <1>a DEF TaskStarts, Goto, manager, kernel, TaskState
<1>20. ASSUME NEW s \in Session,
             TaskFails(s)
      PROVE [Directory!Next]_(Directory!vars)
  BY <1>20, <1>a DEF TaskFails, Goto, manager, kernel, TaskState
<1>21. ASSUME NEW s \in Session,
             TaskTakes(s)
      PROVE [Directory!Next]_(Directory!vars)
  BY <1>21, <1>a DEF TaskTakes, Goto, manager, kernel, TaskState
<1>22. ASSUME NEW s \in Session,
             TaskWrites(s)
      PROVE [Directory!Next]_(Directory!vars)
  BY <1>22, <1>a DEF TaskWrites, Goto, manager, kernel, TaskState
<1>23. ASSUME NEW s \in Session,
             TaskWriteFails(s)
      PROVE [Directory!Next]_(Directory!vars)
  BY <1>23, <1>a DEF TaskWriteFails, Goto, manager, kernel, TaskState
<1>24. ASSUME NEW s \in Session,
             TaskReadsEof(s)
      PROVE [Directory!Next]_(Directory!vars)
  BY <1>24, <1>a DEF TaskReadsEof, Goto, manager, kernel, TaskState
<1>25. ASSUME NEW s \in Session,
             TaskSenderGone(s)
      PROVE [Directory!Next]_(Directory!vars)
  BY <1>25, <1>a DEF TaskSenderGone, Goto, manager, kernel, TaskState
<1>26. ASSUME NEW s \in Session,
             TaskCollects(s)
      PROVE [Directory!Next]_(Directory!vars)
  BY <1>26, <1>a DEF TaskCollects, Goto, manager, TaskState
<1>27. ASSUME NEW s \in Session,
             TaskGivesUp(s)
      PROVE [Directory!Next]_(Directory!vars)
  BY <1>27, <1>a DEF TaskGivesUp, Goto, manager, kernel, TaskState
<1>28. ASSUME NEW s \in Session,
             TaskDelists(s)
      PROVE [Directory!Next]_(Directory!vars)
  <2> DEFINE S == {s} \cap sessions
  <2>1. /\ phase # "down" /\ UNCHANGED phase
        /\ sessions' = sessions \ S /\ Erase({s})
    BY <1>28 DEF TaskDelists, Free
  <2>2. ended' = ended \cup S
    BY <1>28 DEF TaskDelists, Goto, TaskState
  <2>3. {s} \in SUBSET Id /\ {s} \cap sessions \subseteq S
    OBVIOUS
  <2> QED
    BY <2>1, <2>2, <2>3, <1>c
<1>29. ASSUME NEW s \in Session,
             ShellExits(s)
      PROVE [Directory!Next]_(Directory!vars)
  BY <1>29, <1>a DEF ShellExits, manager
<1>30. ASSUME NEW s \in Session,
             TtyCloses(s)
      PROVE [Directory!Next]_(Directory!vars)
  BY <1>30, <1>a DEF TtyCloses, manager
<1>31. ASSUME NEW p \in Pid,
             OtherStarts(p)
      PROVE [Directory!Next]_(Directory!vars)
  BY <1>31, <1>a DEF OtherStarts, manager
<1>32. ASSUME NEW p \in Pid,
             OtherExits(p)
      PROVE [Directory!Next]_(Directory!vars)
  BY <1>32, <1>a DEF OtherExits, manager
<1>33. CASE UNCHANGED vars
  BY <1>33, <1>a DEF vars, manager, kernel
<1> QED
  BY <1>1, <1>2, <1>3, <1>4, <1>5, <1>6, <1>7, <1>8, <1>9, <1>10, <1>11,
     <1>12, <1>13, <1>14, <1>15, <1>16, <1>17, <1>18, <1>19, <1>20, <1>21,
     <1>22, <1>23, <1>24, <1>25, <1>26, <1>27, <1>28, <1>29, <1>30, <1>31,
     <1>32, <1>33
     DEF Next, Requests, Resumptions, IoTask, Kernel

(* The session manager implements the session directory.                   *)
THEOREM Refinement == Spec => ImplementsDirectory
<1>1. Init => Directory!Init
  BY ConstantsAssumption DEF Init, Directory!Init, Id
<1> QED
  BY <1>1, Invariance, DirectoryStep, PTL
     DEF Spec, ImplementsDirectory, Directory!Spec
-----------------------------------------------------------------------------
(* A session whose shell lives leaves the manager with a SIGHUP, or after  *)
(* its task waited in vain.                                                *)
LEMMA SignalledStep ==
    ASSUME IInv, [Next]_vars, phase = "up", phase' = "up",
           NEW t \in sessions \ sessions'
    PROVE  t \in hup' \/ proc[pid[t]] # t \/ task[t] = "cleanup"
<1> DEFINE Signalled == t \in hup' \/ proc[pid[t]] # t \/ task[t] = "cleanup"
<1> SUFFICES Signalled
  OBVIOUS
<1> USE ConstantsAssumption DEF disk, IInv, TypeOK
<1>1. CASE Startup
  BY <1>1 DEF Startup, manager
<1>2. CASE Crash
  BY <1>2 DEF Crash, Vanish
<1>3. ASSUME NEW s \in Session,
             CrashInSave(s)
      PROVE Signalled
  BY <1>3 DEF CrashInSave, Vanish
<1>4. ASSUME NEW s \in Session, NEW p \in Pid,
             Create(s, p)
      PROVE Signalled
  BY <1>4 DEF Create, Spawn, Saved
<1>5. ASSUME NEW s \in Session, NEW p \in Pid,
             CreateFails(s, p)
      PROVE Signalled
  BY <1>5 DEF CreateFails, Spawn, SaveFails
<1>6. ASSUME NEW s \in Session,
             UpdateSession(s)
      PROVE Signalled
  BY <1>6 DEF UpdateSession, manager
<1>7. ASSUME NEW s \in Session,
             Remove(s)
      PROVE Signalled
  BY <1>7 DEF Remove, Free, Reached
<1>8. ASSUME NEW s \in Session,
             Send(s)
      PROVE Signalled
  BY <1>8 DEF Send
<1>9. ASSUME NEW e \in Ext, NEW p \in Pid,
             Register(e, p)
      PROVE Signalled
  BY <1>9 DEF Register
<1>10. ASSUME NEW e \in Ext,
             Unregister(e)
      PROVE Signalled
  BY <1>10 DEF Unregister
<1>11. CASE KillAll
  BY <1>11 DEF KillAll, Reached
<1>12. CASE ReapDead
  BY <1>12 DEF ReapDead, Gone
<1>13. CASE AttachBegins
  BY <1>13 DEF AttachBegins
<1>14. CASE ShutdownBegins
  BY <1>14 DEF ShutdownBegins
<1>15. ASSUME NEW s \in Session,
             SendResumes(s)
      PROVE Signalled
  BY <1>15 DEF SendResumes
<1>16. ASSUME NEW s \in Session,
             SendFails(s)
      PROVE Signalled
  BY <1>16 DEF SendFails
<1>17. CASE AttachEnds
  BY <1>17 DEF AttachEnds
<1>18. CASE ShutdownEnds
  BY <1>18 DEF ShutdownEnds, SaveAll
<1>19. ASSUME NEW s \in Session,
             TaskStarts(s)
      PROVE Signalled
  BY <1>19 DEF TaskStarts, manager
<1>20. ASSUME NEW s \in Session,
             TaskFails(s)
      PROVE Signalled
  BY <1>20 DEF TaskFails, manager
<1>21. ASSUME NEW s \in Session,
             TaskTakes(s)
      PROVE Signalled
  BY <1>21 DEF TaskTakes, manager
<1>22. ASSUME NEW s \in Session,
             TaskWrites(s)
      PROVE Signalled
  BY <1>22 DEF TaskWrites, manager
<1>23. ASSUME NEW s \in Session,
             TaskWriteFails(s)
      PROVE Signalled
  BY <1>23 DEF TaskWriteFails, manager
<1>24. ASSUME NEW s \in Session,
             TaskReadsEof(s)
      PROVE Signalled
  BY <1>24 DEF TaskReadsEof, manager
<1>25. ASSUME NEW s \in Session,
             TaskSenderGone(s)
      PROVE Signalled
  BY <1>25 DEF TaskSenderGone, manager
<1>26. ASSUME NEW s \in Session,
             TaskCollects(s)
      PROVE Signalled
  BY <1>26 DEF TaskCollects, manager
<1>27. ASSUME NEW s \in Session,
             TaskGivesUp(s)
      PROVE Signalled
  BY <1>27 DEF TaskGivesUp, manager
<1>28. ASSUME NEW s \in Session,
             TaskDelists(s)
      PROVE Signalled
  BY <1>28 DEF TaskDelists, Goto
<1>29. ASSUME NEW s \in Session,
             ShellExits(s)
      PROVE Signalled
  BY <1>29 DEF ShellExits, manager
<1>30. ASSUME NEW s \in Session,
             TtyCloses(s)
      PROVE Signalled
  BY <1>30 DEF TtyCloses, manager
<1>31. ASSUME NEW p \in Pid,
             OtherStarts(p)
      PROVE Signalled
  BY <1>31 DEF OtherStarts, manager
<1>32. ASSUME NEW p \in Pid,
             OtherExits(p)
      PROVE Signalled
  BY <1>32 DEF OtherExits, manager
<1>33. CASE UNCHANGED vars
  BY <1>33 DEF vars, manager
<1> QED
  BY <1>1, <1>2, <1>3, <1>4, <1>5, <1>6, <1>7, <1>8, <1>9, <1>10, <1>11,
     <1>12, <1>13, <1>14, <1>15, <1>16, <1>17, <1>18, <1>19, <1>20, <1>21,
     <1>22, <1>23, <1>24, <1>25, <1>26, <1>27, <1>28, <1>29, <1>30, <1>31,
     <1>32, <1>33
     DEF Next, Requests, Resumptions, IoTask, Kernel

(* No live shell is left behind without a SIGHUP unless its task gave up.  *)
THEOREM ShellsSignalled == Spec => DelistedShellsSignalled
<1>1. IInv /\ [Next]_vars =>
        [phase = "up" /\ phase' = "up" =>
            \A s \in sessions \ sessions' :
                s \in hup' \/ proc[pid[s]] # s \/ task[s] = "cleanup"]_vars
  BY SignalledStep
<1> QED
  BY <1>1, Invariance, PTL DEF Spec, DelistedShellsSignalled

=============================================================================
