-------------------------- MODULE TransactionLock --------------------------
(***************************************************************************)
(* acquire_transaction_locks of crates/ash-platform/src/transaction.rs: how *)
(* threads of several processes come to be the one caller that module       *)
(* FileTransaction is about. A thread takes the mutex of its workspace      *)
(* instance (clones of a Workspace share it), makes sure that the reserved  *)
(* directory .ash exists and is marked, and takes the operating-system lock *)
(* on .ash/LOCK. Both locks are polled, so a waiting call can be stopped.   *)
(* Every instance lives in a process of its own, which may crash.           *)
(***************************************************************************)
EXTENDS Naturals

CONSTANTS Instance,     \* workspace instances
          Thread,       \* threads that call file_transaction
          Home,         \* the instance of each thread
          None,         \* no holder of a lock
          MaxCalls,     \* bound: calls made by all threads
          MaxCrashes,   \* bound: crashes of processes
          MaxFaults     \* bound: failing file-system calls

ASSUME LockAssumption ==
    /\ Home \in [Thread -> Instance]
    /\ None \notin Thread
    /\ {MaxCalls, MaxCrashes, MaxFaults} \subseteq Nat

VARIABLES
    pc,         \* where each thread is
    mutex,      \* mutation_lock of each instance: its holder, or None
    flock,      \* the holder of the lock on .ash/LOCK, or None
    stateDir,   \* whether .ash exists
    format,     \* whether .ash/FORMAT holds the marker
    flag,       \* internal_state of each instance
    reply,      \* what the last call of each thread returned
    calls, crashes, faults   \* counters for the bounds

vars == <<pc, mutex, flock, stateDir, format, flag, reply, calls, crashes, faults>>

Init ==
    /\ pc = [t \in Thread |-> "idle"]
    /\ mutex = [i \in Instance |-> None] /\ flock = None
    /\ stateDir = FALSE /\ format = FALSE
    /\ flag = [i \in Instance |-> FALSE]
    /\ reply = [t \in Thread |-> "none"]
    /\ calls = 0 /\ crashes = 0 /\ faults = 0

Goto(t, label) == pc' = [pc EXCEPT ![t] = label]

Release(t) == mutex' = [mutex EXCEPT ![Home[t]] = None]

\* The call returns before it has both locks.
GiveUp(t, r) == Goto(t, "idle") /\ reply' = [reply EXCEPT ![t] = r]

-----------------------------------------------------------------------------
\* file_transaction, whose request is valid.
CallTransaction(t) ==
    /\ pc[t] = "idle" /\ calls < MaxCalls /\ calls' = calls + 1
    /\ Goto(t, "local")
    /\ UNCHANGED <<mutex, flock, stateDir, format, flag, reply, crashes, faults>>

\* recover_file_transactions does nothing in an instance that has not seen a
\* marked .ash yet.
CallRecovery(t) ==
    /\ pc[t] = "idle" /\ calls < MaxCalls /\ calls' = calls + 1
    /\ IF flag[Home[t]] THEN Goto(t, "local") /\ UNCHANGED reply
                        ELSE GiveUp(t, "nothing")
    /\ UNCHANGED <<mutex, flock, stateDir, format, flag, crashes, faults>>

TakeLocal(t) ==
    /\ pc[t] = "local" /\ mutex[Home[t]] = None
    /\ mutex' = [mutex EXCEPT ![Home[t]] = t] /\ Goto(t, "ensure")
    /\ UNCHANGED <<flock, stateDir, format, flag, reply, calls, crashes, faults>>

\* The control stops a call while it polls a lock that somebody else holds.
Stop(t) ==
    /\ \/ pc[t] = "local" /\ mutex[Home[t]] # None /\ UNCHANGED mutex
       \/ pc[t] = "lock" /\ flock # None /\ Release(t)
    /\ GiveUp(t, "stopped")
    /\ UNCHANGED <<flock, stateDir, format, flag, calls, crashes, faults>>

\* ensure_internal_state looks at .ash: ours, foreign, or absent.
EnsureState(t) ==
    /\ pc[t] = "ensure"
    /\ \/ /\ stateDir /\ format /\ Goto(t, "lock")
          /\ flag' = [flag EXCEPT ![Home[t]] = TRUE] /\ UNCHANGED <<mutex, reply>>
       \/ stateDir /\ ~format /\ GiveUp(t, "reserved") /\ Release(t) /\ UNCHANGED flag
       \/ ~stateDir /\ Goto(t, "mkdir") /\ UNCHANGED <<flag, mutex, reply>>
    /\ UNCHANGED <<flock, stateDir, format, calls, crashes, faults>>

CreateState(t) ==
    /\ pc[t] = "mkdir"
    /\ IF stateDir THEN GiveUp(t, "error") /\ Release(t) /\ UNCHANGED stateDir
                   ELSE Goto(t, "format") /\ stateDir' = TRUE /\ UNCHANGED <<mutex, reply>>
    /\ UNCHANGED <<flock, format, flag, calls, crashes, faults>>

WriteFormat(t) ==
    /\ pc[t] = "format" /\ format' = TRUE /\ Goto(t, "lock")
    /\ flag' = [flag EXCEPT ![Home[t]] = TRUE]
    /\ UNCHANGED <<mutex, flock, stateDir, reply, calls, crashes, faults>>

\* Mutant: the result of try_lock is ignored.
TakeFileAnyway(t) ==
    /\ pc[t] = "lock"
    /\ flock' = t /\ Goto(t, "critical")
    /\ UNCHANGED <<mutex, stateDir, format, flag, reply, calls, crashes, faults>>

TakeFile(t) ==
    /\ pc[t] = "lock" /\ flock = None
    /\ flock' = t /\ Goto(t, "critical")
    /\ UNCHANGED <<mutex, stateDir, format, flag, reply, calls, crashes, faults>>

\* TransactionLocks is dropped: its fields in order, the mutex first.
DropLocal(t) ==
    /\ pc[t] = "critical" /\ Release(t) /\ Goto(t, "drop")
    /\ UNCHANGED <<flock, stateDir, format, flag, reply, calls, crashes, faults>>

\* Mutant: the file stays open, and locked.
DropFileLeaks(t) ==
    /\ pc[t] = "drop" /\ GiveUp(t, "done")
    /\ UNCHANGED <<mutex, flock, stateDir, format, flag, calls, crashes, faults>>

DropFile(t) ==
    /\ pc[t] = "drop" /\ flock' = None /\ GiveUp(t, "done")
    /\ UNCHANGED <<mutex, stateDir, format, flag, calls, crashes, faults>>

\* walk leaves .ash out of a listing when its instance knows of it.
Walk(t) ==
    /\ pc[t] = "idle" /\ calls < MaxCalls /\ calls' = calls + 1
    /\ reply' = [reply EXCEPT ![t] =
                    IF stateDir /\ format /\ ~flag[Home[t]] THEN "listsState"
                                                            ELSE "lists"]
    /\ UNCHANGED <<pc, mutex, flock, stateDir, format, flag, crashes, faults>>

\* A file-system call of ensure_internal_state or the opening of LOCK fails.
IoFails(t) ==
    /\ pc[t] \in {"ensure", "mkdir", "format", "lock"}
    /\ faults < MaxFaults /\ faults' = faults + 1
    /\ GiveUp(t, "error") /\ Release(t)
    /\ UNCHANGED <<flock, stateDir, format, flag, calls, crashes>>

\* The process of instance i dies and starts again: the operating system
\* frees its locks, and Workspace::new looks for a marked .ash.
Crash(i) ==
    /\ crashes < MaxCrashes /\ crashes' = crashes + 1
    /\ pc' = [t \in Thread |-> IF Home[t] = i THEN "idle" ELSE pc[t]]
    /\ reply' = [t \in Thread |-> IF Home[t] = i THEN "none" ELSE reply[t]]
    /\ mutex' = [mutex EXCEPT ![i] = None]
    /\ flock' = (IF flock # None /\ Home[flock] = i THEN None ELSE flock)
    /\ flag' = [flag EXCEPT ![i] = stateDir /\ format]
    /\ UNCHANGED <<stateDir, format, calls, faults>>

Progress(t) ==
    \/ TakeLocal(t) \/ EnsureState(t) \/ CreateState(t) \/ WriteFormat(t)
    \/ TakeFile(t) \/ DropLocal(t) \/ DropFile(t)

Next ==
    \/ \E t \in Thread :
          \/ CallTransaction(t) \/ CallRecovery(t) \/ Walk(t)
          \/ Progress(t) \/ Stop(t) \/ IoFails(t)
    \/ \E i \in Instance : Crash(i)

Spec == Init /\ [][Next]_vars

\* Every thread is scheduled, so a polling thread looks at its lock again.
FairSpec == Spec /\ \A t \in Thread : WF_vars(Progress(t))

-----------------------------------------------------------------------------
(* Properties                                                              *)

\* Every variable has its type: a lock is free or held by a thread, never left
\* in another state by a call that gives up or by a crash.
TypeOK ==
    /\ pc \in [Thread -> {"idle", "local", "ensure", "mkdir", "format", "lock",
                          "critical", "drop"}]
    /\ mutex \in [Instance -> Thread \cup {None}]
    /\ flock \in Thread \cup {None}
    /\ stateDir \in BOOLEAN /\ format \in BOOLEAN
    /\ flag \in [Instance -> BOOLEAN]
    /\ reply \in [Thread -> {"none", "nothing", "stopped", "reserved", "error", "done",
                             "lists", "listsState"}]
    /\ calls \in Nat /\ crashes \in Nat /\ faults \in Nat

\* A process-local mutex and an operating-system file lock serialize the
\* callers of acquire_transaction_locks: two threads, of one process or of
\* two, are never both between its return and the drop of the locks, whatever
\* processes crash meanwhile.
Exclusive ==
    \A t, u \in Thread : pc[t] = "critical" /\ pc[u] = "critical" => t = u

\* A caller that holds the locks works below a directory .ash that carries
\* the format marker, and its instance has started to refuse .ash paths.
MarkedState ==
    \A t \in Thread : pc[t] = "critical" => stateDir /\ format /\ flag[Home[t]]

\* Of the threads of one instance only one at a time is past the mutex and
\* has not begun to drop its locks, so only one of them polls the file lock.
OneBehindMutex ==
    \A t, u \in Thread :
        /\ Home[t] = Home[u]
        /\ {pc[t], pc[u]} \subseteq {"ensure", "mkdir", "format", "lock", "critical"}
        => t = u

\* acquire_transaction_locks gives its locks to one caller at a time, below a
\* marked .ash, and lets one thread of an instance at a time try the file lock.
LockSound == TypeOK /\ Exclusive /\ MarkedState /\ OneBehindMutex

\* Nobody waits for ever: once calls stop coming in, every call that is under
\* way gets the locks or gives up, although the locks are only polled.
CallsServed == \A t \in Thread : pc[t] # "idle" ~> pc[t] = "idle"

\* "After interruption, the next mutation rolls an uncommitted patch back or
\* finalizes cleanup": no interruption leaves a .ash that the next mutation
\* refuses as ReservedPath.
StateUsable ==
    stateDir /\ ~format => \E t \in Thread : pc[t] = "format"

\* "Valid internal state is excluded from listings and snapshots": no walk
\* shows a .ash that carries the marker.
StateHidden == \A t \in Thread : reply[t] # "listsState"
=============================================================================
