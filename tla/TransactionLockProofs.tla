------------------------ MODULE TransactionLockProofs -----------------------
(***************************************************************************)
(* Mutual exclusion of the transaction locks, for any number of processes,  *)
(* threads, calls and crashes.                                              *)
(***************************************************************************)
EXTENDS TransactionLock, TLAPS

BehindMutex == {"ensure", "mkdir", "format", "lock", "critical"}

\* Who is past a lock holds it, and the file lock is only reached below a
\* marked state directory that the instance knows of.
LockInv ==
    /\ TypeOK
    /\ \A t \in Thread : pc[t] \in BehindMutex => mutex[Home[t]] = t
    /\ \A t \in Thread : pc[t] \in {"critical", "drop"} => flock = t
    /\ \A t \in Thread :
          pc[t] \in {"lock", "critical"} => stateDir /\ format /\ flag[Home[t]]
    /\ \A t \in Thread : pc[t] = "format" => stateDir

\* The invariant holds before the first call.
LEMMA LockInvInit == Init => LockInv
<1> SUFFICES ASSUME Init PROVE LockInv
    OBVIOUS
<1>1. pc = [t \in Thread |-> "idle"] /\ \A t \in Thread : pc[t] = "idle"
    BY DEF Init
<1>2. /\ pc \in [Thread -> {"idle", "local", "ensure", "mkdir", "format", "lock",
                            "critical", "drop"}]
      /\ mutex \in [Instance -> Thread \cup {None}]
      /\ flock \in Thread \cup {None}
      /\ reply \in [Thread -> {"none", "nothing", "stopped", "reserved", "error",
                               "done", "lists", "listsState"}]
      /\ calls \in Nat /\ crashes \in Nat /\ faults \in Nat
    BY DEF Init
<1>3. /\ stateDir \in BOOLEAN /\ format \in BOOLEAN
      /\ flag \in [Instance -> BOOLEAN]
    BY Zenon DEF Init
<1> QED
    BY <1>1, <1>2, <1>3 DEF LockInv, TypeOK, BehindMutex

\* Every step of a thread, every failing call and every crash keeps it.
LEMMA LockInvNext == LockInv /\ [Next]_vars => LockInv'
<1> SUFFICES ASSUME LockInv, [Next]_vars PROVE LockInv'
    OBVIOUS
<1> USE LockAssumption DEF LockAssumption, LockInv, TypeOK, BehindMutex, Goto, GiveUp, Release
<1>1. ASSUME NEW t \in Thread, CallTransaction(t) PROVE LockInv'
    BY <1>1 DEF CallTransaction
<1>2. ASSUME NEW t \in Thread, CallRecovery(t) PROVE LockInv'
    BY <1>2 DEF CallRecovery
<1>3. ASSUME NEW t \in Thread, Walk(t) PROVE LockInv'
    BY <1>3 DEF Walk
<1>4. ASSUME NEW t \in Thread, TakeLocal(t) PROVE LockInv'
    BY <1>4 DEF TakeLocal
<1>5. ASSUME NEW t \in Thread, EnsureState(t) PROVE LockInv'
    <2>1. CASE stateDir /\ format
        <3>1. /\ pc[t] = "ensure" /\ pc' = [pc EXCEPT ![t] = "lock"]
              /\ flag' = [flag EXCEPT ![Home[t]] = TRUE]
              /\ UNCHANGED <<mutex, reply, flock, stateDir, format, calls, crashes, faults>>
            BY <1>5, <2>1 DEF EnsureState
        <3>2. TypeOK'
            BY <3>1
        <3>3. \A u \in Thread : pc'[u] = IF u = t THEN "lock" ELSE pc[u]
            BY <3>1
        <3>4. \A u \in Thread : flag[Home[u]] => flag'[Home[u]]
            BY <3>1
        <3>5. flag'[Home[t]]
            BY <3>1
        <3> QED
            BY <2>1, <3>1, <3>2, <3>3, <3>4, <3>5
    <2>2. CASE stateDir /\ ~format
        BY <1>5, <2>2, SMTT(30) DEF EnsureState
    <2>3. CASE ~stateDir
        BY <1>5, <2>3, SMTT(30) DEF EnsureState
    <2> QED
        BY <1>5, <2>1, <2>2, <2>3
<1>6. ASSUME NEW t \in Thread, CreateState(t) PROVE LockInv'
    <2>1. CASE stateDir
        BY <1>6, <2>1 DEF CreateState
    <2>2. CASE ~stateDir
        BY <1>6, <2>2 DEF CreateState
    <2> QED
        BY <2>1, <2>2
<1>7. ASSUME NEW t \in Thread, WriteFormat(t) PROVE LockInv'
    BY <1>7 DEF WriteFormat
<1>8. ASSUME NEW t \in Thread, TakeFile(t) PROVE LockInv'
    BY <1>8 DEF TakeFile
<1>9. ASSUME NEW t \in Thread, DropLocal(t) PROVE LockInv'
    BY <1>9 DEF DropLocal
<1>10. ASSUME NEW t \in Thread, DropFile(t) PROVE LockInv'
    BY <1>10 DEF DropFile
<1>11. ASSUME NEW t \in Thread, Stop(t) PROVE LockInv'
    BY <1>11 DEF Stop
<1>12. ASSUME NEW t \in Thread, IoFails(t) PROVE LockInv'
    BY <1>12 DEF IoFails
<1>13. ASSUME NEW i \in Instance, Crash(i) PROVE LockInv'
    BY <1>13 DEF Crash
<1>14. CASE UNCHANGED vars
    BY <1>14 DEF vars
<1> QED
    BY <1>1, <1>2, <1>3, <1>4, <1>5, <1>6, <1>7, <1>8, <1>9, <1>10, <1>11,
       <1>12, <1>13, <1>14 DEF Next, Progress

\* The inductive invariant of the locks holds throughout.
THEOREM LockInvariant == Spec => []LockInv
BY LockInvInit, LockInvNext, PTL DEF Spec

\* acquire_transaction_locks serializes its callers across threads and
\* processes, whatever crashes and failing calls come in between.
THEOREM MutualExclusion == Spec => []Exclusive
<1>1. LockInv => Exclusive
    BY DEF LockInv, Exclusive
<1> QED
    BY <1>1, LockInvariant, PTL

\* The holder of the locks works below a marked .ash, which its instance has
\* begun to refuse to its own callers.
THEOREM StateMarked == Spec => []MarkedState
<1>1. LockInv => MarkedState
    BY DEF LockInv, MarkedState
<1> QED
    BY <1>1, LockInvariant, PTL

\* At most one thread of an instance is behind its mutex.
THEOREM InstanceSerial == Spec => []OneBehindMutex
<1>1. LockInv => OneBehindMutex
    BY DEF LockInv, OneBehindMutex, BehindMutex
<1> QED
    BY <1>1, LockInvariant, PTL

\* All that is asked of acquire_transaction_locks at once: one holder, a marked
\* .ash, one thread of an instance behind its mutex, and the types.
THEOREM LockSafety == Spec => []LockSound
<1>1. LockInv => TypeOK
    BY DEF LockInv
<1> QED
    BY <1>1, LockInvariant, MutualExclusion, StateMarked, InstanceSerial, PTL DEF LockSound
=============================================================================
