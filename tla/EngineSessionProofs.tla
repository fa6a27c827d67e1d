------------------------- MODULE EngineSessionProofs -------------------------
(***************************************************************************)
(* Registration and cancellation of requests, and the permits of the        *)
(* hierarchical governor, for any number of sessions, requests and          *)
(* operations, any limits and any permits asked for.                        *)
(***************************************************************************)
EXTENDS EngineSession, SequenceTheorems, FiniteSetTheorems, TLAPS

\* A request is registered in its own session under its own identifier.
Slots ==
    \A s \in Session, i \in Id :
        active[s][i] # None => SessionOf[active[s][i]] = s /\ IdOf[active[s][i]] = i

\* Whoever looks at the flag of its token is already registered with Notify.
Listening == \A x \in Thread : pc[x] \in {"look", "poll", "parked"} => ear[x] # "off"

ControlType ==
    /\ pc \in [Thread -> Label] /\ ear \in [Thread -> {"off", "on", "rung"}]
    /\ active \in [Session -> [Id -> Program \cup {None}]]
    /\ closing \in [Session -> {"open", "flagged", "cancelling", "closed"}]
    /\ token \subseteq Program /\ waking \subseteq Program

SessionInv == ControlType /\ Slots /\ Listening /\ OwnRegistration /\ NoLostCancel /\ CloseCovers

\* The program of a thread.
LEMMA OwnerProgram == \A x \in Thread : Owner(x) \in Program
    BY EngineAssumption DEF EngineAssumption, Thread, Owner

\* The invariant holds before the first request.
LEMMA SessionInvInit == Init => SessionInv
<1> SUFFICES ASSUME Init PROVE SessionInv
    OBVIOUS
<1>1. ControlType
    BY DEF Init, ControlType, Label, Waiting
<1>2. \A x \in Thread : pc[x] \in {"new", "idle"}
    BY DEF Init
<1>3. \A s \in Session, i \in Id : active[s][i] = None
    BY DEF Init
<1>4. \A s \in Session : closing[s] = "open"
    BY DEF Init
<1>5. Program \subseteq Thread
    BY DEF Thread
<1> QED
    BY <1>1, <1>2, <1>3, <1>4, <1>5
    DEF SessionInv, Slots, Listening, OwnRegistration, NoLostCancel, CloseCovers, Waiting

\* A thread that moves alone, and changes neither registrations nor tokens,
\* keeps the invariant when it listens where it has to and is registered.
LEMMA ThreadMoves ==
    ASSUME SessionInv, NEW x \in Thread, NEW l \in Label, NEW e \in {"off", "on", "rung"},
           pc' = [pc EXCEPT ![x] = l], ear' = [ear EXCEPT ![x] = e],
           UNCHANGED <<active, closing, token, waking>>,
           l \in {"look", "poll", "parked"} => e # "off",
           l \in {"poll", "parked"} /\ Owner(x) \in token => e = "rung" \/ Owner(x) \in waking,
           x \in Program /\ l \in Waiting \cup {"running", "abandon"} => Registered(x)
    PROVE  SessionInv'
<1>1. ControlType'
    BY DEF SessionInv, ControlType
<1>2. Slots' /\ CloseCovers'
    BY DEF SessionInv, Slots, CloseCovers
<1>3. \A y \in Thread : pc'[y] = (IF y = x THEN l ELSE pc[y]) /\ ear'[y] = (IF y = x THEN e ELSE ear[y])
    BY DEF SessionInv, ControlType
<1>4. Listening'
    BY <1>3 DEF SessionInv, Listening
<1>5. NoLostCancel'
    BY <1>3 DEF SessionInv, NoLostCancel, Owner
<1>6. OwnRegistration'
    BY <1>3 DEF SessionInv, OwnRegistration, Registered, Thread
<1> QED
    BY <1>1, <1>2, <1>4, <1>5, <1>6 DEF SessionInv

\* A request that waits for its permit is registered.
LEMMA WaitingRegistered ==
    ASSUME SessionInv, NEW x \in Thread, pc[x] \in Waiting
    PROVE  x \in Program => Registered(x)
    BY DEF SessionInv, OwnRegistration

\* An acquisition that fails keeps the invariant.
LEMMA FailKeeps ==
    ASSUME SessionInv, NEW x \in Thread, pc[x] \in Waiting, Fail(x),
           UNCHANGED <<active, closing, token, waking>>
    PROVE  SessionInv'
<1> DEFINE l == IF x \in Program THEN "abandon" ELSE "drop"
<1>1. pc' = [pc EXCEPT ![x] = l] /\ ear' = [ear EXCEPT ![x] = "off"]
    BY DEF Fail, Goto
<1>2. l \in {"abandon", "drop"} /\ l \in Label
    BY DEF Label
<1> HIDE DEF l
<1> QED
    BY <1>1, <1>2, ThreadMoves, WaitingRegistered, Zenon

\* An acquisition that takes a permit keeps it.
LEMMA TakeKeeps ==
    ASSUME SessionInv, NEW x \in Thread, pc[x] \in Waiting, Take(x),
           UNCHANGED <<active, closing, token, waking>>
    PROVE  SessionInv'
<1>1. PICK l \in {"listen", "running", "next"} : pc' = [pc EXCEPT ![x] = l]
    BY DEF Take, Goto
<1>2. ear' = [ear EXCEPT ![x] = "off"]
    BY DEF Take
<1>3. l \in Label /\ l \notin {"look", "poll", "parked"}
    BY DEF Label, Waiting
<1> QED
    BY <1>1, <1>2, <1>3, ThreadMoves, WaitingRegistered, Zenon

\* Every step of an acquisition keeps it.
LEMMA AcquireKeeps ==
    ASSUME SessionInv, NEW x \in Thread, Acquire(x)
    PROVE  SessionInv'
<1> DEFINE same == ear' = ear => ear' = [ear EXCEPT ![x] = ear[x]]
<1>0. same /\ ear[x] \in {"off", "on", "rung"} /\ Waiting \subseteq Label
    BY DEF SessionInv, ControlType, Label
<1>1. CASE Listen(x)
    <2>1. /\ pc[x] \in Waiting /\ pc' = [pc EXCEPT ![x] = "look"]
          /\ ear' = [ear EXCEPT ![x] = "on"] /\ UNCHANGED <<active, closing, token, waking>>
        BY <1>1 DEF Listen, Goto, Waiting
    <2> QED
        BY <1>0, <2>1, ThreadMoves, WaitingRegistered, Zenon DEF Waiting
<1>2. CASE Look(x)
    <2>1. pc[x] \in Waiting /\ UNCHANGED <<active, closing, token, waking>>
        BY <1>2 DEF Look, Waiting
    <2>2. CASE Owner(x) \in token
        BY <1>2, <2>1, <2>2, FailKeeps DEF Look
    <2>3. CASE Owner(x) \notin token
        <3>1. pc' = [pc EXCEPT ![x] = "poll"] /\ ear' = ear
            BY <1>2, <2>3 DEF Look, Goto
        <3>2. ear[x] # "off"
            BY <1>2 DEF Look, SessionInv, Listening
        <3> QED
            BY <1>0, <2>1, <2>3, <3>1, <3>2, ThreadMoves, WaitingRegistered, Zenon DEF Waiting
    <2> QED
        BY <2>2, <2>3
<1>3. CASE Poll(x)
    <2>1. pc[x] \in Waiting /\ UNCHANGED <<active, closing, token, waking>>
        BY <1>3 DEF Poll, Waiting
    <2>2. CASE Take(x)
        BY <2>1, <2>2, TakeKeeps
    <2>3. CASE Fail(x)
        BY <2>1, <2>3, FailKeeps
    <2>4. CASE Goto(x, "parked") /\ UNCHANGED ear
        <3>1. pc' = [pc EXCEPT ![x] = "parked"] /\ ear' = ear
            BY <2>4 DEF Goto
        <3>2. ear[x] # "off" /\ (Owner(x) \in token => ear[x] = "rung" \/ Owner(x) \in waking)
            BY <1>3 DEF Poll, SessionInv, Listening, NoLostCancel
        <3> QED
            BY <1>0, <2>1, <3>1, <3>2, ThreadMoves, WaitingRegistered, Zenon DEF Waiting
    <2> QED
        BY <1>3, <2>2, <2>3, <2>4 DEF Poll
<1>4. CASE Wake(x)
    <2>1. /\ pc[x] \in Waiting /\ pc' = [pc EXCEPT ![x] = "listen"] /\ ear' = ear
          /\ UNCHANGED <<active, closing, token, waking>>
        BY <1>4 DEF Wake, Goto, Waiting
    <2> QED
        BY <1>0, <2>1, ThreadMoves, WaitingRegistered, Zenon DEF Waiting
<1>5. CASE Grant(x)
    BY <1>5, TakeKeeps DEF Grant, Waiting
<1>6. CASE Timeout(x)
    BY <1>6, FailKeeps DEF Timeout, Waiting
<1> QED
    BY <1>1, <1>2, <1>3, <1>4, <1>5, <1>6 DEF Acquire

\* So does an operation that starts, works, gives a permit back or returns, and
\* a request that gives its permit back.
LEMMA WorkKeeps ==
    ASSUME SessionInv, NEW x \in Thread,
           Drop(x) \/ (x \in Task /\ (Start(x) \/ Operate(x) \/ Give(x)))
    PROVE  SessionInv'
<1>1. UNCHANGED <<ear, active, closing, token, waking>>
    BY DEF Drop, Start, Operate, Give
<1>2. ear' = [ear EXCEPT ![x] = ear[x]] /\ ear[x] \in {"off", "on", "rung"}
    BY <1>1 DEF SessionInv, ControlType
<1>3. pc' = pc \/ \E l \in {"ended", "done", "next", "drop", "listen", "give"} :
                      pc' = [pc EXCEPT ![x] = l] /\ (l = "listen" => x \in Task)
    BY DEF Drop, Start, Operate, Give, Goto
<1>4. CASE pc' = pc
    BY <1>1, <1>4 DEF SessionInv, ControlType, Slots, Listening, OwnRegistration,
                      NoLostCancel, CloseCovers, Registered
<1>5. ASSUME NEW l \in {"ended", "done", "next", "drop", "listen", "give"},
             pc' = [pc EXCEPT ![x] = l], l = "listen" => x \in Task
      PROVE  SessionInv'
    <2>1. l \in Label /\ (x \in Program => l \notin Waiting \cup {"running", "abandon"})
        BY <1>5, EngineAssumption DEF EngineAssumption, Label, Waiting
    <2> QED
        BY <1>1, <1>2, <1>5, <2>1, ThreadMoves, Zenon
<1> QED
    BY <1>3, <1>4, <1>5

\* Session::register keeps the invariant: a request is only put where nobody
\* is registered, into a session that is not closed.
LEMMA RegisterKeeps ==
    ASSUME SessionInv, NEW p \in Program, Check(p) \/ Insert(p)
    PROVE  SessionInv'
<1>0. p \in Thread /\ ear' = [ear EXCEPT ![p] = ear[p]] /\ ear[p] \in {"off", "on", "rung"}
    BY DEF Thread, SessionInv, ControlType, Check, Insert
<1>1. CASE pc' = [pc EXCEPT ![p] = "refused"] /\ UNCHANGED active
    <2>1. UNCHANGED <<active, closing, token, waking>>
        BY <1>1 DEF Check, Insert
    <2> QED
        BY <1>0, <1>1, <2>1, ThreadMoves, Zenon DEF Label, Waiting
<1>2. CASE Check(p) /\ pc' = [pc EXCEPT ![p] = "insert"]
    <2>1. UNCHANGED <<active, closing, token, waking>>
        BY <1>2 DEF Check
    <2> QED
        BY <1>0, <1>2, <2>1, ThreadMoves, Zenon DEF Label, Waiting
<1>3. CASE Insert(p) /\ closing[SessionOf[p]] = "open" /\ active[SessionOf[p]][IdOf[p]] = None
    <2> DEFINE s == SessionOf[p]
               i == IdOf[p]
    <2>1. /\ s \in Session /\ i \in Id /\ None \notin Program
        BY EngineAssumption DEF EngineAssumption
    <2>2. /\ closing[s] = "open" /\ active[s][i] = None
          /\ pc' = [pc EXCEPT ![p] = "listen"] /\ active' = [active EXCEPT ![s][i] = p]
          /\ UNCHANGED <<ear, closing, token, waking>>
        BY <1>3 DEF Insert, Goto
    <2>3. ControlType'
        BY <2>1, <2>2, Zenon DEF SessionInv, ControlType, Label, Waiting
    <2>4. \A t \in Session, j \in Id :
             active'[t][j] = IF t = s /\ j = i THEN p ELSE active[t][j]
        BY <2>1, <2>2 DEF SessionInv, ControlType
    <2>5. \A y \in Thread : pc'[y] = IF y = p THEN "listen" ELSE pc[y]
        BY <2>2 DEF SessionInv, ControlType
    <2>6. Slots'
        BY <2>4 DEF SessionInv, Slots
    <2>7. Listening' /\ NoLostCancel'
        BY <2>2, <2>5 DEF SessionInv, Listening, NoLostCancel, Owner
    <2>8. CloseCovers'
        BY <2>2, <2>4 DEF SessionInv, CloseCovers
    <2>9. ASSUME NEW q \in Program, pc'[q] \in Waiting \cup {"running", "abandon"}
          PROVE  active'[SessionOf[q]][IdOf[q]] = q
        <3>1. SessionOf[q] \in Session /\ IdOf[q] \in Id /\ q \in Thread
            BY EngineAssumption DEF EngineAssumption, Thread
        <3>2. CASE q = p
            BY <2>1, <2>4, <3>2
        <3>3. CASE q # p
            <4>1. active[SessionOf[q]][IdOf[q]] = q
                BY <2>5, <2>9, <3>1, <3>3 DEF SessionInv, OwnRegistration, Registered
            <4> QED
                BY <2>1, <2>2, <2>4, <3>1, <4>1
        <3> QED
            BY <3>2, <3>3
    <2>10. OwnRegistration'
        BY <2>9 DEF OwnRegistration, Registered
    <2> QED
        BY <2>3, <2>6, <2>7, <2>8, <2>10 DEF SessionInv
<1> QED
    BY <1>1, <1>2, <1>3 DEF Check, Insert, Goto

\* A registration that goes is the one of the request that ends.
LEMMA UnregisterKeeps ==
    ASSUME SessionInv, NEW p \in Program, NEW l \in {"drop", "ended"},
           pc[p] \in {"running", "abandon"}, pc' = [pc EXCEPT ![p] = l],
           active' = [active EXCEPT ![SessionOf[p]][IdOf[p]] = None],
           UNCHANGED <<ear, closing, token, waking>>
    PROVE  SessionInv'
<1> DEFINE s == SessionOf[p]
           i == IdOf[p]
<1>1. s \in Session /\ i \in Id /\ None \notin Program /\ p \in Thread
    BY EngineAssumption DEF EngineAssumption, Thread
<1>2. active[s][i] = p
    BY DEF SessionInv, OwnRegistration, Registered
<1>3. ControlType'
    BY <1>1 DEF SessionInv, ControlType, Label
<1>4. \A t \in Session, j \in Id :
         active'[t][j] = IF t = s /\ j = i THEN None ELSE active[t][j]
    BY <1>1 DEF SessionInv, ControlType
<1>5. \A y \in Thread : pc'[y] = IF y = p THEN l ELSE pc[y]
    BY DEF SessionInv, ControlType
<1>6. Slots' /\ CloseCovers'
    BY <1>4 DEF SessionInv, Slots, CloseCovers
<1>7. Listening' /\ NoLostCancel'
    BY <1>5 DEF SessionInv, Listening, NoLostCancel, Owner
<1>8. ASSUME NEW q \in Program, pc'[q] \in Waiting \cup {"running", "abandon"}
      PROVE  active'[SessionOf[q]][IdOf[q]] = q
    <2>1. SessionOf[q] \in Session /\ IdOf[q] \in Id /\ q \in Thread
        BY EngineAssumption DEF EngineAssumption, Thread
    <2>2. q # p
        BY <1>5, <1>8, <2>1 DEF Waiting
    <2>3. active[SessionOf[q]][IdOf[q]] = q
        BY <1>5, <1>8, <2>1, <2>2 DEF SessionInv, OwnRegistration, Registered
    <2> QED
        BY <1>2, <1>4, <2>1, <2>2, <2>3
<1>9. OwnRegistration'
    BY <1>8 DEF OwnRegistration, Registered
<1> QED
    BY <1>3, <1>6, <1>7, <1>9 DEF SessionInv

\* The drops of ProgramLease and RegisteredProgram keep the invariant.
LEMMA LeaveKeeps ==
    ASSUME SessionInv, NEW p \in Program, Leave(p) \/ Abandon(p)
    PROVE  SessionInv'
<1>1. CASE UNCHANGED <<pc, active>>
    <2>1. UNCHANGED <<ear, closing, token, waking>>
        BY DEF Leave, Abandon
    <2> QED
        BY <1>1, <2>1 DEF SessionInv, ControlType, Slots, Listening, OwnRegistration,
                          NoLostCancel, CloseCovers, Registered
<1>2. CASE Leave(p)
    BY <1>2, UnregisterKeeps, Zenon DEF Leave, Goto
<1>3. CASE Abandon(p) /\ held[p] = <<>>
    BY <1>3, UnregisterKeeps DEF Abandon, Goto
<1> QED
    BY <1>1, <1>2, <1>3 DEF Abandon

\* A request whose future is dropped no longer listens and no longer waits.
LEMMA DroppedKeeps ==
    ASSUME SessionInv, NEW p \in Program, Dropped(p)
    PROVE  SessionInv'
<1>1. UNCHANGED <<active, closing, token, waking>>
    BY DEF Dropped
<1>2. \A x \in Thread :
         /\ Owner(x) # p => pc'[x] = pc[x] /\ ear'[x] = ear[x]
         /\ Owner(x) = p => pc'[x] \notin {"listen", "look", "poll", "parked"}
         /\ pc'[x] \in Label /\ ear'[x] \in {"off", "on", "rung"}
         /\ pc'[x] \in {"running", "abandon"} => pc[x] \in {"running", "parked", "abandon"}
    BY DEF Dropped, SessionInv, ControlType, Label, Waiting, Owner
<1>3. /\ pc' = [x \in Thread |-> pc'[x]] /\ ear' = [x \in Thread |-> ear'[x]]
    BY DEF Dropped
<1>4. ControlType'
    BY <1>1, <1>2, <1>3 DEF SessionInv, ControlType
<1>5. Slots' /\ CloseCovers'
    BY <1>1 DEF SessionInv, Slots, CloseCovers
<1>6. Listening'
    BY <1>2 DEF SessionInv, Listening
<1>7. NoLostCancel'
    BY <1>1, <1>2 DEF SessionInv, NoLostCancel, Owner
<1>8. OwnRegistration'
    BY <1>1, <1>2 DEF SessionInv, OwnRegistration, Registered, Waiting, Thread, Owner
<1> QED
    BY <1>4, <1>5, <1>6, <1>7, <1>8 DEF SessionInv

\* Setting a token keeps the invariant, since its waiters are notified next.
LEMMA SignalKeeps ==
    ASSUME SessionInv, NEW p \in Program, Signal(p), UNCHANGED <<pc, ear, active, closing>>
    PROVE  SessionInv'
<1>1. ControlType'
    BY DEF SessionInv, ControlType, Signal
<1>2. Slots' /\ Listening' /\ OwnRegistration'
    BY DEF SessionInv, Slots, Listening, OwnRegistration, Registered
<1>3. NoLostCancel'
    BY DEF SessionInv, NoLostCancel, Signal, Owner
<1>4. CloseCovers'
    BY DEF SessionInv, CloseCovers, Signal
<1> QED
    BY <1>1, <1>2, <1>3, <1>4 DEF SessionInv

\* Notifying keeps it: every waiter of the token is registered and is reached.
LEMMA NotifyKeeps ==
    ASSUME SessionInv, NEW p \in Program, Notify(p)
    PROVE  SessionInv'
<1>1. /\ UNCHANGED <<pc, active, closing, token>> /\ waking' = waking \ {p}
    BY DEF Notify
<1>2. \A x \in Thread :
         ear'[x] = IF Owner(x) = p /\ ear[x] = "on" THEN "rung" ELSE ear[x]
    BY DEF Notify
<1>3. ControlType'
    BY <1>1 DEF SessionInv, ControlType, Notify
<1>4. Slots' /\ OwnRegistration' /\ CloseCovers'
    BY <1>1 DEF SessionInv, Slots, OwnRegistration, CloseCovers, Registered
<1>5. Listening'
    BY <1>1, <1>2 DEF SessionInv, Listening
<1>6. NoLostCancel'
    <2> SUFFICES ASSUME NEW x \in Thread, pc[x] \in {"poll", "parked"}, Owner(x) \in token
                 PROVE  ear'[x] = "rung" \/ Owner(x) \in waking'
        BY <1>1 DEF NoLostCancel, Owner
    <2>1. ear[x] \in {"on", "rung"} /\ (ear[x] = "rung" \/ Owner(x) \in waking)
        BY DEF SessionInv, ControlType, Listening, NoLostCancel
    <2> QED
        BY <1>1, <1>2, <2>1
<1> QED
    BY <1>3, <1>4, <1>5, <1>6 DEF SessionInv

\* Session::cancel and Session::close keep it: close is done when every
\* registered request is cancelled, and registrations have ceased by then.
LEMMA CloseKeeps ==
    ASSUME SessionInv, NEW s \in Session, Close(s) \/ CloseLock(s) \/ CloseDone(s)
    PROVE  SessionInv'
<1>1. PICK c \in {"flagged", "cancelling", "closed"} :
         closing' = [closing EXCEPT ![s] = c] /\ (c = "closed" => CloseDone(s))
    BY DEF Close, CloseLock, CloseDone
<1>2. UNCHANGED <<pc, ear, active, token, waking>>
    BY DEF Close, CloseLock, CloseDone
<1>3. ControlType'
    BY <1>1, <1>2 DEF SessionInv, ControlType
<1>4. Slots' /\ Listening' /\ OwnRegistration' /\ NoLostCancel'
    BY <1>2 DEF SessionInv, Slots, Listening, OwnRegistration, NoLostCancel, Registered, Owner
<1>5. ASSUME NEW t \in Session, closing'[t] = "closed", NEW i \in Id, active[t][i] # None
      PROVE  active[t][i] \in token
    <2>1. CASE closing[t] = "closed"
        BY <1>5, <2>1 DEF SessionInv, CloseCovers
    <2>2. CASE closing[t] # "closed"
        <3>1. t = s /\ CloseDone(s)
            BY <1>1, <1>5, <2>2 DEF SessionInv, ControlType
        <3>2. /\ active[t][i] \in Program
              /\ SessionOf[active[t][i]] = t /\ IdOf[active[t][i]] = i
            BY <1>5 DEF SessionInv, ControlType, Slots
        <3> QED
            BY <3>1, <3>2 DEF CloseDone, Registered
    <2> QED
        BY <2>1, <2>2
<1>6. CloseCovers'
    BY <1>2, <1>5 DEF CloseCovers
<1> QED
    BY <1>3, <1>4, <1>6 DEF SessionInv

\* Every step of the engine keeps the invariant.
LEMMA SessionInvNext == SessionInv /\ [Next]_vars => SessionInv'
<1> SUFFICES ASSUME SessionInv, [Next]_vars PROVE SessionInv'
    OBVIOUS
<1>1. ASSUME NEW x \in Thread, Advance(x) PROVE SessionInv'
    BY <1>1, AcquireKeeps, WorkKeeps, RegisterKeeps, LeaveKeeps DEF Advance
<1>2. ASSUME NEW t \in Task, Operate(t) PROVE SessionInv'
    BY <1>2, WorkKeeps DEF Thread
<1>3. ASSUME NEW p \in Program, CloseToken(p) PROVE SessionInv'
    BY <1>3, SignalKeeps DEF CloseToken
<1>4. ASSUME NEW s \in Session, NEW i \in Id, Cancel(s, i) PROVE SessionInv'
    <2>1. UNCHANGED <<pc, ear, active, closing>>
        BY <1>4 DEF Cancel
    <2>2. CASE UNCHANGED <<token, waking>>
        BY <2>1, <2>2 DEF SessionInv, ControlType, Slots, Listening, OwnRegistration,
                          NoLostCancel, CloseCovers, Registered, Owner
    <2>3. CASE active[s][i] # None /\ Signal(active[s][i])
        <3>1. active[s][i] \in Program
            BY <2>3 DEF SessionInv, ControlType
        <3> QED
            BY <2>1, <2>3, <3>1, SignalKeeps
    <2> QED
        BY <1>4, <2>2, <2>3 DEF Cancel
<1>5. ASSUME NEW p \in Program, Expire(p) PROVE SessionInv'
    BY <1>5 DEF Expire, SessionInv, ControlType, Slots, Listening, OwnRegistration,
                NoLostCancel, CloseCovers, Registered, Owner
<1>6. ASSUME UNCHANGED vars PROVE SessionInv'
    BY <1>6 DEF vars, SessionInv, ControlType, Slots, Listening, OwnRegistration,
                NoLostCancel, CloseCovers, Registered, Owner
<1> QED
    BY <1>1, <1>2, <1>3, <1>4, <1>5, <1>6, RegisterKeeps, DroppedKeeps, NotifyKeeps, CloseKeeps
    DEF Next, Control

\* The invariant holds always.
LEMMA SessionInvAlways == Spec => []SessionInv
    BY SessionInvInit, SessionInvNext, PTL DEF Spec

\* CancellationToken is race-free: a request or operation that waits for a
\* permit of a cancelled request has been woken or is about to be.
THEOREM CancellationHeard == Spec => []NoLostCancel
<1>1. SessionInv => NoLostCancel
    BY DEF SessionInv
<1> QED
    BY <1>1, SessionInvAlways, PTL

\* A registration stays with its request until the request drops it.
THEOREM RegistrationKept == Spec => []OwnRegistration
<1>1. SessionInv => OwnRegistration
    BY DEF SessionInv
<1> QED
    BY <1>1, SessionInvAlways, PTL

\* After Session::close every request still registered is cancelled.
THEOREM CloseCancelsAll == Spec => []CloseCovers
<1>1. SessionInv => CloseCovers
    BY DEF SessionInv
<1> QED
    BY <1>1, SessionInvAlways, PTL

-----------------------------------------------------------------------------
(* Taking and giving back one permit                                       *)

ResourceType ==
    /\ step \in [Task -> Nat \ {0}] /\ held \in [Thread -> Seq(Permit)]
    /\ free \in [Place -> [Kind -> Nat]]
    /\ expired \subseteq Program /\ cancels \in Nat

\* A permit of the engine lies on top of one of the session.
HeldPairs ==
    \A x \in Thread : \A i \in 1 .. Len(held[x]) :
        held[x][i].at = "global" => i > 1 /\ held[x][i - 1].at # "global"

HeldFinite == \A place \in Place, k \in Kind : IsFiniteSet(Held(place, k))

GovernorInv == ResourceType /\ HeldPairs /\ HeldFinite /\ Accounting

\* What it is for a permit to be out.
LEMMA HeldMember ==
    ASSUME NEW place, NEW k, NEW x, NEW i
    PROVE  <<x, i>> \in Held(place, k) <=>
              x \in Thread /\ i \in 1 .. Len(held[x]) /\ held[x][i] = [kind |-> k, at |-> place]
    BY DEF Held

\* Only pairs of a thread and a position are out.
LEMMA HeldShape ==
    ASSUME NEW place, NEW k, NEW h \in Held(place, k)
    PROVE  \E x \in Thread, i \in Nat :
              h = <<x, i>> /\ i \in 1 .. Len(held[x]) /\ held[x][i] = [kind |-> k, at |-> place]
    BY DEF Held

\* The limits are numbers.
LEMMA LimitType == \A place \in Place, k \in Kind : Limit(place)[k] \in Nat \ {0}
    BY EngineAssumption DEF EngineAssumption, Limit

\* A permit goes from the semaphore to the top of the permits of a thread.
LEMMA PushKeeps ==
    ASSUME GovernorInv, NEW x \in Thread, NEW at \in Place, NEW k \in Kind,
           at = PlaceOf(x), free[at][k] > 0,
           free' = [free EXCEPT ![at][k] = @ - 1],
           held' = [held EXCEPT ![x] = Append(@, [kind |-> k, at |-> at])],
           step' \in [Task -> Nat \ {0}], UNCHANGED <<expired, cancels>>
    PROVE  GovernorInv'
<1> DEFINE n == Len(held[x]) + 1
           new == [kind |-> k, at |-> at]
<1>0. held[x] \in Seq(Permit) /\ new \in Permit /\ n \in Nat
    <2>1. held[x] \in Seq(Permit)
        BY DEF GovernorInv, ResourceType
    <2>2. Len(held[x]) \in Nat
        BY <2>1, LenProperties
    <2>3. new \in Permit
        BY DEF Permit
    <2> QED
        BY <2>1, <2>2, <2>3
<1>1. /\ held'[x] \in Seq(Permit) /\ Len(held'[x]) = n /\ held'[x][n] = new
      /\ \A i \in 1 .. Len(held[x]) : held'[x][i] = held[x][i]
    <2>1. held'[x] = Append(held[x], new)
        BY DEF GovernorInv, ResourceType
    <2> QED
        BY <1>0, <2>1
<1>2. \A y \in Thread : y # x => held'[y] = held[y]
    BY DEF GovernorInv, ResourceType
<1>3. /\ free'[at][k] = free[at][k] - 1
      /\ \A place \in Place, j \in Kind : <<place, j>> # <<at, k>> => free'[place][j] = free[place][j]
    BY DEF GovernorInv, ResourceType
<1>4. ResourceType'
    <2>1. held' \in [Thread -> Seq(Permit)]
        BY <1>0, <1>1 DEF GovernorInv, ResourceType
    <2>2. free[at][k] - 1 \in Nat
        BY DEF GovernorInv, ResourceType
    <2>3. free' \in [Place -> [Kind -> Nat]]
        BY <2>2 DEF GovernorInv, ResourceType
    <2> QED
        BY <2>1, <2>3 DEF GovernorInv, ResourceType
<1>5. HeldPairs'
    <2> SUFFICES ASSUME NEW y \in Thread, NEW i \in 1 .. Len(held'[y]), held'[y][i].at = "global"
                 PROVE  i > 1 /\ held'[y][i - 1].at # "global"
        BY DEF HeldPairs
    <2>1. CASE y # x
        BY <1>2, <2>1 DEF GovernorInv, HeldPairs
    <2>2. CASE y = x /\ i # n
        <3>1. i \in 1 .. Len(held[x]) /\ held[x][i].at = "global"
            BY <1>0, <1>1, <2>2
        <3>2. i > 1 /\ held[x][i - 1].at # "global" /\ i - 1 \in 1 .. Len(held[x])
            BY <1>0, <3>1 DEF GovernorInv, HeldPairs
        <3> QED
            BY <1>1, <2>2, <3>2
    <2>3. CASE y = x /\ i = n
        <3>1. at = "global"
            BY <1>1, <2>3
        <3>2. OnSession(x)
            <4>1. SessionOf[Owner(x)] # "global"
                BY EngineAssumption, OwnerProgram DEF EngineAssumption
            <4> QED
                BY <3>1, <4>1 DEF PlaceOf
        <3>3. Len(held[x]) \in 1 .. Len(held[x]) /\ held[x][Len(held[x])].at # "global"
            BY <1>0, <3>2 DEF OnSession
        <3> QED
            BY <1>0, <1>1, <2>3, <3>3
    <2> QED
        BY <2>1, <2>2, <2>3
<1>6. Held(at, k)' = Held(at, k) \cup {<<x, n>>}
    <2>1. ASSUME NEW h \in Held(at, k)' PROVE h \in Held(at, k) \cup {<<x, n>>}
        <3>1. PICK y \in Thread, i \in Nat :
                 h = <<y, i>> /\ i \in 1 .. Len(held'[y]) /\ held'[y][i] = new
            BY <2>1 DEF Held
        <3>2. CASE y = x /\ i = n
            BY <3>1, <3>2
        <3>3. CASE ~(y = x /\ i = n)
            <4>1. i \in 1 .. Len(held[y]) /\ held[y][i] = new
                BY <1>0, <1>1, <1>2, <3>1, <3>3
            <4> QED
                BY <3>1, <4>1, HeldMember
        <3> QED
            BY <3>2, <3>3
    <2>2. ASSUME NEW h \in Held(at, k) PROVE h \in Held(at, k)'
        <3>1. PICK y \in Thread, i \in Nat :
                 h = <<y, i>> /\ i \in 1 .. Len(held[y]) /\ held[y][i] = new
            BY <2>2, HeldShape
        <3>2. i \in 1 .. Len(held'[y]) /\ held'[y][i] = new
            BY <1>0, <1>1, <1>2, <3>1
        <3> QED
            BY <3>1, <3>2 DEF Held
    <2>3. <<x, n>> \in Held(at, k)'
        <3>1. n \in 1 .. Len(held'[x]) /\ held'[x][n] = new
            BY <1>0, <1>1
        <3> QED
            BY <3>1 DEF Held
    <2> QED
        BY <2>1, <2>2, <2>3
<1>7. <<x, n>> \notin Held(at, k)
    BY <1>0, HeldMember
<1>8. ASSUME NEW place \in Place, NEW j \in Kind, <<place, j>> # <<at, k>>
      PROVE  Held(place, j)' = Held(place, j)
    <2> DEFINE other == [kind |-> j, at |-> place]
    <2>0. other # new
        BY <1>8
    <2>1. ASSUME NEW h \in Held(place, j)' PROVE h \in Held(place, j)
        <3>1. PICK y \in Thread, i \in Nat :
                 h = <<y, i>> /\ i \in 1 .. Len(held'[y]) /\ held'[y][i] = other
            BY <2>1 DEF Held
        <3>2. i \in 1 .. Len(held[y]) /\ held[y][i] = other
            BY <1>0, <1>1, <1>2, <2>0, <3>1
        <3> QED
            BY <3>1, <3>2, HeldMember
    <2>2. ASSUME NEW h \in Held(place, j) PROVE h \in Held(place, j)'
        <3>1. PICK y \in Thread, i \in Nat :
                 h = <<y, i>> /\ i \in 1 .. Len(held[y]) /\ held[y][i] = other
            BY <2>2, HeldShape
        <3>2. i \in 1 .. Len(held'[y]) /\ held'[y][i] = other
            BY <1>0, <1>1, <1>2, <3>1
        <3> QED
            BY <3>1, <3>2 DEF Held
    <2> QED
        BY <2>1, <2>2, Zenon
<1>9. HeldFinite' /\ Accounting'
    <2> SUFFICES ASSUME NEW place \in Place, NEW j \in Kind
                 PROVE  /\ IsFiniteSet(Held(place, j)')
                        /\ free'[place][j] + Cardinality(Held(place, j)') = Limit(place)[j]
        BY DEF HeldFinite, Accounting, Limit
    <2>1. /\ IsFiniteSet(Held(place, j)) /\ free[place][j] \in Nat
          /\ free[place][j] + Cardinality(Held(place, j)) = Limit(place)[j]
          /\ Cardinality(Held(place, j)) \in Nat
        BY FS_CardinalityType DEF GovernorInv, ResourceType, HeldFinite, Accounting
    <2>2. CASE place = at /\ j = k
        <3>1. IsFiniteSet(Held(at, k)) /\ <<x, n>> \notin Held(at, k)
            BY <1>7, <2>1, <2>2
        <3>2. /\ IsFiniteSet(Held(at, k) \cup {<<x, n>>})
              /\ Cardinality(Held(at, k) \cup {<<x, n>>}) = Cardinality(Held(at, k)) + 1
            BY <3>1, FS_AddElement, Zenon
        <3>3. Held(place, j)' = Held(at, k)'
            BY <2>2 DEF Held
        <3>4. Held(place, j) = Held(at, k)
            BY <2>2
        <3>5. Held(place, j)' = Held(at, k) \cup {<<x, n>>}
            BY <1>6, <3>3
        <3>6. /\ IsFiniteSet(Held(place, j)')
              /\ Cardinality(Held(place, j)') = Cardinality(Held(place, j)) + 1
            BY <3>2, <3>4, <3>5
        <3>7. free'[place][j] = free[place][j] - 1
            BY <1>3, <2>2
        <3>8. \A f, c \in Nat : (f - 1) + (c + 1) = f + c
            OBVIOUS
        <3> QED
            BY <2>1, <3>6, <3>7, <3>8, Zenon
    <2>3. CASE <<place, j>> # <<at, k>>
        BY <1>3, <1>8, <2>1, <2>3
    <2> QED
        BY <2>2, <2>3
<1> QED
    BY <1>4, <1>5, <1>9 DEF GovernorInv

\* The newest permit of a thread goes back to its semaphore.
LEMMA PopKeeps ==
    ASSUME GovernorInv, NEW x \in Thread, held[x] # <<>>, Release(x),
           step' \in [Task -> Nat \ {0}], UNCHANGED <<expired, cancels>>
    PROVE  GovernorInv'
<1> DEFINE n == Len(held[x])
           last == held[x][n]
           at == last.at
           k == last.kind
<1>0. /\ held[x] \in Seq(Permit) /\ n \in Nat \ {0} /\ last \in Permit
      /\ at \in Place /\ k \in Kind /\ last = [kind |-> k, at |-> at]
    <2>1. held[x] \in Seq(Permit)
        BY DEF GovernorInv, ResourceType
    <2>2. n \in Nat \ {0}
        BY <2>1, LenProperties, EmptySeq
    <2>3. last \in Permit
        BY <2>1, <2>2, ElementOfSeq
    <2> QED
        BY <2>1, <2>2, <2>3 DEF Permit
<1>1. /\ held' = [held EXCEPT ![x] = SubSeq(@, 1, Len(@) - 1)]
      /\ free' = [free EXCEPT ![at][k] = @ + 1]
    BY DEF Release
<1>2. /\ held'[x] \in Seq(Permit) /\ Len(held'[x]) = n - 1
      /\ \A i \in 1 .. n - 1 : held'[x][i] = held[x][i]
    <2>1. held'[x] = SubSeq(held[x], 1, n - 1)
        BY <1>1 DEF GovernorInv, ResourceType
    <2> QED
        BY <1>0, <2>1, SubSeqProperties
<1>3. \A y \in Thread : y # x => held'[y] = held[y]
    BY <1>1 DEF GovernorInv, ResourceType
<1> HIDE DEF at, k, last
<1>4. /\ free'[at][k] = free[at][k] + 1
      /\ \A place \in Place, j \in Kind : <<place, j>> # <<at, k>> => free'[place][j] = free[place][j]
    BY <1>0, <1>1 DEF GovernorInv, ResourceType
<1>5. ResourceType'
    <2>1. held' \in [Thread -> Seq(Permit)]
        BY <1>1, <1>2 DEF GovernorInv, ResourceType
    <2>2. free[at][k] + 1 \in Nat
        BY <1>0 DEF GovernorInv, ResourceType
    <2>3. free' \in [Place -> [Kind -> Nat]]
        BY <1>0, <1>1, <2>2 DEF GovernorInv, ResourceType
    <2> QED
        BY <2>1, <2>3 DEF GovernorInv, ResourceType
<1>6. HeldPairs'
    <2> SUFFICES ASSUME NEW y \in Thread, NEW i \in 1 .. Len(held'[y]), held'[y][i].at = "global"
                 PROVE  i > 1 /\ held'[y][i - 1].at # "global"
        BY DEF HeldPairs
    <2>1. CASE y # x
        BY <1>3, <2>1 DEF GovernorInv, HeldPairs
    <2>2. CASE y = x
        <3>1. i \in 1 .. n - 1 /\ i \in 1 .. n /\ held[x][i].at = "global"
            BY <1>0, <1>2, <2>2
        <3>2. i > 1 /\ held[x][i - 1].at # "global" /\ i - 1 \in 1 .. n - 1
            BY <1>0, <3>1 DEF GovernorInv, HeldPairs
        <3> QED
            BY <1>2, <2>2, <3>2
    <2> QED
        BY <2>1, <2>2
<1>7. ASSUME NEW place \in Place, NEW j \in Kind
      PROVE  Held(place, j)' = Held(place, j) \ {<<x, n>>}
    <2> DEFINE it == [kind |-> j, at |-> place]
    <2>1. ASSUME NEW h \in Held(place, j)' PROVE h \in Held(place, j) /\ h # <<x, n>>
        <3>1. PICK y \in Thread, i \in Nat :
                 h = <<y, i>> /\ i \in 1 .. Len(held'[y]) /\ held'[y][i] = it
            BY <2>1 DEF Held
        <3>2. i \in 1 .. Len(held[y]) /\ held[y][i] = it /\ ~(y = x /\ i = n)
            <4>1. CASE y = x
                BY <1>0, <1>2, <3>1, <4>1
            <4>2. CASE y # x
                BY <1>3, <3>1, <4>2
            <4> QED
                BY <4>1, <4>2
        <3> QED
            BY <3>1, <3>2, HeldMember
    <2>2. ASSUME NEW h \in Held(place, j), h # <<x, n>> PROVE h \in Held(place, j)'
        <3>1. PICK y \in Thread, i \in Nat :
                 h = <<y, i>> /\ i \in 1 .. Len(held[y]) /\ held[y][i] = it
            BY <2>2, HeldShape
        <3>2. i \in 1 .. Len(held'[y]) /\ held'[y][i] = it
            <4>1. CASE y = x
                <5>1. i \in 1 .. n - 1
                    BY <1>0, <2>2, <3>1, <4>1
                <5> QED
                    BY <1>0, <1>2, <3>1, <4>1, <5>1
            <4>2. CASE y # x
                BY <1>3, <3>1, <4>2
            <4> QED
                BY <4>1, <4>2
        <3> QED
            BY <3>1, <3>2 DEF Held
    <2> QED
        BY <2>1, <2>2
<1>8. HeldFinite' /\ Accounting'
    <2> SUFFICES ASSUME NEW place \in Place, NEW j \in Kind
                 PROVE  /\ IsFiniteSet(Held(place, j)')
                        /\ free'[place][j] + Cardinality(Held(place, j)') = Limit(place)[j]
        BY DEF HeldFinite, Accounting, Limit
    <2>1. /\ IsFiniteSet(Held(place, j)) /\ free[place][j] \in Nat
          /\ free[place][j] + Cardinality(Held(place, j)) = Limit(place)[j]
          /\ Cardinality(Held(place, j)) \in Nat
        BY FS_CardinalityType DEF GovernorInv, ResourceType, HeldFinite, Accounting
    <2>2. /\ IsFiniteSet(Held(place, j) \ {<<x, n>>})
          /\ Cardinality(Held(place, j) \ {<<x, n>>}) =
                IF <<x, n>> \in Held(place, j) THEN Cardinality(Held(place, j)) - 1
                                              ELSE Cardinality(Held(place, j))
        BY <2>1, FS_RemoveElement, Zenon
    <2>3. <<x, n>> \in Held(place, j) <=> place = at /\ j = k
        <3>1. n \in 1 .. Len(held[x]) /\ held[x][n] = [kind |-> k, at |-> at]
            BY <1>0 DEF last
        <3>2. <<x, n>> \in Held(place, j) <=> [kind |-> k, at |-> at] = [kind |-> j, at |-> place]
            BY <3>1, HeldMember
        <3> QED
            BY <3>2
    <2>4. CASE place = at /\ j = k
        <3>1. free'[place][j] = free[place][j] + 1
            BY <1>4, <2>4
        <3>2. Cardinality(Held(place, j)') = Cardinality(Held(place, j)) - 1
            BY <1>7, <2>2, <2>3, <2>4, Zenon
        <3>3. IsFiniteSet(Held(place, j)')
            BY <1>7, <2>2, Zenon
        <3> QED
            BY <2>1, <3>1, <3>2, <3>3
    <2>5. CASE ~(place = at /\ j = k)
        <3>1. free'[place][j] = free[place][j]
            BY <1>4, <2>5
        <3>2. Cardinality(Held(place, j)') = Cardinality(Held(place, j))
            BY <1>7, <2>2, <2>3, <2>5, Zenon
        <3>3. IsFiniteSet(Held(place, j)')
            BY <1>7, <2>2, Zenon
        <3> QED
            BY <2>1, <3>1, <3>2, <3>3
    <2> QED
        BY <2>4, <2>5
<1> QED
    BY <1>5, <1>6, <1>8 DEF GovernorInv

\* What touches no permit leaves them accounted for.
LEMMA PermitsUntouched ==
    ASSUME GovernorInv, UNCHANGED <<held, free>>, step' \in [Task -> Nat \ {0}],
           expired' \subseteq Program, cancels' \in Nat
    PROVE  GovernorInv'
<1>1. ResourceType' /\ HeldPairs'
    BY DEF GovernorInv, ResourceType, HeldPairs
<1>2. \A place \in Place, k \in Kind : Held(place, k)' = Held(place, k)
    BY DEF Held
<1>3. HeldFinite' /\ Accounting'
    BY <1>2 DEF GovernorInv, HeldFinite, Accounting, Limit
<1> QED
    BY <1>1, <1>3 DEF GovernorInv

-----------------------------------------------------------------------------
(* The permits                                                             *)

\* An operation at label l and entry n of its script, with permits h, asks for
\* a kind of permit and gives back only what it has.
Follows(t, l, n, h) ==
    /\ l = "idle" => n = 1
    /\ l \in Waiting => n <= Len(Script[t]) /\ Script[t][n] \in Kind
    /\ l = "next" /\ n <= Len(Script[t]) /\ Script[t][n] = "drop" => h # <<>>
    /\ l = "give" => h # <<>> /\ n <= Len(Script[t]) /\ Script[t][n] = "drop"

ScriptInv == \A t \in Task : Follows(t, pc[t], step[t], held[t])

\* The script of an operation is followed if the thread that moves does so.
LEMMA ScriptMoves ==
    ASSUME ScriptInv, NEW x \in Thread,
           \A t \in Task : t # x => pc'[t] = pc[t] /\ step'[t] = step[t] /\ held'[t] = held[t],
           x \in Task => Follows(x, pc'[x], step'[x], held'[x])
    PROVE  ScriptInv'
<1>1. ASSUME NEW t \in Task PROVE Follows(t, pc'[t], step'[t], held'[t])
    BY DEF ScriptInv
<1> QED
    BY <1>1 DEF ScriptInv, Follows

\* What a thread that waits asks for is a kind of permit, at a place.
LEMMA WantedType ==
    ASSUME GovernorInv, ScriptInv, NEW x \in Thread, pc[x] \in Waiting
    PROVE  Wanted(x) \in Kind /\ PlaceOf(x) \in Place
<1>1. Wanted(x) \in Kind
    BY DEF Wanted, Kind, ScriptInv, Follows, Thread
<1>2. PlaceOf(x) \in Place
    BY EngineAssumption, OwnerProgram DEF EngineAssumption, PlaceOf, Place
<1> QED
    BY <1>1, <1>2

EngineInv == SessionInv /\ GovernorInv /\ ScriptInv

\* Taking an available permit keeps permits and scripts right.
LEMMA TakeGoverned ==
    ASSUME EngineInv, NEW x \in Thread, pc[x] \in Waiting, Available(x), Take(x),
           UNCHANGED <<expired, cancels>>
    PROVE  GovernorInv' /\ ScriptInv'
<1> DEFINE at == PlaceOf(x)
           k == Wanted(x)
<1>1. at \in Place /\ k \in Kind /\ free[at][k] > 0
    BY WantedType DEF EngineInv, Available
<1>2. /\ free' = [free EXCEPT ![at][k] = @ - 1]
      /\ held' = [held EXCEPT ![x] = Append(@, [kind |-> k, at |-> at])]
    BY DEF Take
<1>3. \/ pc' = [pc EXCEPT ![x] = "listen"] /\ step' = step
      \/ x \in Program /\ pc' = [pc EXCEPT ![x] = "running"] /\ step' = step
      \/ x \in Task /\ pc' = [pc EXCEPT ![x] = "next"] /\ step' = [step EXCEPT ![x] = @ + 1]
    BY DEF Take, Goto, Thread
<1>4. step \in [Task -> Nat \ {0}] /\ held \in [Thread -> Seq(Permit)] /\ pc \in [Thread -> Label]
    BY DEF EngineInv, GovernorInv, ResourceType, SessionInv, ControlType
<1>5. step' \in [Task -> Nat \ {0}]
    BY <1>3, <1>4
<1>6. GovernorInv'
    BY <1>1, <1>2, <1>5, PushKeeps, Zenon DEF EngineInv
<1>7. held'[x] # <<>>
    <2>1. held'[x] = Append(held[x], [kind |-> k, at |-> at]) /\ held[x] \in Seq(Permit)
        BY <1>2, <1>4
    <2>2. [kind |-> k, at |-> at] \in Permit
        BY <1>1 DEF Permit
    <2> QED
        BY <2>1, <2>2, AppendProperties
<1>8. \A t \in Task : t # x => pc'[t] = pc[t] /\ step'[t] = step[t] /\ held'[t] = held[t]
    BY <1>2, <1>3, <1>4 DEF Thread
<1>9. x \in Task => pc'[x] \in {"listen", "next"} /\ (pc'[x] = "listen" => step'[x] = step[x])
    BY <1>3, <1>4, EngineAssumption DEF EngineAssumption
<1>10. x \in Task => Follows(x, pc'[x], step'[x], held'[x])
    <2>1. CASE x \in Task /\ pc'[x] = "listen"
        <3>1. step'[x] = step[x] /\ Follows(x, pc[x], step[x], held[x])
            BY <1>9, <2>1 DEF EngineInv, ScriptInv
        <3> QED
            BY <2>1, <3>1 DEF Follows, Waiting
    <2>2. CASE x \in Task /\ pc'[x] = "next"
        BY <1>7, <2>2 DEF Follows, Waiting
    <2> QED
        BY <1>9, <2>1, <2>2
<1>11. ScriptInv'
    BY <1>8, <1>10, ScriptMoves DEF EngineInv
<1> QED
    BY <1>6, <1>11

\* A thread that only moves on, within an acquisition or out of it, keeps them.
LEMMA MoveGoverned ==
    ASSUME EngineInv, NEW x \in Thread, NEW l \in Waiting \cup {"abandon", "drop"},
           pc[x] \in Waiting, pc' = [pc EXCEPT ![x] = l],
           UNCHANGED <<step, held, free, expired, cancels>>
    PROVE  GovernorInv' /\ ScriptInv'
<1>1. GovernorInv'
    BY PermitsUntouched DEF EngineInv, GovernorInv, ResourceType
<1>2. \A y \in Thread : pc'[y] = IF y = x THEN l ELSE pc[y]
    BY DEF EngineInv, SessionInv, ControlType
<1>3. x \in Task => Follows(x, pc'[x], step'[x], held'[x])
    BY <1>2 DEF EngineInv, ScriptInv, Follows, Waiting
<1>4. ScriptInv'
    BY <1>2, <1>3, ScriptMoves DEF EngineInv, Thread
<1> QED
    BY <1>1, <1>4

\* Every step of an acquisition keeps them.
LEMMA AcquireGoverned ==
    ASSUME EngineInv, NEW x \in Thread, Acquire(x)
    PROVE  GovernorInv' /\ ScriptInv'
<1>1. pc[x] \in Waiting /\ UNCHANGED <<expired, cancels>>
    BY DEF Acquire, Listen, Look, Poll, Wake, Grant, Timeout, Waiting
<1>2. \/ Available(x) /\ Take(x)
      \/ \E l \in Waiting \cup {"abandon", "drop"} :
            pc' = [pc EXCEPT ![x] = l] /\ UNCHANGED <<step, held, free>>
    <2>1. CASE Listen(x) \/ Wake(x)
        BY <2>1 DEF Listen, Wake, Goto, Waiting
    <2>2. CASE Look(x) \/ Timeout(x)
        BY <2>2 DEF Look, Timeout, Fail, Goto, Waiting
    <2>3. CASE Poll(x)
        BY <2>3 DEF Poll, Fail, Goto, Waiting
    <2>4. CASE Grant(x)
        BY <2>4 DEF Grant
    <2> QED
        BY <2>1, <2>2, <2>3, <2>4 DEF Acquire
<1> QED
    BY <1>1, <1>2, TakeGoverned, MoveGoverned

\* A permit that is given back leaves the right ones behind.
LEMMA ReleaseGoverned ==
    ASSUME EngineInv, NEW x \in Thread, held[x] # <<>>, Release(x),
           step' \in [Task -> Nat \ {0}], UNCHANGED <<expired, cancels>>
    PROVE  /\ GovernorInv' /\ \A y \in Thread : y # x => held'[y] = held[y]
           /\ ~OnSession(x) => held'[x] # <<>>
<1>1. GovernorInv'
    BY PopKeeps DEF EngineInv
<1>2. held' = [held EXCEPT ![x] = SubSeq(@, 1, Len(@) - 1)] /\ held \in [Thread -> Seq(Permit)]
    BY DEF Release, EngineInv, GovernorInv, ResourceType
<1>3. \A y \in Thread : y # x => held'[y] = held[y]
    BY <1>2
<1>4. ASSUME ~OnSession(x) PROVE held'[x] # <<>>
    <2>1. held[x] \in Seq(Permit) /\ Len(held[x]) \in Nat \ {0}
        BY <1>2, LenProperties, EmptySeq
    <2>2. Len(held[x]) \in 1 .. Len(held[x]) /\ held[x][Len(held[x])].at = "global"
        BY <1>4, <2>1 DEF OnSession
    <2>3. Len(held[x]) > 1
        BY <2>2 DEF EngineInv, GovernorInv, HeldPairs
    <2>4. held'[x] = SubSeq(held[x], 1, Len(held[x]) - 1)
        BY <1>2
    <2>5. Len(held'[x]) = Len(held[x]) - 1
        BY <2>1, <2>3, <2>4, SubSeqProperties
    <2>6. \A n \in Nat : n > 1 => n - 1 # 0
        OBVIOUS
    <2>7. Len(held'[x]) # 0
        BY <2>1, <2>3, <2>5, <2>6, Zenon
    <2> QED
        BY <2>7, EmptySeq
<1> QED
    BY <1>1, <1>3, <1>4

\* The work of an operation keeps permits and scripts right.
LEMMA OperateGoverned ==
    ASSUME EngineInv, NEW t \in Task, Operate(t) \/ Start(t) \/ Give(t)
    PROVE  GovernorInv' /\ ScriptInv'
<1>0. /\ t \in Thread /\ pc \in [Thread -> Label] /\ step \in [Task -> Nat \ {0}]
      /\ Follows(t, pc[t], step[t], held[t]) /\ Task \subseteq Thread
      /\ expired \subseteq Program /\ cancels \in Nat
    BY DEF Thread, EngineInv, SessionInv, ControlType, GovernorInv, ResourceType, ScriptInv
<1>1. /\ Script[t] \in Seq(Kind \cup {"drop"}) /\ Len(Script[t]) \in Nat
      /\ \A i \in 1 .. Len(Script[t]) :
            Script[t][i] \in Kind \cup {"drop"}
               /\ (Script[t][i] = "drop" => i > 1 /\ Script[t][i - 1] # "drop")
    BY EngineAssumption, LenProperties, ElementOfSeq DEF EngineAssumption
<1>2. CASE Start(t)
    <2>1. /\ pc[t] = "idle" /\ pc' = [pc EXCEPT ![t] = "next"]
          /\ UNCHANGED <<step, held, free, expired, cancels>>
        BY Zenon, <1>2 DEF Start, Goto
    <2>2. GovernorInv'
        BY <1>0, <2>1, PermitsUntouched DEF EngineInv
    <2>3. step[t] = 1 /\ (1 <= Len(Script[t]) => Script[t][1] # "drop")
        BY <1>0, <1>1, <2>1 DEF Follows
    <2>4. Follows(t, pc'[t], step'[t], held'[t])
        BY <1>0, <2>1, <2>3 DEF Follows, Waiting
    <2> QED
        BY <1>0, <2>1, <2>2, <2>4, ScriptMoves DEF EngineInv
<1>3. CASE Operate(t)
    <2>1. pc[t] = "next" /\ UNCHANGED <<held, free, expired, cancels>>
        BY <1>3 DEF Operate
    <2>2. CASE pc' = [pc EXCEPT ![t] = "drop"] /\ UNCHANGED step
        <3>1. Follows(t, pc'[t], step'[t], held'[t])
            BY <1>0, <2>2 DEF Follows, Waiting
        <3> QED
            BY <1>0, <2>1, <2>2, <3>1, ScriptMoves, PermitsUntouched DEF EngineInv
    <2>3. CASE /\ step[t] <= Len(Script[t]) /\ Script[t][step[t]] # "drop"
               /\ pc' = [pc EXCEPT ![t] = "listen"] /\ UNCHANGED step
        <3>1. Script[t][step[t]] \in Kind
            BY <1>0, <1>1, <2>3
        <3>2. Follows(t, pc'[t], step'[t], held'[t])
            BY <1>0, <2>3, <3>1 DEF Follows, Waiting
        <3> QED
            BY <1>0, <2>1, <2>3, <3>2, ScriptMoves, PermitsUntouched DEF EngineInv
    <2>4. CASE /\ step[t] <= Len(Script[t]) /\ Script[t][step[t]] = "drop"
               /\ pc' = [pc EXCEPT ![t] = "give"] /\ UNCHANGED step
        <3>1. held'[t] # <<>>
            BY <1>0, <2>1, <2>4 DEF Follows
        <3>2. Follows(t, pc'[t], step'[t], held'[t])
            BY <1>0, <2>4, <3>1 DEF Follows, Waiting
        <3> QED
            BY <1>0, <2>1, <2>4, <3>2, ScriptMoves, PermitsUntouched DEF EngineInv
    <2>5. CASE /\ step[t] < Len(Script[t]) /\ Script[t][step[t] + 1] = "drop"
               /\ step' = [step EXCEPT ![t] = @ + 2] /\ UNCHANGED pc
        <3>1. step'[t] = step[t] + 2 /\ step' \in [Task -> Nat \ {0}]
            BY <1>0, <2>5
        <3>2. step'[t] <= Len(Script[t]) => Script[t][step'[t]] # "drop"
            <4>1. SUFFICES ASSUME step'[t] <= Len(Script[t]) PROVE Script[t][step'[t]] # "drop"
                OBVIOUS
            <4>2. step'[t] \in 1 .. Len(Script[t]) /\ step'[t] - 1 = step[t] + 1
                BY <1>0, <1>1, <3>1, <4>1
            <4> QED
                BY <1>1, <2>5, <4>2
        <3>3. Follows(t, pc'[t], step'[t], held'[t])
            BY <1>0, <2>1, <2>5, <3>2 DEF Follows, Waiting
        <3>4. \A u \in Task : u # t => step'[u] = step[u]
            BY <1>0, <2>5
        <3> QED
            BY <1>0, <2>1, <2>5, <3>1, <3>3, <3>4, ScriptMoves, PermitsUntouched DEF EngineInv
    <2> QED
        BY <1>3, <2>2, <2>3, <2>4, <2>5 DEF Operate, Goto
<1>4. CASE Give(t)
    <2>1. /\ pc[t] = "give" /\ Release(t) /\ UNCHANGED <<expired, cancels>>
        BY <1>4 DEF Give
    <2>2. held[t] # <<>> /\ step[t] <= Len(Script[t]) /\ Script[t][step[t]] = "drop"
        BY <1>0, <2>1 DEF Follows
    <2>3. CASE OnSession(t)
        <3>1. pc' = [pc EXCEPT ![t] = "next"] /\ step' = [step EXCEPT ![t] = @ + 1]
            BY <1>4, <2>3 DEF Give, Goto
        <3>2. step'[t] = step[t] + 1 /\ step' \in [Task -> Nat \ {0}]
            BY <1>0, <3>1
        <3>3. step'[t] <= Len(Script[t]) => Script[t][step'[t]] # "drop"
            <4>1. SUFFICES ASSUME step'[t] <= Len(Script[t]) PROVE Script[t][step'[t]] # "drop"
                OBVIOUS
            <4>2. step'[t] \in 1 .. Len(Script[t]) /\ step'[t] - 1 = step[t]
                BY <1>0, <1>1, <3>2, <4>1
            <4> QED
                BY <1>1, <2>2, <4>2
        <3>4. Follows(t, pc'[t], step'[t], held'[t])
            BY <1>0, <3>1, <3>3 DEF Follows, Waiting
        <3>5. GovernorInv' /\ \A y \in Thread : y # t => held'[y] = held[y]
            BY <1>0, <2>1, <2>2, <3>2, ReleaseGoverned
        <3>6. \A u \in Task : u # t => step'[u] = step[u] /\ pc'[u] = pc[u]
            BY <1>0, <3>1
        <3> QED
            BY <1>0, <3>4, <3>5, <3>6, ScriptMoves DEF EngineInv
    <2>4. CASE ~OnSession(t)
        <3>1. UNCHANGED <<pc, step>>
            BY <1>4, <2>4 DEF Give
        <3>2. /\ GovernorInv' /\ held'[t] # <<>>
              /\ \A y \in Thread : y # t => held'[y] = held[y]
            BY <1>0, <2>1, <2>2, <2>4, <3>1, ReleaseGoverned
        <3>3. Follows(t, pc'[t], step'[t], held'[t])
            BY <2>1, <2>2, <3>1, <3>2 DEF Follows, Waiting
        <3> QED
            BY <1>0, <3>1, <3>2, <3>3, ScriptMoves DEF EngineInv
    <2> QED
        BY <2>3, <2>4
<1> QED
    BY <1>2, <1>3, <1>4

\* So do the drops of permits, of requests and of whole futures.
LEMMA DropGoverned ==
    ASSUME EngineInv, NEW x \in Thread,
           Drop(x) \/ (x \in Program /\ (Leave(x) \/ Abandon(x)))
    PROVE  GovernorInv' /\ ScriptInv'
<1>0. /\ pc \in [Thread -> Label] /\ step \in [Task -> Nat \ {0}] /\ Task \subseteq Thread
      /\ Task \cap Program = {} /\ expired \subseteq Program /\ cancels \in Nat
    BY EngineAssumption DEF EngineAssumption, Thread, EngineInv, SessionInv, ControlType,
                            GovernorInv, ResourceType
<1>1. /\ UNCHANGED <<step, expired, cancels>> /\ pc[x] \in {"drop", "running", "abandon"}
    BY DEF Drop, Leave, Abandon
<1>2. \/ pc' = pc /\ pc[x] \in {"drop", "abandon"}
      \/ pc' = [pc EXCEPT ![x] = "ended"]
      \/ pc' = [pc EXCEPT ![x] = "done"]
      \/ pc' = [pc EXCEPT ![x] = "drop"]
    BY DEF Drop, Leave, Abandon, Goto
<1>3. \A y \in Thread : y # x => pc'[y] = pc[y]
    BY <1>0, <1>2
<1>4. Follows(x, pc'[x], step'[x], held'[x])
    BY <1>0, <1>2 DEF Follows, Waiting
<1>5. CASE held[x] # <<>> /\ Release(x)
    <2>1. GovernorInv' /\ \A y \in Thread : y # x => held'[y] = held[y]
        BY <1>0, <1>1, <1>5, ReleaseGoverned
    <2> QED
        BY <1>0, <1>1, <1>3, <1>4, <2>1, ScriptMoves DEF EngineInv
<1>6. CASE UNCHANGED <<held, free>>
    <2>1. GovernorInv'
        BY <1>0, <1>1, <1>6, PermitsUntouched DEF EngineInv
    <2> QED
        BY <1>0, <1>1, <1>3, <1>4, <1>6, <2>1, ScriptMoves DEF EngineInv
<1> QED
    BY <1>5, <1>6 DEF Drop, Leave, Abandon

\* What moves no operation that asks for permits keeps the scripts right.
LEMMA AsideGoverned ==
    ASSUME EngineInv, UNCHANGED <<step, held, free>>, expired' \subseteq Program, cancels' \in Nat,
           \A t \in Task : pc'[t] = pc[t] \/ pc'[t] \in {"drop", "done"}
    PROVE  GovernorInv' /\ ScriptInv'
<1>1. GovernorInv'
    BY PermitsUntouched DEF EngineInv, GovernorInv, ResourceType
<1>2. ASSUME NEW t \in Task PROVE Follows(t, pc'[t], step[t], held[t])
    <2>1. Follows(t, pc[t], step[t], held[t])
        BY DEF EngineInv, ScriptInv
    <2>2. CASE pc'[t] = pc[t]
        BY <2>1, <2>2
    <2>3. CASE pc'[t] \in {"drop", "done"}
        BY <2>3 DEF Follows, Waiting
    <2> QED
        BY <2>2, <2>3
<1>3. ScriptInv'
    BY <1>2 DEF ScriptInv, Follows
<1> QED
    BY <1>1, <1>3

\* Registration, cancellation, closing and deadlines touch no permit.
LEMMA ControlGoverned ==
    ASSUME EngineInv,
           \/ \E p \in Program : \/ Check(p) \/ Insert(p) \/ Dropped(p) \/ Notify(p)
                                 \/ CloseToken(p) \/ Expire(p)
           \/ \E s \in Session : \/ Close(s) \/ CloseLock(s) \/ CloseDone(s)
                                 \/ \E i \in Id : Cancel(s, i)
           \/ UNCHANGED vars
    PROVE  GovernorInv' /\ ScriptInv'
<1>0. /\ pc \in [Thread -> Label] /\ Task \subseteq Thread /\ Task \cap Program = {}
      /\ expired \subseteq Program /\ cancels \in Nat
    BY EngineAssumption DEF EngineAssumption, Thread, EngineInv, SessionInv, ControlType,
                            GovernorInv, ResourceType
<1>1. CASE \E p \in Program : Check(p) \/ Insert(p)
    <2>1. PICK p \in Program : Check(p) \/ Insert(p)
        BY <1>1
    <2>2. \E l \in {"refused", "insert", "listen"} : pc' = [pc EXCEPT ![p] = l]
        BY <2>1 DEF Check, Insert, Goto
    <2>3. \A t \in Task : pc'[t] = pc[t]
        BY <1>0, <2>2
    <2>4. UNCHANGED <<step, held, free, expired, cancels>>
        BY <2>1 DEF Check, Insert
    <2> QED
        BY <1>0, <2>3, <2>4, AsideGoverned
<1>2. CASE \E p \in Program : Dropped(p)
    <2>1. PICK p \in Program : Dropped(p)
        BY <1>2
    <2>2. UNCHANGED <<step, held, free, expired, cancels>>
        BY <2>1 DEF Dropped
    <2>3. \A t \in Task : pc'[t] = pc[t] \/ pc'[t] \in {"drop", "done"}
        BY <1>0, <2>1 DEF Dropped
    <2> QED
        BY <1>0, <2>2, <2>3, AsideGoverned
<1>3. CASE \/ \E p \in Program : Notify(p) \/ CloseToken(p)
           \/ \E s \in Session : Close(s) \/ CloseLock(s) \/ CloseDone(s)
           \/ UNCHANGED vars
    <2>1. UNCHANGED <<pc, step, held, free, expired, cancels>>
        BY <1>3, Zenon DEF Notify, CloseToken, Close, CloseLock, CloseDone, vars
    <2> QED
        BY <1>0, <2>1, AsideGoverned
<1>4. CASE \E p \in Program : Expire(p)
    <2>1. UNCHANGED <<pc, step, held, free, cancels>> /\ expired' \subseteq Program
        BY <1>0, <1>4 DEF Expire
    <2> QED
        BY <1>0, <2>1, AsideGoverned
<1>5. CASE \E s \in Session, i \in Id : Cancel(s, i)
    <2>1. UNCHANGED <<pc, step, held, free, expired>> /\ cancels' = cancels + 1
        BY <1>5, Zenon DEF Cancel
    <2> QED
        BY <1>0, <2>1, AsideGoverned
<1> QED
    BY <1>1, <1>2, <1>3, <1>4, <1>5

\* The invariant of the whole engine holds initially.
LEMMA EngineInvInit == Init => EngineInv
<1> SUFFICES ASSUME Init PROVE GovernorInv /\ ScriptInv
    BY SessionInvInit DEF EngineInv
<1>1. \A x \in Thread : held[x] = <<>>
    BY DEF Init
<1>2. ResourceType
    <2>1. held \in [Thread -> Seq(Permit)]
        BY DEF Init
    <2>2. \A place \in Place : Limit(place) \in [Kind -> Nat]
        BY EngineAssumption DEF EngineAssumption, Limit
    <2>3. free \in [Place -> [Kind -> Nat]]
        BY <2>2 DEF Init
    <2> QED
        BY <2>1, <2>3 DEF Init, ResourceType
<1>3. HeldPairs
    BY <1>1 DEF HeldPairs
<1>4. \A place \in Place, k \in Kind : Held(place, k) = {}
    BY <1>1 DEF Held
<1>5. HeldFinite /\ Accounting
    <2>1. \A place \in Place, k \in Kind : free[place][k] = Limit(place)[k] /\ Limit(place)[k] \in Nat
        BY LimitType DEF Init
    <2>2. IsFiniteSet({}) /\ Cardinality({}) = 0
        BY FS_EmptySet
    <2>3. ASSUME NEW place \in Place, NEW k \in Kind
          PROVE  /\ IsFiniteSet(Held(place, k))
                 /\ free[place][k] + Cardinality(Held(place, k)) = Limit(place)[k]
        <3>1. Cardinality(Held(place, k)) = 0 /\ IsFiniteSet(Held(place, k))
            BY <1>4, <2>2
        <3> QED
            BY <2>1, <3>1
    <2> QED
        BY <2>3 DEF HeldFinite, Accounting
<1>6. ScriptInv
    <2>1. \A t \in Task : pc[t] = "idle" /\ step[t] = 1
        BY EngineAssumption DEF EngineAssumption, Init, Thread
    <2> QED
        BY <2>1 DEF ScriptInv, Follows, Waiting
<1> QED
    BY <1>2, <1>3, <1>5, <1>6 DEF GovernorInv

\* Every step of the engine keeps it.
LEMMA EngineInvNext == EngineInv /\ [Next]_vars => EngineInv'
<1> SUFFICES ASSUME EngineInv, [Next]_vars PROVE GovernorInv' /\ ScriptInv'
    BY SessionInvNext DEF EngineInv
<1>1. ASSUME NEW x \in Thread, Advance(x) PROVE GovernorInv' /\ ScriptInv'
    BY <1>1, AcquireGoverned, DropGoverned, OperateGoverned, ControlGoverned DEF Advance
<1> QED
    BY <1>1, OperateGoverned, ControlGoverned DEF Next, Control

\* The invariant holds always.
LEMMA EngineInvAlways == Spec => []EngineInv
    BY EngineInvInit, EngineInvNext, PTL DEF Spec

\* Permits are neither lost nor made up by HierarchicalGovernor, for any
\* limits and whatever is cancelled, times out, fails or is dropped.
THEOREM PermitsAccounted == Spec => []Accounting
<1>1. EngineInv => Accounting
    BY DEF EngineInv, GovernorInv
<1> QED
    BY <1>1, EngineInvAlways, PTL

\* Every variable keeps its type; at no time are more permits out than
\* GovernorLimits allows.
THEOREM EngineTypes == Spec => []TypeOK
<1>1. ASSUME EngineInv PROVE TypeOK
    <2>1. ASSUME NEW place \in Place, NEW k \in Kind PROVE free[place][k] <= Limit(place)[k]
        <3>1. /\ free[place][k] \in Nat /\ Cardinality(Held(place, k)) \in Nat
              /\ free[place][k] + Cardinality(Held(place, k)) = Limit(place)[k]
            BY <1>1, FS_CardinalityType
            DEF EngineInv, GovernorInv, ResourceType, HeldFinite, Accounting
        <3> QED
            BY <3>1
    <2> QED
        BY <1>1, <2>1 DEF EngineInv, SessionInv, ControlType, GovernorInv, ResourceType, TypeOK
<1> QED
    BY <1>1, EngineInvAlways, PTL

\* The table of active requests serves its owner: a registration is the one of
\* its request, and close leaves no registered request uncancelled.
THEOREM SessionSafety == Spec => []SessionSound
    BY EngineTypes, RegistrationKept, CloseCancelsAll, PTL DEF SessionSound
=============================================================================
