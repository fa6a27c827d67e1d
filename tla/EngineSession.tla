---------------------------- MODULE EngineSession ----------------------------
(***************************************************************************)
(* Sessions, programs, cancellation and the hierarchical governor of        *)
(* crates/ash-engine (runtime.rs, governor.rs, cancellation.rs), driven by  *)
(* the operations of crates/ash-ops that ask for permits. A program is one  *)
(* request; a task is one operation of it: a leaf, or a node of a batch.    *)
(* A permit is taken from the session first and from the engine second.     *)
(***************************************************************************)
EXTENDS Integers, Sequences, FiniteSets

CONSTANTS Session, Program, Task, Id,
          SessionOf,      \* the session of each program
          IdOf,           \* the request identifier of each program
          Parent,         \* the program of each task
          Script,         \* the permits each task asks for
          GlobalLimit,    \* GovernorLimits of the engine
          SessionLimit,   \* GovernorLimits of every session
          None,           \* no program
          MaxCancels      \* bound: calls of Session::cancel

VARIABLES
    pc,         \* where each program and task is
    step,       \* the next entry of the script of each task
    held,       \* the permits of each program and task, oldest first
    ear,        \* the Notified future of a pending acquire
    free,       \* free permits of the engine ("global") and of each session
    active,     \* SessionInner::active: the registered program of each id
    closing,    \* how far Session::close has come
    token,      \* programs whose CancellationToken is cancelled
    waking,     \* programs whose token is set and not yet notified
    expired,    \* programs past their deadline
    answer,     \* what the last Session::cancel returned, and whether its
                \* target was registered then
    cancels     \* counter for the bound

vars == <<pc, step, held, ear, free, active, closing, token, waking, expired,
          answer, cancels>>

Kind == {"Program", "Node", "Process", "Filesystem", "Compute"}

\* What the operations ask for, in order; "drop" gives the last permit back.
LeafScript        == <<"Filesystem", "Compute">>
ExecScript        == <<"Process", "Compute", "drop", "Compute", "drop">>
RefScript         == <<"Compute">>

\* Mutant: the two permits are asked for in the other order.
MaterializeScriptReversed == <<"Compute", "Filesystem">>

MaterializeScript == <<"Filesystem", "Compute">>
NodeScript(s)     == <<"Node">> \o s

Thread  == Program \cup Task
Owner(x) == IF x \in Program THEN x ELSE Parent[x]
Place   == {"global"} \cup Session
Limit(place) == IF place = "global" THEN GlobalLimit ELSE SessionLimit
Permit  == [kind : Kind, at : Place]

ASSUME EngineAssumption ==
    /\ Program \cap Task = {} /\ None \notin Program /\ "global" \notin Session
    /\ SessionOf \in [Program -> Session] /\ IdOf \in [Program -> Id]
    /\ Parent \in [Task -> Program]
    /\ Script \in [Task -> Seq(Kind \cup {"drop"})]
    /\ \A t \in Task : \A i \in 1 .. Len(Script[t]) :
          Script[t][i] = "drop" => i > 1 /\ Script[t][i - 1] # "drop"
    /\ {GlobalLimit, SessionLimit} \subseteq [Kind -> Nat \ {0}]
    /\ MaxCancels \in Nat

Init ==
    /\ pc = [x \in Thread |-> IF x \in Program THEN "new" ELSE "idle"]
    /\ step = [t \in Task |-> 1]
    /\ held = [x \in Thread |-> <<>>] /\ ear = [x \in Thread |-> "off"]
    /\ free = [place \in Place |-> Limit(place)]
    /\ active = [s \in Session |-> [i \in Id |-> None]]
    /\ closing = [s \in Session |-> "open"]
    /\ token = {} /\ waking = {} /\ expired = {}
    /\ answer = [state |-> "none", target |-> FALSE] /\ cancels = 0

Goto(x, label) == pc' = [pc EXCEPT ![x] = label]

\* The lock of SessionInner::active, which cancel and close hold while they
\* set and notify tokens.
Unlocked(s) == closing[s] # "cancelling" /\ \A p \in waking : SessionOf[p] # s

Registered(p) == active[SessionOf[p]][IdOf[p]] = p

-----------------------------------------------------------------------------
(* Session::register                                                       *)

\* The first look at the closed flag, without the lock; the budget of the
\* request may be invalid.
Check(p) ==
    /\ pc[p] = "new"
    /\ \/ Goto(p, "refused")
       \/ closing[SessionOf[p]] = "open" /\ Goto(p, "insert")
    /\ UNCHANGED <<step, held, ear, free, active, closing, token, waking, expired,
                   answer, cancels>>

\* Mutant: the flag is not looked at again under the lock.
InsertUnchecked(p) ==
    LET s == SessionOf[p] IN
    /\ pc[p] = "insert" /\ Unlocked(s)
    /\ IF active[s][IdOf[p]] # None
       THEN Goto(p, "refused") /\ UNCHANGED active
       ELSE Goto(p, "listen") /\ active' = [active EXCEPT ![s][IdOf[p]] = p]
    /\ UNCHANGED <<step, held, ear, free, closing, token, waking, expired, answer, cancels>>

\* Under the lock: SessionClosed, DuplicateRequest, or the registration. The
\* program goes on to ask for its Program permit.
Insert(p) ==
    LET s == SessionOf[p] IN
    /\ pc[p] = "insert" /\ Unlocked(s)
    /\ IF closing[s] # "open" \/ active[s][IdOf[p]] # None
       THEN Goto(p, "refused") /\ UNCHANGED active
       ELSE Goto(p, "listen") /\ active' = [active EXCEPT ![s][IdOf[p]] = p]
    /\ UNCHANGED <<step, held, ear, free, closing, token, waking, expired, answer, cancels>>

-----------------------------------------------------------------------------
(* HierarchicalGovernor::acquire: Governor::acquire twice                  *)

Wanted(x) == IF x \in Program THEN "Program" ELSE Script[x][step[x]]

\* The session has granted the permit when the last one held is its own.
OnSession(x) == held[x] # <<>> /\ held[x][Len(held[x])].at # "global"
PlaceOf(x)   == IF OnSession(x) THEN "global" ELSE SessionOf[Owner(x)]

\* Mutant: the waiter is not enabled before the flag is looked at.
ListenWithoutEnable(x) ==
    /\ pc[x] = "listen" /\ Goto(x, "look")
    /\ UNCHANGED <<step, held, ear, free, active, closing, token, waking, expired,
                   answer, cancels>>

\* CancellationToken::cancelled registers with Notify ...
Listen(x) ==
    /\ pc[x] = "listen" /\ Goto(x, "look") /\ ear' = [ear EXCEPT ![x] = "on"]
    /\ UNCHANGED <<step, held, free, active, closing, token, waking, expired,
                   answer, cancels>>

\* Mutant: a permit of the session is forgotten when the engine refuses.
FailKeepsPermits(x) ==
    /\ Goto(x, IF x \in Program THEN "abandon" ELSE "drop")
    /\ ear' = [ear EXCEPT ![x] = "off"] /\ held' = [held EXCEPT ![x] = <<>>]
    /\ UNCHANGED <<step, free>>

\* The acquisition fails: a registration is abandoned, an operation returns.
Fail(x) ==
    /\ Goto(x, IF x \in Program THEN "abandon" ELSE "drop")
    /\ ear' = [ear EXCEPT ![x] = "off"] /\ UNCHANGED <<held, step, free>>

Take(x) ==
    LET at == PlaceOf(x) IN
    /\ free' = [free EXCEPT ![at][Wanted(x)] = @ - 1]
    /\ held' = [held EXCEPT ![x] = Append(@, [kind |-> Wanted(x), at |-> at])]
    /\ ear' = [ear EXCEPT ![x] = "off"]
    /\ IF at # "global" THEN Goto(x, "listen") /\ UNCHANGED step
       ELSE IF x \in Program THEN Goto(x, "running") /\ UNCHANGED step
       ELSE Goto(x, "next") /\ step' = [step EXCEPT ![x] = @ + 1]

Available(x) == free[PlaceOf(x)][Wanted(x)] > 0

\* ... and looks at the flag.
Look(x) ==
    /\ pc[x] = "look"
    /\ IF Owner(x) \in token THEN Fail(x)
       ELSE Goto(x, "poll") /\ UNCHANGED <<held, step, free, ear>>
    /\ UNCHANGED <<active, closing, token, waking, expired, answer, cancels>>

\* The semaphore and the deadline are polled for the first time.
Poll(x) ==
    /\ pc[x] = "poll"
    /\ IF Available(x) THEN Take(x)
       ELSE IF Owner(x) \in expired THEN Fail(x)
       ELSE Goto(x, "parked") /\ UNCHANGED <<held, step, free, ear>>
    /\ UNCHANGED <<active, closing, token, waking, expired, answer, cancels>>

\* A parked acquire is woken by the token, the semaphore or the deadline.
Wake(x) ==
    /\ pc[x] \in {"poll", "parked"} /\ ear[x] = "rung" /\ Goto(x, "listen")
    /\ UNCHANGED <<step, held, ear, free, active, closing, token, waking, expired,
                   answer, cancels>>

Grant(x) ==
    /\ pc[x] = "parked" /\ Available(x) /\ Take(x)
    /\ UNCHANGED <<active, closing, token, waking, expired, answer, cancels>>

Timeout(x) ==
    /\ pc[x] = "parked" /\ Owner(x) \in expired /\ Fail(x)
    /\ UNCHANGED <<active, closing, token, waking, expired, answer, cancels>>

-----------------------------------------------------------------------------
(* Permits are dropped newest first: a HierarchicalPermit drops the global  *)
(* one before that of the session, and locals are dropped in reverse order. *)

Release(x) ==
    LET last == held[x][Len(held[x])] IN
    /\ free' = [free EXCEPT ![last.at][last.kind] = @ + 1]
    /\ held' = [held EXCEPT ![x] = SubSeq(@, 1, Len(@) - 1)]

\* An operation goes on to its next permit, gives one back, or returns, with a
\* result or with an error of its own. A permit for one section only is not
\* asked for when the section is skipped.
Operate(t) ==
    LET script == Script[t]
        more   == step[t] <= Len(script)
    IN
    /\ pc[t] = "next"
    /\ \/ Goto(t, "drop") /\ UNCHANGED step
       \/ more /\ script[step[t]] # "drop" /\ Goto(t, "listen") /\ UNCHANGED step
       \/ more /\ script[step[t]] = "drop" /\ Goto(t, "give") /\ UNCHANGED step
       \/ /\ step[t] < Len(script) /\ script[step[t] + 1] = "drop"
          /\ step' = [step EXCEPT ![t] = @ + 2] /\ UNCHANGED pc
    /\ UNCHANGED <<held, ear, free, active, closing, token, waking, expired,
                   answer, cancels>>

Give(t) ==
    /\ pc[t] = "give" /\ Release(t)
    /\ IF OnSession(t) THEN Goto(t, "next") /\ step' = [step EXCEPT ![t] = @ + 1]
                       ELSE UNCHANGED <<pc, step>>
    /\ UNCHANGED <<ear, active, closing, token, waking, expired, answer, cancels>>

\* The operations of a started program begin.
Start(t) ==
    /\ pc[t] = "idle" /\ pc[Parent[t]] = "running" /\ Goto(t, "next")
    /\ UNCHANGED <<step, held, ear, free, active, closing, token, waking, expired,
                   answer, cancels>>

Drop(x) ==
    /\ pc[x] = "drop"
    /\ IF held[x] # <<>> THEN Release(x) /\ UNCHANGED pc
       ELSE Goto(x, IF x \in Program THEN "ended" ELSE "done") /\ UNCHANGED <<held, free>>
    /\ UNCHANGED <<step, ear, active, closing, token, waking, expired, answer, cancels>>

\* The last Program value of the request is dropped: ProgramLease::drop
\* unregisters the request, then its permit goes.
Leave(p) ==
    /\ pc[p] = "running" /\ \A t \in Task : Parent[t] = p => pc[t] = "done"
    /\ Unlocked(SessionOf[p]) /\ Goto(p, "drop")
    /\ active' = [active EXCEPT ![SessionOf[p]][IdOf[p]] = None]
    /\ UNCHANGED <<step, held, ear, free, closing, token, waking, expired, answer, cancels>>

\* RegisteredProgram::start failed: the permit of the session is dropped by
\* acquire, then the registration by RegisteredProgram::drop.
Abandon(p) ==
    /\ pc[p] = "abandon"
    /\ IF held[p] # <<>> THEN Release(p) /\ UNCHANGED <<pc, active>>
       ELSE /\ Unlocked(SessionOf[p]) /\ Goto(p, "ended")
            /\ active' = [active EXCEPT ![SessionOf[p]][IdOf[p]] = None]
            /\ UNCHANGED <<held, free>>
    /\ UNCHANGED <<step, ear, closing, token, waking, expired, answer, cancels>>

\* The future of the request is dropped at an await point, as when the
\* transport fails and its JoinSet goes: what waits or works is given up.
Dropped(p) ==
    LET mine == {x \in Thread : Owner(x) = p} IN
    /\ pc[p] \in {"parked", "running"}
    /\ \A x \in mine : pc[x] \in {"parked", "running", "next", "idle", "done"}
    /\ pc' = [x \in Thread |->
                CASE x = p /\ pc[x] = "parked" -> "abandon"
                  [] x \in mine \ {p} /\ pc[x] \in {"parked", "next"} -> "drop"
                  [] x \in mine \ {p} /\ pc[x] = "idle" -> "done"
                  [] OTHER -> pc[x]]
    /\ ear' = [x \in Thread |-> IF x \in mine THEN "off" ELSE ear[x]]
    /\ UNCHANGED <<step, held, free, active, closing, token, waking, expired, answer, cancels>>

-----------------------------------------------------------------------------
(* Cancellation                                                            *)

\* Mutant: the token is set and nobody is notified.
SignalSilently(p) == token' = token \cup {p} /\ UNCHANGED waking

\* CancellationToken::cancel, first caller: the flag ...
Signal(p) == token' = token \cup {p} /\ waking' = waking \cup {p}

\* ... and notify_waiters, which reaches whoever is registered by now.
Notify(p) ==
    /\ p \in waking /\ waking' = waking \ {p}
    /\ ear' = [x \in Thread |-> IF Owner(x) = p /\ ear[x] = "on" THEN "rung" ELSE ear[x]]
    /\ UNCHANGED <<pc, step, held, free, active, closing, token, expired, answer, cancels>>

\* Session::cancel is true only when it was the first to set the token.
Cancel(s, i) ==
    LET p == active[s][i]
        first == p # None /\ p \notin token
    IN
    /\ cancels < MaxCancels /\ cancels' = cancels + 1 /\ Unlocked(s)
    /\ answer' = [state |-> IF first THEN "Signaled" ELSE "NotActive", target |-> p # None]
    /\ IF first THEN Signal(p) ELSE UNCHANGED <<token, waking>>
    /\ UNCHANGED <<pc, step, held, ear, free, active, closing, expired>>

\* Session::close: the flag, then under the lock every registered token.
Close(s) ==
    /\ closing[s] = "open" /\ closing' = [closing EXCEPT ![s] = "flagged"]
    /\ UNCHANGED <<pc, step, held, ear, free, active, token, waking, expired, answer, cancels>>

CloseLock(s) ==
    /\ closing[s] = "flagged" /\ Unlocked(s)
    /\ closing' = [closing EXCEPT ![s] = "cancelling"]
    /\ UNCHANGED <<pc, step, held, ear, free, active, token, waking, expired, answer, cancels>>

CloseToken(p) ==
    LET s == SessionOf[p] IN
    /\ closing[s] = "cancelling" /\ Registered(p) /\ p \notin token
    /\ \A q \in waking : SessionOf[q] # s
    /\ Signal(p)
    /\ UNCHANGED <<pc, step, held, ear, free, active, closing, expired, answer, cancels>>

CloseDone(s) ==
    /\ closing[s] = "cancelling" /\ \A q \in waking : SessionOf[q] # s
    /\ \A p \in Program : SessionOf[p] = s /\ Registered(p) => p \in token
    /\ closing' = [closing EXCEPT ![s] = "closed"]
    /\ UNCHANGED <<pc, step, held, ear, free, active, token, waking, expired, answer, cancels>>

\* The deadline, fixed when the request was registered, passes.
Expire(p) ==
    /\ pc[p] \notin {"new", "refused", "ended"} /\ p \notin expired
    /\ expired' = expired \cup {p}
    /\ UNCHANGED <<pc, step, held, ear, free, active, closing, token, waking, answer, cancels>>

-----------------------------------------------------------------------------
Acquire(x) == Listen(x) \/ Look(x) \/ Poll(x) \/ Wake(x) \/ Grant(x) \/ Timeout(x)

\* What a program or task does by itself, but for the work of an operation.
Advance(x) ==
    \/ Acquire(x) \/ Drop(x)
    \/ x \in Task /\ (Start(x) \/ Give(x))
    \/ x \in Program /\ (Insert(x) \/ Leave(x) \/ Abandon(x))

Control ==
    \/ \E p \in Program : Notify(p) \/ CloseToken(p)
    \/ \E s \in Session : CloseLock(s) \/ CloseDone(s)

Next ==
    \/ \E x \in Thread : Advance(x)
    \/ \E t \in Task : Operate(t)
    \/ Control
    \/ \E p \in Program : Check(p) \/ Expire(p) \/ Dropped(p)
    \/ \E s \in Session : Close(s) \/ \E i \in Id : Cancel(s, i)

Spec == Init /\ [][Next]_vars

\* Programs, tasks and whoever cancels or closes are scheduled. Nothing is said
\* about an operation: it may hang with the permits it has.
HangingSpec == Spec /\ WF_vars(Control) /\ \A x \in Thread : WF_vars(Advance(x))

-----------------------------------------------------------------------------
(* Properties                                                              *)

Waiting == {"listen", "look", "poll", "parked"}
Label   == Waiting \cup {"new", "insert", "refused", "running", "abandon", "ended",
                         "idle", "next", "give", "drop", "done"}

\* Every variable has its type; a semaphore never gives out more permits than
\* GovernorLimits allows and never gets back more than it gave.
TypeOK ==
    /\ pc \in [Thread -> Label]
    /\ step \in [Task -> Nat \ {0}]
    /\ held \in [Thread -> Seq(Permit)] /\ ear \in [Thread -> {"off", "on", "rung"}]
    /\ free \in [Place -> [Kind -> Nat]]
    /\ \A place \in Place, k \in Kind : free[place][k] <= Limit(place)[k]
    /\ active \in [Session -> [Id -> Program \cup {None}]]
    /\ closing \in [Session -> {"open", "flagged", "cancelling", "closed"}]
    /\ token \subseteq Program /\ waking \subseteq Program /\ expired \subseteq Program
    /\ cancels \in Nat

\* The permits of a kind and place that are out: holder and position.
Held(place, k) ==
    UNION {{x} \X {i \in 1 .. Len(held[x]) : held[x][i] = [kind |-> k, at |-> place]} :
              x \in Thread}

\* No permit is lost or made up: what the engine and the sessions have free and
\* what programs and operations hold add up to the limits, whatever is
\* cancelled, times out or fails between the two halves of an acquisition.
Accounting ==
    \A place \in Place, k \in Kind :
        free[place][k] + Cardinality(Held(place, k)) = Limit(place)[k]

\* "race-free cooperative cancellation signal": whoever waits for a permit of a
\* cancelled program has been woken or is about to be, although the flag is
\* set and the waiter registered by two threads that take no common lock.
NoLostCancel ==
    \A x \in Thread :
        pc[x] \in {"poll", "parked"} /\ Owner(x) \in token => ear[x] = "rung" \/ Owner(x) \in waking

\* A request is registered from Session::register until its last Program or
\* its RegisteredProgram is dropped, and no other request with the same
\* identifier takes its registration away before.
OwnRegistration ==
    \A p \in Program : pc[p] \in Waiting \cup {"running", "abandon"} => Registered(p)

\* Once the call of Session::close that set the flag has returned, every request
\* that is still registered is cancelled: one that was being registered meanwhile
\* is refused. (A second call returns at once and promises nothing of its own.)
CloseCovers ==
    \A s \in Session : closing[s] = "closed" =>
        \A i \in Id : active[s][i] # None => active[s][i] \in token

\* The two promises of Session about its table of active requests, with every
\* variable in its type and every semaphore within its limit.
SessionSound == TypeOK /\ OwnRegistration /\ CloseCovers

\* Unless an operation hangs, every request comes to an end and gives its
\* permits back, though operations ask for one permit while they hold another.
Drains ==
    (\A t \in Task : []<>(pc[t] # "next"))
        => \A p \in Program : pc[p] = "insert" ~> pc[p] \in {"ended", "refused"}

\* A request or operation that waits for a permit stops waiting when it is
\* cancelled, even if the operation that has the permit never ends.
CancelFrees ==
    \A x \in Thread : pc[x] \in Waiting /\ Owner(x) \in token ~> pc[x] \notin Waiting

\* "state 0 means the target was no longer active": Session::cancel says
\* NotActive only of an identifier that is not registered.
NotActiveIsInactive == answer.state = "NotActive" => ~answer.target
=============================================================================
