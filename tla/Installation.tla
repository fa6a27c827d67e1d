---------------------------- MODULE Installation ----------------------------
(***************************************************************************)
(* Self-update of an installed ash (ash-update install.rs, driven by       *)
(* ash-cli self_command.rs): the install lock, the journal of an           *)
(* activation, its recovery and rollback.  Every process runs one command  *)
(* of `ash self`; between any two system calls that write it may die or    *)
(* another process may go on.  Versions are numbers in their order, 0 is   *)
(* "no version"; the receipt, state and journal files are records.         *)
(***************************************************************************)
EXTENDS Naturals, FiniteSets

CONSTANTS Version,      \* 1 .. n, version 1 is installed
          Releases,     \* what the release server may offer
          Processes,    \* 1 .. n, each runs one command
          Platforms,    \* of {"unix", "windows"}
          Broken,       \* versions whose build-info probe fails
          FlakyCalls,   \* calls whose probe behind the launcher may fail all the same
          OneTakeover,  \* see Judge
          PromptOwners, \* see Age
          MaxRunning,   \* processes running at one time
          MaxFailures   \* deaths of a process and failing writes, together

VARIABLES platform,
          disk,         \* [receipt, state, journal, active, versions]
          lock,         \* [dir, owner, old]: .install-lock, its owner file, its age
          proc,         \* the processes
          anchor,       \* history: the highest sequence a command has reported
          failures
vars == <<platform, disk, lock, proc, anchor, failures>>

None == 0
NoManifest == "-"
NoState == [active |-> None]
NoJournal == [new |-> None]

-----------------------------------------------------------------------------
(* The three files and what load_context and validate_journal ask of them  *)

StateOf(d) ==
    IF d.state # NoState THEN d.state
    ELSE [active |-> d.receipt, previous |-> None, highest |-> 0, manifest |-> NoManifest]

ValidateState(s) == s.previous # s.active /\ ((s.highest = 0) <=> (s.manifest = NoManifest))

Installed(d, v) == d.versions[v] # "-"
IsActiveVersion(d, v) == d.active = v

LoadContext(d, allowPending) ==
    /\ ValidateState(StateOf(d))
    /\ d.journal # NoJournal => allowPending
    /\ d.journal = NoJournal => StateOf(d).active = d.receipt /\ IsActiveVersion(d, d.receipt)
    /\ Installed(d, d.receipt)

PriorState(j) == [active |-> j.old, previous |-> j.priorPrevious, highest |-> j.priorHighest, manifest |-> j.priorManifest]
FinalState(j) ==
    [active |-> j.new, previous |-> j.old,
     highest |-> IF j.sequence >= j.priorHighest THEN j.sequence ELSE j.priorHighest,
     manifest |-> IF j.sequence >= j.priorHighest THEN j.manifest ELSE j.priorManifest]

ValidateJournal(d, j) ==
    /\ j.old # j.new /\ j.sequence # 0 /\ j.sequence >= j.priorHighest
    /\ j.sequence = j.priorHighest => j.priorManifest = j.manifest
    /\ ValidateState(PriorState(j)) /\ ValidateState(FinalState(j))
    /\ StateOf(d) \in {PriorState(j), FinalState(j)}
    /\ d.receipt \in {j.old, j.new}
    /\ StateOf(d) = PriorState(j) => d.receipt = j.old
    /\ Installed(d, j.old) /\ Installed(d, j.new)

ValidateAnchor(s, rel) ==
    /\ rel.sequence >= s.highest
    /\ rel.sequence = s.highest /\ s.highest # 0 => s.manifest = rel.manifest

\* verify_release, for metadata whose signature and shape are right.
VerifyRelease(info, rel) ==
    CASE rel.version < info.current /\ ~rel.rollback -> "Refused"
      [] ~ValidateAnchor(info, rel) -> "Refused"
      [] rel.version = info.current -> "Current"
      [] rel.version > info.current -> "Update"
      [] OTHER -> "SignedRollback"

\* candidate_health: the binary answers with its own version and target.
Healthy(binaryVersion, v) == binaryVersion = v /\ v \notin Broken

-----------------------------------------------------------------------------
(* Processes: where they are, what they run, and what they have read       *)

Fresh == [at |-> "idle", cmd |-> "-", call |-> "-", rel |-> NoJournal, ctx |-> NoJournal,
          info |-> NoJournal, decision |-> "-", reply |-> "-"]

Locking == {"mkdir", "judge", "rmOwner", "rmDir", "again", "own"}
Finalizing == {"finState", "finReceipt", "finJournal"}
Restoring == {"resLink", "resHealth", "resState", "resReceipt", "resJournal"}
Critical == {"load", "stage", "journal", "link", "health", "confirm"} \cup Finalizing \cup Restoring
Live == Locking \cup Critical \cup {"dropOwner", "dropDir", "returned"}

Init ==
    /\ platform \in Platforms
    /\ disk = [receipt |-> 1, state |-> NoState, journal |-> NoJournal, active |-> 1,
               versions |-> [v \in Version |-> IF v = 1 THEN "b1" ELSE "-"]]
    /\ lock = [dir |-> FALSE, owner |-> None, old |-> FALSE]
    /\ proc = [x \in Processes |-> Fresh]
    /\ anchor = 0 /\ failures = 0

Still == UNCHANGED <<platform, failures>>
Failing == failures < MaxFailures /\ failures' = failures + 1
Goto(x, at) == proc' = [proc EXCEPT ![x].at = at]
\* A call ends: the reply is set and the lock dropped.
Reply(x, reply) == proc' = [proc EXCEPT ![x].reply = reply, ![x].at = "dropOwner", ![x].ctx = NoJournal]
\* A process is over; what it had read is forgotten with it.
Over(x, at) == [Fresh EXCEPT !.at = at]
\* A call ends that did not get the lock.
NoLock(x, reply) == proc' = [proc EXCEPT ![x].reply = reply, ![x].at = "returned"]

Commands == {"status", "update", "rollback", "recover", "replace"}
FirstCall(cmd) ==
    CASE cmd = "status" -> "inspect" [] cmd \in {"update", "rollback", "recover"} -> "recover" [] OTHER -> "replace"
Launched(x, cmd, rel) == [Fresh EXCEPT !.at = "mkdir", !.cmd = cmd, !.call = FirstCall(cmd), !.rel = rel]
NextIdle(x) == proc[x].at = "idle" /\ \A y \in Processes : y < x => proc[y].at # "idle"
Running == {x \in Processes : proc[x].at \in Live}

Start(x) ==
    /\ NextIdle(x) /\ Cardinality(Running) < MaxRunning
    /\ \E cmd \in Commands : \E rel \in IF cmd = "update" THEN Releases ELSE {NoJournal} :
          proc' = [proc EXCEPT ![x] = Launched(x, cmd, rel)]
    /\ UNCHANGED <<disk, lock, anchor>> /\ Still

-----------------------------------------------------------------------------
(* InstallLock.  On Windows the lock is an exclusive open file, which the  *)
(* system closes with its process.                                         *)

Free == [dir |-> FALSE, owner |-> None, old |-> FALSE]
Made == [dir |-> TRUE, owner |-> None, old |-> FALSE]

MakeLock(x) ==
    /\ proc[x].at = "mkdir"
    /\ IF platform = "windows"
       THEN IF lock.owner # None THEN NoLock(x, "InstallLock") /\ UNCHANGED lock
            ELSE lock' = [lock EXCEPT !.owner = x] /\ Goto(x, "load")
       ELSE IF lock.dir THEN Goto(x, "judge") /\ UNCHANGED lock
            ELSE lock' = Made /\ Goto(x, "own")
    /\ UNCHANGED <<disk, anchor>> /\ Still

\* unix_lock_is_active: the owner is gone, or none was written for thirty seconds.
Stale(x) == IF lock.owner # None THEN proc[lock.owner].at = "dead" ELSE lock.old

\* OneTakeover: no two processes take over a stale lock at the same time.
Judge(x) ==
    /\ proc[x].at = "judge"
    /\ OneTakeover /\ Stale(x) => \A y \in Processes : proc[y].at \notin {"rmOwner", "rmDir", "again"}
    /\ IF ~lock.dir THEN NoLock(x, "Io")
       ELSE IF Stale(x) THEN Goto(x, "rmOwner") ELSE NoLock(x, "InstallLock")
    /\ UNCHANGED <<disk, lock, anchor>> /\ Still

TakeOver(x) ==
    /\ \/ /\ proc[x].at = "rmOwner" /\ Goto(x, "rmDir")
          /\ lock' = IF lock.owner # None THEN Made ELSE lock
       \/ /\ proc[x].at = "rmDir"
          /\ IF lock.dir /\ lock.owner = None THEN lock' = Free /\ Goto(x, "again")
             ELSE NoLock(x, "Io") /\ UNCHANGED lock
       \/ /\ proc[x].at = "again"
          /\ IF lock.dir THEN NoLock(x, "InstallLock") /\ UNCHANGED lock ELSE lock' = Made /\ Goto(x, "own")
    /\ UNCHANGED <<disk, anchor>> /\ Still

WriteOwner(x) ==
    /\ proc[x].at = "own"
    /\ IF lock.dir THEN lock' = [Made EXCEPT !.owner = x] /\ Goto(x, "load") ELSE NoLock(x, "Io") /\ UNCHANGED lock
    /\ UNCHANGED <<disk, anchor>> /\ Still

\* Drop of InstallLock: whatever stands there is removed, errors are ignored.
DropLock(x) ==
    /\ \/ /\ proc[x].at = "dropOwner" /\ platform = "unix" /\ Goto(x, "dropDir")
          /\ lock' = IF lock.owner # None THEN Made ELSE lock
       \/ /\ proc[x].at = "dropOwner" /\ platform = "windows" /\ Goto(x, "returned")
          /\ lock' = IF lock.owner = x THEN Free ELSE lock
       \/ /\ proc[x].at = "dropDir" /\ Goto(x, "returned")
          /\ lock' = IF lock.owner = None THEN Free ELSE lock
    /\ UNCHANGED <<disk, anchor>> /\ Still

\* Thirty seconds pass over a lock directory without an owner file.  PromptOwners: no
\* live process is that slow between two of its own system calls.
Age ==
    /\ lock.dir /\ lock.owner = None /\ ~lock.old
    /\ PromptOwners => \A x \in Processes : proc[x].at \notin {"own", "rmDir", "dropDir"}
    /\ lock' = [lock EXCEPT !.old = TRUE]
    /\ UNCHANGED <<disk, proc, anchor>> /\ Still

-----------------------------------------------------------------------------
(* The calls, from load_context to the drop of the lock                    *)

\* Where a call goes on once its context is loaded, or the reply it ends with.
Opened(p, d) ==
    LET s == StateOf(d)
        On(at) == [at |-> at, reply |-> "-"]
        End(reply) == [at |-> "dropOwner", reply |-> reply]
        Confirmed == IF d.versions[d.receipt] = p.rel.binary THEN On("confirm") ELSE End("Refused")
    IN CASE ~LoadContext(d, p.call \in {"recover", "replace"}) -> End("Refused")
         [] p.call = "inspect" -> End("Done")
         [] p.call \in {"recover", "replace"} /\ d.journal = NoJournal ->
               End(IF p.call = "recover" THEN "Done" ELSE "Refused")
         [] p.call \in {"recover", "replace"} /\ ~ValidateJournal(d, d.journal) -> End("Refused")
         [] p.call = "recover" -> On(IF IsActiveVersion(d, d.journal.new) THEN "health" ELSE "resLink")
         [] p.call = "replace" -> On("link")
         [] p.call = "confirm" -> IF p.rel.version = d.receipt /\ ValidateAnchor(s, p.rel) THEN Confirmed ELSE End("Refused")
         [] p.call = "install" ->
               IF ~ValidateAnchor(s, p.rel) THEN End("Refused")
               ELSE IF p.rel.version = d.receipt THEN Confirmed
               ELSE IF p.rel.version < d.receipt /\ p.decision # "SignedRollback" THEN End("Refused")
               ELSE On("stage")
         [] OTHER -> IF s.previous # None /\ Installed(d, s.previous) /\ Healthy(s.previous, s.previous) /\ s.manifest # NoManifest
                     THEN On("journal") ELSE End("Refused")

Load(x) ==
    LET to == Opened(proc[x], disk) IN
    /\ proc[x].at = "load"
    /\ proc' = [proc EXCEPT ![x].at = to.at, ![x].reply = to.reply, ![x].ctx = IF to.at = "dropOwner" THEN NoJournal ELSE disk,
                ![x].info = IF proc[x].call # "inspect" THEN NoJournal
                            ELSE [current |-> disk.receipt, highest |-> StateOf(disk).highest, manifest |-> StateOf(disk).manifest]]
    /\ UNCHANGED <<disk, lock, anchor>> /\ Still

\* One write of process x: it leaves d and goes on, or fails without effect, or fails once
\* its effect is there (the directory could not be synced) and the call ends with it.
Write(x, at, d, on) ==
    /\ proc[x].at = at
    /\ \/ disk' = d /\ proc' = on /\ UNCHANGED failures
       \/ /\ Failing
          /\ disk' \in IF platform = "unix" THEN {disk, d} ELSE {disk}
          /\ Reply(x, "Io")
    /\ UNCHANGED <<platform, lock>>
At(x, at) == [proc EXCEPT ![x].at = at]
Replied(x, reply) == [proc EXCEPT ![x].reply = reply, ![x].at = "dropOwner", ![x].ctx = NoJournal]
Reported(sequence) == anchor' = IF sequence > anchor /\ failures' = failures THEN sequence ELSE anchor

Confirm(x) ==
    LET rel == proc[x].rel IN
    /\ proc[x].at = "confirm"
    /\ Write(x, "confirm", [disk EXCEPT !.state = [StateOf(proc[x].ctx) EXCEPT !.highest = rel.sequence, !.manifest = rel.manifest]],
             Replied(x, "Done"))
    /\ Reported(rel.sequence)

\* stage_version: a version directory appears by one rename; one that stands is compared.
Stage(x) ==
    LET rel == proc[x].rel
        known == Installed(disk, rel.version)
    IN /\ proc[x].at = "stage"
       /\ Write(x, "stage", IF known THEN disk ELSE [disk EXCEPT !.versions[rel.version] = rel.binary],
                IF known /\ disk.versions[rel.version] # rel.binary THEN Replied(x, "Refused") ELSE At(x, "journal"))
       /\ UNCHANGED anchor

NewJournal(p) ==
    LET s == StateOf(p.ctx)
        install == p.call = "install"
    IN [old |-> p.ctx.receipt, new |-> IF install THEN p.rel.version ELSE s.previous,
        sequence |-> IF install THEN p.rel.sequence ELSE s.highest,
        manifest |-> IF install THEN p.rel.manifest ELSE s.manifest,
        priorPrevious |-> s.previous, priorHighest |-> s.highest, priorManifest |-> s.manifest]

\* Mutant: the active version is switched before the journal is written.
JournalAfterSwitch(x) ==
    LET j == NewJournal(proc[x]) IN
    /\ proc[x].at = "journal"
    /\ Write(x, "journal", [disk EXCEPT !.active = j.new], [proc EXCEPT ![x].ctx.journal = j, ![x].at = "link"])
    /\ UNCHANGED anchor

WriteJournal(x) ==
    LET j == NewJournal(proc[x])
        valid == Healthy(j.new, j.new) /\ ValidateJournal([proc[x].ctx EXCEPT !.versions = disk.versions], j)
    IN /\ proc[x].at = "journal"
       /\ IF ~valid THEN Reply(x, "Refused") /\ UNCHANGED <<disk, lock>> /\ Still
          ELSE Write(x, "journal", [disk EXCEPT !.journal = j],
                     IF platform = "windows" THEN Replied(x, "HelperRequired")
                     ELSE [proc EXCEPT ![x].ctx.journal = j, ![x].at = "link"])
       /\ UNCHANGED anchor

Journal(x) == proc[x].ctx.journal

\* apply_pending: activate_version, then the health check behind the launcher.
Activate(x) ==
    /\ \/ Write(x, "link", [disk EXCEPT !.active = Journal(x).new], At(x, "health"))
       \/ /\ proc[x].at = "health" /\ UNCHANGED <<disk, lock>> /\ Still
          /\ \/ Healthy(disk.active, Journal(x).new) /\ Goto(x, "finState")
             \/ (~Healthy(disk.active, Journal(x).new) \/ proc[x].call \in FlakyCalls) /\ Goto(x, "resLink")
    /\ UNCHANGED anchor


Finalize(x) ==
    \/ Write(x, "finState", [disk EXCEPT !.state = FinalState(Journal(x))], At(x, "finReceipt")) /\ UNCHANGED anchor
    \/ Write(x, "finReceipt", [disk EXCEPT !.receipt = Journal(x).new], At(x, "finJournal")) /\ UNCHANGED anchor
    \/ Write(x, "finJournal", [disk EXCEPT !.journal = NoJournal], Replied(x, "Done")) /\ Reported(Journal(x).sequence)

RestorePrior(x) ==
    /\ \/ Write(x, "resLink", [disk EXCEPT !.active = Journal(x).old], At(x, "resHealth"))
       \/ /\ proc[x].at = "resHealth" /\ UNCHANGED <<disk, lock>> /\ Still
          /\ IF Healthy(disk.active, Journal(x).old) THEN Goto(x, "resState") ELSE Reply(x, "Refused")
       \/ Write(x, "resState", [disk EXCEPT !.state = PriorState(Journal(x))], At(x, "resReceipt"))
       \/ Write(x, "resReceipt", [disk EXCEPT !.receipt = Journal(x).old], At(x, "resJournal"))
       \/ Write(x, "resJournal", [disk EXCEPT !.journal = NoJournal],
                Replied(x, IF proc[x].call = "recover" THEN "Done" ELSE "Refused"))
    /\ UNCHANGED anchor

-----------------------------------------------------------------------------
(* The commands: one call after the other                                  *)

\* The call that follows a successful one; "-" when the command is done.
Following(p) ==
    CASE p.cmd = "update" /\ p.call = "recover" -> "inspect"
      [] p.cmd = "update" /\ p.call = "inspect" ->
            CASE VerifyRelease(p.info, p.rel) = "Current" -> "confirm"
              [] VerifyRelease(p.info, p.rel) \in {"Update", "SignedRollback"} -> "install"
              [] OTHER -> "-"
      [] p.cmd = "rollback" /\ p.call = "recover" -> "rollback"
      [] OTHER -> "-"

\* self replace retries a lock that is taken and input-output errors until its deadline.
Retries(p) == p.cmd = "replace" /\ p.reply \in {"InstallLock", "Io"}

Return(x) ==
    LET p == proc[x]
        next == IF p.reply = "Done" THEN Following(p) ELSE "-"
    IN /\ p.at = "returned"
       /\ \/ /\ next # "-"
             /\ proc' = [proc EXCEPT ![x].at = "mkdir", ![x].call = next, ![x].reply = "-",
                         ![x].decision = IF p.call = "inspect" THEN VerifyRelease(p.info, p.rel) ELSE "-"]
          \/ next = "install" /\ proc' = [proc EXCEPT ![x] = Over(x, "ended")]   \* no archive
          \/ Retries(p) /\ proc' = [proc EXCEPT ![x].at = "mkdir", ![x].reply = "-"]
          \/ next = "-" /\ p.reply # "HelperRequired" /\ proc' = [proc EXCEPT ![x] = Over(x, "ended")]
          \* spawn_replacement_helper: the candidate runs self replace, or is not started.
          \/ /\ p.reply = "HelperRequired"
             /\ \/ proc' = [proc EXCEPT ![x] = Over(x, "ended")]
                \/ \E y \in Processes : NextIdle(y) /\
                      proc' = [proc EXCEPT ![x] = Over(x, "ended"), ![y] = Launched(y, "replace", NoJournal)]
       /\ UNCHANGED <<disk, lock, anchor>> /\ Still

-----------------------------------------------------------------------------
(* Failures                                                                *)

\* A process dies between two of its system calls.
Crash(x) ==
    /\ Failing /\ proc[x].at \in Live
    /\ proc' = [proc EXCEPT ![x] = Over(x, "dead")]
    /\ lock' = IF platform = "windows" /\ lock.owner = x THEN Free ELSE lock
    /\ UNCHANGED <<platform, disk, anchor>>

\* The owner file cannot be written: the directory is taken back.
OwnerFails(x) ==
    /\ Failing
    /\ proc[x].at = "own" /\ NoLock(x, "Io")
    /\ lock' = IF lock.owner = None THEN Free ELSE lock
    /\ UNCHANGED <<platform, disk, anchor>>

Step(x) ==
    \/ Start(x) \/ MakeLock(x) \/ Judge(x) \/ TakeOver(x) \/ WriteOwner(x) \/ DropLock(x) \/ Load(x)
    \/ Confirm(x) \/ Stage(x) \/ WriteJournal(x) \/ Activate(x) \/ Finalize(x) \/ RestorePrior(x) \/ Return(x)
Next == Age \/ \E x \in Processes : Step(x) \/ Crash(x) \/ OwnerFails(x)

Spec == Init /\ [][Next]_vars

-----------------------------------------------------------------------------
TypeOK ==
    /\ disk.receipt \in Version /\ disk.active \in Version
    /\ lock.owner \in Processes \cup {None} /\ (platform = "unix" /\ lock.owner # None => lock.dir)
    /\ \A x \in Processes : proc[x].at \in Live \cup {"idle", "ended", "dead"}

\* "It rejects ... concurrent activation": one process at a time works on an installation.
Exclusive ==
    \A x, y \in Processes : proc[x].at \in Critical /\ proc[y].at \in Critical => x = y

Quiet == \A x \in Processes : proc[x].at \notin Critical

\* Whatever was interrupted, the next self recover can read what it finds: the receipt, the
\* state and the journal together pass load_context and validate_journal.
Recoverable ==
    Quiet => LoadContext(disk, TRUE) /\ (disk.journal # NoJournal => ValidateJournal(disk, disk.journal))

\* Without a journal the installation is whole: receipt, state and active link name one
\* version, its binary answers, and the anchor against old releases is not below what a
\* command has reported.
Whole ==
    Quiet /\ disk.journal = NoJournal =>
        /\ disk.receipt = disk.active /\ StateOf(disk).active = disk.active
        /\ Healthy(disk.active, disk.receipt) /\ StateOf(disk).highest >= anchor


\* The active version and the receipt move only under a journal that names where they come
\* from and where they go, and the highest sequence goes back only to undo that journal
\* (install.rs install_release, rollback_installation, restore_prior).
JournalFirst ==
    [][LET j == disk.journal IN
       /\ disk'.active # disk.active => j # NoJournal /\ {disk.active, disk'.active} \subseteq {j.old, j.new}
       /\ disk'.receipt # disk.receipt => j # NoJournal /\ {disk.receipt, disk'.receipt} \subseteq {j.old, j.new}
       /\ StateOf(disk').highest < StateOf(disk).highest => j # NoJournal /\ StateOf(disk').highest = j.priorHighest]_vars
=============================================================================
