-------------------------- MODULE FileTransaction --------------------------
(***************************************************************************)
(* The journaled file transaction of crates/ash-platform/src/transaction.rs *)
(* as run by the one caller that holds the transaction locks (module        *)
(* TransactionLock is about the locks): preparation of a request, the       *)
(* journal, its actions applied one file-system step at a time, commit,     *)
(* roll back, recovery of a journal that an earlier call left, and the      *)
(* entry-by-entry removal of the journal directory.                         *)
(*                                                                          *)
(* The process may crash before every step (what is on disk stays, what is  *)
(* in memory is lost), every file-system call may fail, other programs may  *)
(* change the files of the transaction between any two steps, and the       *)
(* caller may cancel or time out wherever the code looks at its control.    *)
(* A step stands for one system call with the fsync that follows it: the    *)
(* fsync has no effect a process crash can reveal, but it may fail after    *)
(* the call took effect.                                                    *)
(***************************************************************************)
EXTENDS Integers, Sequences

CONSTANTS Path,             \* logical paths of workspace files
          NoPath,           \* an action without destination
          Content,          \* file contents; a content stands for its digest
          NoContent,        \* an absent content or expected digest
          Requests,         \* the lists of actions callers ask for
          InitialWorkspaces,\* the contents of the workspace at the start
          FirstInode,       \* the first inode the workspace does not use
          MaxActions,       \* MAX_ACTIONS
          MaxTransactions,  \* bound: calls of file_transaction
          MaxCrashes,       \* bound: process crashes
          MaxFaults,        \* bound: failing file-system calls
          MaxExternal,      \* bound: changes made by other programs
          ExternalAt,       \* bound: the labels at which those changes happen
          Foreign           \* contents that only other programs write

Kind == {"Create", "Copy", "Move", "Remove", "Replace"}

Action == [kind : Kind, path : Path, dest : Path \cup {NoPath},
           expected : Content \cup {NoContent},
           content : Content \cup {NoContent}]

\* A directory entry: the inode it names and the bytes of that inode.
NoFile == [ino |-> 0, c |-> NoContent]
File == [ino : Nat \ {0}, c : Content] \cup {NoFile}
Exists(f) == f # NoFile

ASSUME ConstantsAssumption ==
    /\ NoPath \notin Path
    /\ NoContent \notin Content
    /\ MaxActions \in Nat \ {0}
    /\ \A r \in Requests : r \in Seq(Action)
    /\ InitialWorkspaces \subseteq [Path -> File]
    /\ FirstInode \in Nat \ {0}
    /\ \A w \in InitialWorkspaces, p \in Path : w[p].ino < FirstInode
    /\ {MaxTransactions, MaxCrashes, MaxFaults, MaxExternal} \subseteq Nat
    /\ Foreign \subseteq Content

Index == 1 .. MaxActions
Subdirs == {"stage", "removed"}

VARIABLES
    ws,         \* the workspace: [Path -> File]
    nextIno,    \* the next unused inode
    dir,        \* the journal directory below .ash, and its contents:
    subdirs,    \*   the subdirectories that exist
    stage,      \*   stage/i
    removed,    \*   removed/i
    manifest,   \*   the actions in MANIFEST, <<>> while there is none
    marker,     \*   whether COMMITTED exists
    pc,         \* where the call under the locks is; "idle" without one
    request,    \* the call's actions, <<>> in recover_file_transactions
    acts,       \* the prepared (or recovered) actions
    rows,       \* outcome of each action, <<>> during recovery
    failure,    \* why the transaction fails, "None" so far
    idx,        \* the action being prepared, applied or rolled back
    lost,       \* recovery_required of rollback_locked
    sub,        \* the subdirectory remove_dir_all is inside of, or "none"
    ret,        \* what the last call returned
    before,     \* ghost: contents when the transaction began
    intended,   \* ghost: contents the transaction is to leave
    fate,       \* ghost: "open", or "committed" once COMMITTED was written
    touched,    \* ghost: paths of actions that other programs interfered with
    torn,       \* ghost: a removal of the journal was cut short
    txns, crashes, faults, externals    \* counters for the bounds

disk    == <<ws, nextIno, stage, removed>>
journal == <<dir, subdirs, manifest, marker>>
locals  == <<request, acts, rows, failure, idx, lost, sub>>
ghosts  == <<before, intended, fate, touched, torn>>
budgets == <<txns, crashes, faults, externals>>
vars    == <<disk, journal, pc, locals, ret, ghosts, budgets>>

RowState == {"Skipped", "Committed", "Conflict", "RolledBack",
             "RecoveryRequired"}
Stops    == {"Cancelled", "TimedOut"}
Failure  == Stops \cup {"None", "Conflict", "Filesystem", "RecoveryRequired"}

-----------------------------------------------------------------------------
(* Requests and prepared actions                                           *)

PathsOf(a) == {a.path, a.dest} \ {NoPath}

ShapeValid(a) ==
    /\ (a.dest # NoPath) <=> (a.kind \in {"Copy", "Move"})
    /\ (a.expected # NoContent) <=> (a.kind # "Create")
    /\ (a.content # NoContent) <=> (a.kind \in {"Create", "Replace"})

ValidActions(r) ==
    /\ Len(r) \in 1 .. MaxActions
    /\ \A i \in 1 .. Len(r) : ShapeValid(r[i]) /\ r[i].path # r[i].dest
    /\ \A i, j \in 1 .. Len(r) :
          i # j => PathsOf(r[i]) \cap PathsOf(r[j]) = {}

\* The digest an action leaves behind, and the path it is left at.
Digest(a) == IF a.kind \in {"Create", "Replace"} THEN a.content ELSE a.expected
Target(a) == IF a.dest = NoPath THEN a.path ELSE a.dest

NewFile(c) == [ino |-> nextIno, c |-> c]

-----------------------------------------------------------------------------
(* Returning, failing, and entering the rollback loop                      *)

Outcome(rs, f) == [kind |-> "outcome", rows |-> rs, failure |-> f]
Reply(k)       == [kind |-> k, rows |-> <<>>, failure |-> "None"]

Return(r) ==
    /\ pc' = "idle" /\ ret' = r
    /\ acts' = <<>> /\ rows' = <<>> /\ failure' = "None"
    /\ idx' = 0 /\ lost' = FALSE /\ sub' = "none"
    /\ UNCHANGED request

Fault   == faults < MaxFaults /\ faults' = faults + 1
            /\ UNCHANGED <<txns, crashes, externals>>
NoFault == UNCHANGED budgets

\* Mutant: the last action is forgotten.
StartRollbackBeforeLast(list, rs, f) ==
    /\ acts' = list /\ rows' = rs /\ failure' = f
    /\ idx' = Len(list) - 1 /\ lost' = FALSE /\ pc' = "state"
    /\ UNCHANGED <<request, sub, ret>>

\* rollback_locked starts with the last action.
StartRollback(list, rs, f) ==
    /\ acts' = list /\ rows' = rs /\ failure' = f
    /\ idx' = Len(list) /\ lost' = FALSE /\ pc' = "state"
    /\ UNCHANGED <<request, sub, ret>>

\* The apply loop is left with a failing action and rolls back.
ApplyFails(row, f) == StartRollback(acts, [rows EXCEPT ![idx] = row], f)

ApplyContinues(label) ==
    /\ pc' = label
    /\ UNCHANGED <<request, acts, rows, failure, idx, lost, sub, ret>>

ActionApplied ==
    /\ rows' = [rows EXCEPT ![idx] = "Committed"]
    /\ IF idx < Len(acts) THEN idx' = idx + 1 /\ pc' = "check"
                          ELSE idx' = idx /\ pc' = "commit"
    /\ UNCHANGED <<request, acts, failure, lost, sub, ret>>

-----------------------------------------------------------------------------
(* file_transaction up to the published journal                            *)

View(w) == [p \in Path |-> w[p].c]

AfterView(list, b) ==
    [p \in Path |->
        IF \E i \in 1 .. Len(list) : list[i].kind # "Remove" /\ Target(list[i]) = p
        THEN Digest(list[CHOOSE i \in 1 .. Len(list) : Target(list[i]) = p])
        ELSE IF \E i \in 1 .. Len(list) :
                  list[i].kind \in {"Move", "Remove"} /\ list[i].path = p
             THEN NoContent ELSE b[p]]

Init ==
    /\ ws \in InitialWorkspaces
    /\ nextIno = FirstInode
    /\ dir = "none" /\ subdirs = {} /\ manifest = <<>> /\ marker = FALSE
    /\ stage = [i \in Index |-> NoFile] /\ removed = [i \in Index |-> NoFile]
    /\ pc = "idle" /\ request = <<>> /\ acts = <<>> /\ rows = <<>>
    /\ failure = "None" /\ idx = 0 /\ lost = FALSE /\ sub = "none"
    /\ ret = Reply("none")
    /\ before = View(ws) /\ intended = View(ws) /\ fate = "open"
    /\ touched = {} /\ torn = FALSE
    /\ txns = 0 /\ crashes = 0 /\ faults = 0 /\ externals = 0

\* file_transaction is called: the request is validated before anything else.
Begin(r) ==
    /\ pc = "idle" /\ txns < MaxTransactions /\ txns' = txns + 1
    /\ request' = r
    /\ IF ValidActions(r) THEN pc' = "recover" /\ ret' = Reply("running")
                          ELSE pc' = "idle" /\ ret' = Reply("error")
    /\ UNCHANGED <<disk, journal, acts, rows, failure, idx, lost, sub, ghosts,
                   crashes, faults, externals>>

\* recover_file_transactions is called; without a journal it has no effect.
BeginRecovery ==
    /\ pc = "idle" /\ dir # "none"
    /\ pc' = "recover" /\ request' = <<>> /\ ret' = Reply("running")
    /\ UNCHANGED <<disk, journal, acts, rows, failure, idx, lost, sub, ghosts,
                   budgets>>

\* recover_locked returned without error: the call goes on or is over.
Recovered ==
    IF request = <<>> THEN Return(Reply("recovered"))
    ELSE /\ pc' = "setup" /\ acts' = <<>> /\ rows' = <<>> /\ idx' = 0
         /\ sub' = "none" /\ UNCHANGED <<request, failure, lost, ret>>

\* remove_dir_all of the directory "preparing", whose entries nobody reads.
DropPreparing ==
    /\ dir' = "none" /\ subdirs' = {} /\ manifest' = <<>> /\ marker' = FALSE
    /\ stage' = [i \in Index |-> NoFile] /\ removed' = [i \in Index |-> NoFile]
    /\ UNCHANGED <<ws, nextIno>>

JournalReadable == subdirs = Subdirs /\ manifest # <<>>

\* recover_locked up to its decision what to do with the journal.
Recover ==
    /\ pc = "recover" /\ UNCHANGED ghosts
    /\ \/ /\ dir # "transaction" /\ NoFault
          /\ DropPreparing /\ Recovered
       \/ /\ dir = "transaction" /\ ~JournalReadable /\ NoFault
          /\ Return(Reply("error")) /\ UNCHANGED <<disk, journal>>
       \/ /\ dir = "transaction" /\ JournalReadable /\ marker /\ NoFault
          /\ pc' = "clean" /\ acts' = manifest
          /\ UNCHANGED <<disk, journal, request, rows, failure, idx, lost,
                         sub, ret>>
       \/ /\ dir = "transaction" /\ JournalReadable /\ ~marker /\ NoFault
          /\ StartRollback(manifest, <<>>, "None") /\ UNCHANGED <<disk, journal>>
       \/ /\ dir # "none" /\ Fault
          /\ Return(Reply("error")) /\ UNCHANGED <<disk, journal>>

\* A fresh "preparing" directory with its two subdirectories.
Setup ==
    /\ pc = "setup"
    /\ before' = View(ws) /\ intended' = AfterView(request, View(ws))
    /\ fate' = "open" /\ touched' = {} /\ torn' = FALSE
    /\ UNCHANGED <<disk, manifest, marker>>
    /\ \/ /\ NoFault /\ dir' = "preparing" /\ subdirs' = Subdirs
          /\ pc' = "prepare" /\ acts' = request /\ idx' = 1
          /\ rows' = [i \in 1 .. Len(request) |-> "Skipped"]
          /\ UNCHANGED <<request, failure, lost, sub, ret>>
       \/ /\ Fault /\ Return(Reply("error"))
          /\ \/ UNCHANGED <<dir, subdirs>>
             \/ dir' = "preparing" /\ subdirs' \in SUBSET Subdirs

\* The checks of prepare_action, in the order of the code.
PrepareVerdict(a) ==
    IF a.kind \in {"Create", "Copy", "Move"} /\ Exists(ws[Target(a)])
    THEN "conflict"
    ELSE IF a.kind = "Create" THEN "ok"
    ELSE IF ~Exists(ws[a.path]) THEN "error"
    ELSE IF ws[a.path].c # a.expected THEN "conflict" ELSE "ok"

\* The transaction ends before its journal is published.
Abandon(r) ==
    \/ NoFault /\ DropPreparing /\ Return(r)
    \/ Fault /\ Return(Reply("error")) /\ UNCHANGED <<disk, journal>>

\* prepare_action: a new content, or a copy of the source, goes to stage/idx;
\* the file a Replace will overwrite is copied to removed/idx.
Prepare ==
    LET a == acts[idx]
        v == PrepareVerdict(a)
        stages == a.kind \in {"Create", "Copy", "Replace"}
    IN
    /\ pc = "prepare" /\ UNCHANGED ghosts
    /\ \/ /\ v = "ok" /\ NoFault
          /\ stage' = [stage EXCEPT ![idx] =
                          IF stages THEN NewFile(Digest(a)) ELSE NoFile]
          /\ removed' = [removed EXCEPT ![idx] =
                            IF a.kind = "Replace"
                            THEN [ino |-> nextIno + 1, c |-> a.expected]
                            ELSE NoFile]
          /\ nextIno' = nextIno + (IF stages THEN 1 ELSE 0)
                                + (IF a.kind = "Replace" THEN 1 ELSE 0)
          /\ IF idx < Len(acts) THEN idx' = idx + 1 /\ pc' = "prepare"
                                ELSE idx' = 1 /\ pc' = "publish"
          /\ UNCHANGED <<ws, journal, request, acts, rows, failure, lost, sub,
                         ret>>
       \/ \E f \in Stops : Abandon(Outcome(rows, f))
       \/ /\ v = "conflict"
          /\ Abandon(Outcome([rows EXCEPT ![idx] = "Conflict"], "Conflict"))
       \/ v = "error" /\ Abandon(Reply("error"))
       \/ /\ Fault /\ Return(Reply("error"))
          /\ DropPreparing

\* MANIFEST is written into "preparing", which is renamed to "transaction".
\* Every error here is returned as it is and leaves the directory behind.
Publish ==
    /\ pc = "publish" /\ UNCHANGED <<disk, ghosts, subdirs, marker>>
    /\ \/ /\ NoFault /\ dir' = "transaction" /\ manifest' = acts
          /\ ApplyContinues("check")
       \/ /\ Fault /\ Return(Reply("error"))
          /\ \/ UNCHANGED <<dir, manifest>>
             \/ dir' = "transaction" /\ manifest' = acts

-----------------------------------------------------------------------------
(* The apply loop and commit                                               *)

\* The checks at the head of apply_action. Those of a Replace stand for the
\* last of them, the one compare_and_swap_replace_inner makes before its
\* rename: the earlier ones have the same verdicts on the same grounds.
ApplyVerdict(a, st) ==
    LET source == ws[a.path] IN
    IF a.kind \in {"Create", "Copy"}
    THEN IF Exists(ws[Target(a)]) THEN "conflict"
         ELSE IF st.c # Digest(a) THEN "error" ELSE "ok"
    ELSE IF ~Exists(source) THEN "error"
    ELSE IF source.c # a.expected THEN "conflict"
    ELSE IF a.kind = "Move" /\ Exists(ws[a.dest]) THEN "conflict"
    ELSE IF a.kind = "Replace" /\ st.c # Digest(a) THEN "error" ELSE "ok"

ApplyCheck ==
    LET v == ApplyVerdict(acts[idx], stage[idx]) IN
    /\ pc = "check" /\ UNCHANGED <<disk, journal, ghosts>>
    /\ \/ v = "ok" /\ NoFault /\ ApplyContinues("mutate")
       \/ v = "conflict" /\ NoFault /\ ApplyFails("Conflict", "Conflict")
       \/ v = "error" /\ NoFault /\ ApplyFails("RecoveryRequired", "Filesystem")
       \/ \E f \in Stops : NoFault /\ ApplyFails("Skipped", f)
       \/ Fault /\ ApplyFails("RecoveryRequired", "Filesystem")

\* A system call of apply_action: it takes effect and the action goes on, it
\* fails, or it takes effect and the fsync after it fails.
Applies(effect, continue) ==
    \/ effect /\ NoFault /\ continue
    \/ UNCHANGED disk /\ Fault /\ ApplyFails("RecoveryRequired", "Filesystem")
    \/ effect /\ Fault /\ ApplyFails("RecoveryRequired", "Filesystem")

\* hard_link never replaces an entry. When it fails, hard_link_error looks
\* whether that is because the destination exists now.
ApplyLink ==
    LET a == acts[idx]
        linked == IF a.kind = "Move" THEN ws[a.path] ELSE stage[idx]
    IN
    /\ pc = "mutate" /\ a.kind \in {"Create", "Copy", "Move"}
    /\ UNCHANGED <<journal, ghosts>>
    /\ IF Exists(ws[Target(a)])
       THEN /\ NoFault /\ UNCHANGED disk
            /\ \/ ApplyFails("Conflict", "Conflict")
               \/ \E f \in Stops : ApplyFails("Skipped", f)
       ELSE IF ~Exists(linked)
       THEN NoFault /\ UNCHANGED disk /\ ApplyFails("RecoveryRequired", "Filesystem")
       ELSE Applies(/\ ws' = [ws EXCEPT ![Target(a)] = linked]
                    /\ UNCHANGED <<nextIno, stage, removed>>,
                    ApplyContinues("unlink"))

ApplyRename ==
    LET a == acts[idx] IN
    /\ pc = "mutate" /\ a.kind = "Remove"
    /\ UNCHANGED <<journal, ghosts>>
    /\ IF ~Exists(ws[a.path])
       THEN NoFault /\ UNCHANGED disk /\ ApplyFails("RecoveryRequired", "Filesystem")
       ELSE Applies(/\ removed' = [removed EXCEPT ![idx] = ws[a.path]]
                    /\ ws' = [ws EXCEPT ![a.path] = NoFile]
                    /\ UNCHANGED <<nextIno, stage>>,
                    ActionApplied)

\* The rename of compare_and_swap_replace_inner overwrites what is there. An
\* error of the atomic write is judged by the content found afterwards.
ApplySwap ==
    LET a == acts[idx]
        f == ws[a.path]
        swap == /\ ws' = [ws EXCEPT ![a.path] = NewFile(Digest(a))]
                /\ nextIno' = nextIno + 1 /\ UNCHANGED <<stage, removed>>
    IN
    /\ pc = "mutate" /\ a.kind = "Replace"
    /\ UNCHANGED <<journal, ghosts>>
    /\ \/ swap /\ NoFault /\ ApplyContinues("unlink")
       \/ /\ UNCHANGED disk /\ Fault
          /\ IF f.c = Digest(a) THEN ApplyContinues("unlink")
             ELSE IF f.c \in {a.expected, NoContent}
             THEN ApplyFails("RecoveryRequired", "Filesystem")
             ELSE ApplyFails("Conflict", "Conflict")
       \/ swap /\ Fault /\ ApplyFails("RecoveryRequired", "Filesystem")

\* The second system call: the staged name, or the source of a Move, goes.
ApplyUnlink ==
    LET a == acts[idx] IN
    /\ pc = "unlink"
    /\ UNCHANGED <<journal, ghosts>>
    /\ IF a.kind = "Move" /\ ~Exists(ws[a.path])
       THEN NoFault /\ UNCHANGED disk /\ ApplyFails("RecoveryRequired", "Filesystem")
       ELSE Applies(/\ UNCHANGED <<nextIno, removed>>
                    /\ IF a.kind = "Move"
                       THEN ws' = [ws EXCEPT ![a.path] = NoFile] /\ UNCHANGED stage
                       ELSE stage' = [stage EXCEPT ![idx] = NoFile] /\ UNCHANGED ws,
                    ActionApplied)

\* The last look at the control, then COMMITTED. A marker that was not
\* written rolls back; one whose fsync failed leaves everything to recovery.
Commit ==
    /\ pc = "commit"
    /\ UNCHANGED <<disk, dir, subdirs, manifest, before, intended, touched, torn>>
    /\ \/ /\ marker' = TRUE /\ fate' = "committed" /\ NoFault
          /\ pc' = "clean" /\ UNCHANGED <<locals, ret>>
       \/ /\ UNCHANGED <<marker, fate>> /\ NoFault
          /\ \E f \in Stops : StartRollback(acts, rows, f)
       \/ /\ UNCHANGED <<marker, fate>> /\ Fault
          /\ StartRollback(acts, rows, "Filesystem")
       \/ /\ marker' = TRUE /\ fate' = "committed" /\ Fault
          /\ Return(Outcome([i \in 1 .. Len(rows) |-> "RecoveryRequired"],
                            "RecoveryRequired"))

-----------------------------------------------------------------------------
(* rollback_locked, in file_transaction and in recovery                    *)

\* Mutant: the state between the link and the unlink is not recognised.
AppliedStateWithoutLinked(a, i) ==
    LET source == ws[a.path]
        target == ws[Target(a)]
    IN
    CASE a.kind \in {"Create", "Copy"} ->
            IF ~Exists(target) THEN "NotApplied"
            ELSE IF ~Exists(stage[i]) /\ target.c = Digest(a) THEN "Applied"
            ELSE "Indeterminate"
      [] a.kind = "Move" ->
            IF Exists(source) /\ ~Exists(target) THEN "NotApplied"
            ELSE IF ~Exists(source) /\ target.c = Digest(a) THEN "Applied"
            ELSE "Indeterminate"
      [] a.kind = "Remove" ->
            IF Exists(source) THEN "NotApplied" ELSE "Applied"
      [] a.kind = "Replace" ->
            IF target.c = Digest(a) THEN "Applied" ELSE "NotApplied"

\* applied_state: what the directory entries of action i say about it.
AppliedState(a, i) ==
    LET source == ws[a.path]
        target == ws[Target(a)]
        st == stage[i]
        rm == removed[i]
        Linked(f, g) == f.c = Digest(a) /\ f.ino = g.ino
    IN
    CASE a.kind \in {"Create", "Copy"} ->
            IF ~Exists(target) THEN "NotApplied"
            ELSE IF Exists(st) /\ Linked(st, target) THEN "Linked"
            ELSE IF ~Exists(st) /\ target.c = Digest(a) THEN "Applied"
            ELSE "Indeterminate"
      [] a.kind = "Move" ->
            IF Exists(source) /\ ~Exists(target) THEN "NotApplied"
            ELSE IF Exists(source) /\ Linked(source, target) THEN "Linked"
            ELSE IF ~Exists(source) /\ target.c = Digest(a) THEN "Applied"
            ELSE "Indeterminate"
      [] a.kind = "Remove" ->
            IF Exists(source) /\ ~Exists(rm) THEN "NotApplied"
            ELSE IF ~Exists(source) /\ rm.c = Digest(a) THEN "Applied"
            ELSE "Indeterminate"
      [] a.kind = "Replace" ->
            IF Exists(rm) /\ rm.c = a.expected /\ target.c = Digest(a)
            THEN "Applied"
            ELSE IF (Exists(rm) => rm.c = a.expected) /\ target.c = a.expected
            THEN "NotApplied" ELSE "Indeterminate"

\* Mutant: the loop does not advance.
NextUndoInPlace(rs, l) ==
    /\ rows' = rs /\ lost' = l /\ idx' = idx /\ pc' = "state"
    /\ UNCHANGED <<request, acts, failure, sub, ret>>

\* The loop of rollback_locked takes the next action, or ends.
NextUndo(rs, l) ==
    /\ rows' = rs /\ lost' = l /\ idx' = idx - 1 /\ pc' = "state"
    /\ UNCHANGED <<request, acts, failure, sub, ret>>

RowSet(row) == IF rows = <<>> THEN rows ELSE [rows EXCEPT ![idx] = row]
Undone      == NextUndo(RowSet("RolledBack"), lost)

\* Mutant: the row of an action that could not be undone claims it was.
UndoFailsSilently == NextUndo(RowSet("RolledBack"), TRUE)

UndoFails == NextUndo(RowSet("RecoveryRequired"), TRUE)

RollbackState ==
    LET s == AppliedState(acts[idx], idx)
        known == rows # <<>> /\ rows[idx] \in {"Conflict", "Skipped"}
    IN
    /\ pc = "state" /\ idx > 0 /\ UNCHANGED <<disk, journal, ghosts>>
    /\ \/ known /\ NoFault /\ NextUndo(rows, lost)
       \/ ~known /\ s = "NotApplied" /\ NoFault /\ Undone
       \/ ~known /\ s = "Indeterminate" /\ NoFault /\ UndoFails
       \/ ~known /\ s \in {"Applied", "Linked"} /\ NoFault /\ ApplyContinues("undo")
       \/ ~known /\ Fault /\ UndoFails

\* Mutant: the failure is not turned into RecoveryRequired.
RollbackDoneKeepsFailure ==
    /\ pc = "state" /\ idx = 0 /\ NoFault /\ UNCHANGED <<disk, journal, ghosts>>
    /\ IF ~lost THEN ApplyContinues("clean")
       ELSE Return(IF rows = <<>> THEN Reply("error") ELSE Outcome(rows, failure))

\* After the last action: leave the journal to a later recovery, or remove it.
RollbackDone ==
    /\ pc = "state" /\ idx = 0 /\ NoFault /\ UNCHANGED <<disk, journal, ghosts>>
    /\ IF ~lost THEN ApplyContinues("clean")
       ELSE Return(IF rows = <<>> THEN Reply("error")
                   ELSE Outcome(rows, "RecoveryRequired"))

\* Mutant: applied_state is trusted, nothing is looked at again.
UndoAllowedAlways(a, i) == TRUE

\* rollback_action looks at the entries again before it changes one.
UndoAllowed(a, i) ==
    LET source == ws[a.path]
        target == ws[Target(a)]
    IN
    CASE a.kind \in {"Create", "Copy"} ->
            /\ target.c = Digest(a)
            /\ Exists(stage[i]) => stage[i].ino = target.ino
      [] a.kind = "Move" ->
            IF Exists(source) THEN source.c = Digest(a) /\ source.ino = target.ino
                              ELSE target.c = Digest(a)
      [] a.kind = "Remove"  -> ~Exists(source) /\ removed[i].c = Digest(a)
      [] a.kind = "Replace" -> target.c = Digest(a) /\ removed[i].c = a.expected

\* Mutant: the destination of a Move is deleted without linking it back.
UndoStepUnlinksMove(a) ==
    CASE a.kind \in {"Create", "Copy", "Move"} -> "unlinkTarget"
      [] a.kind = "Remove" -> "restore"
      [] a.kind = "Replace" -> "swapBack"

UndoStep(a) ==
    CASE a.kind \in {"Create", "Copy"} -> "unlinkTarget"
      [] a.kind = "Move" -> IF Exists(ws[a.path]) THEN "unlinkTarget" ELSE "relink"
      [] a.kind = "Remove" -> "restore"
      [] a.kind = "Replace" -> "swapBack"

UndoCheck ==
    LET a == acts[idx] IN
    /\ pc = "undo" /\ UNCHANGED <<disk, journal, ghosts>>
    /\ \/ UndoAllowed(a, idx) /\ NoFault /\ ApplyContinues(UndoStep(a))
       \/ ~UndoAllowed(a, idx) /\ NoFault /\ UndoFails
       \/ Fault /\ UndoFails

\* A system call of rollback_action, with the fsync after it.
Undoes(effect, continue) ==
    \/ effect /\ NoFault /\ continue
    \/ UNCHANGED disk /\ Fault /\ UndoFails
    \/ effect /\ Fault /\ UndoFails

UndoUnlink ==
    LET target == Target(acts[idx]) IN
    /\ pc = "unlinkTarget" /\ UNCHANGED <<journal, ghosts>>
    /\ IF ~Exists(ws[target]) THEN NoFault /\ UNCHANGED disk /\ UndoFails
       ELSE Undoes(/\ ws' = [ws EXCEPT ![target] = NoFile]
                   /\ UNCHANGED <<nextIno, stage, removed>>, Undone)

UndoRelink ==
    LET a == acts[idx] IN
    /\ pc = "relink" /\ UNCHANGED <<journal, ghosts>>
    /\ IF Exists(ws[a.path]) \/ ~Exists(ws[a.dest])
       THEN NoFault /\ UNCHANGED disk /\ UndoFails
       ELSE Undoes(/\ ws' = [ws EXCEPT ![a.path] = ws[a.dest]]
                   /\ UNCHANGED <<nextIno, stage, removed>>,
                   ApplyContinues("unlinkTarget"))

UndoRestore ==
    /\ pc = "restore" /\ UNCHANGED <<journal, ghosts>>
    /\ Undoes(/\ ws' = [ws EXCEPT ![acts[idx].path] = removed[idx]]
              /\ removed' = [removed EXCEPT ![idx] = NoFile]
              /\ UNCHANGED <<nextIno, stage>>, Undone)

UndoSwap ==
    LET a == acts[idx]
        swap == /\ ws' = [ws EXCEPT ![a.path] = NewFile(a.expected)]
                /\ nextIno' = nextIno + 1 /\ UNCHANGED <<stage, removed>>
    IN
    /\ pc = "swapBack" /\ UNCHANGED <<journal, ghosts>>
    /\ \/ swap /\ NoFault /\ ApplyContinues("dropRemoved")
       \/ /\ UNCHANGED disk /\ Fault
          /\ IF ws[a.path].c = a.expected THEN ApplyContinues("dropRemoved")
                                          ELSE UndoFails
       \/ swap /\ Fault /\ UndoFails

UndoDropRemoved ==
    /\ pc = "dropRemoved" /\ UNCHANGED <<journal, ghosts>>
    /\ Undoes(/\ removed' = [removed EXCEPT ![idx] = NoFile]
              /\ UNCHANGED <<ws, nextIno, stage>>, ApplyContinues("dropStage"))

UndoDropStage ==
    /\ pc = "dropStage" /\ UNCHANGED <<journal, ghosts>>
    /\ Undoes(/\ stage' = [stage EXCEPT ![idx] = NoFile]
              /\ UNCHANGED <<ws, nextIno, removed>>, Undone)

-----------------------------------------------------------------------------
(* remove_dir_all of the directory "transaction": the entries go one by    *)
(* one, in whatever order the directory lists them                         *)

\* What the caller of remove_directory_if_present does next. Only the commit
\* path ignores an error of the removal.
Removed(error) ==
    IF rows = <<>>
    THEN IF error THEN Return(Reply("error")) ELSE Recovered
    ELSE Return(IF error /\ failure # "None" THEN Reply("error")
                ELSE Outcome(rows, failure))

CleanEntry ==
    /\ pc = "clean" /\ sub = "none" /\ NoFault
    /\ UNCHANGED <<disk, dir, subdirs, pc, request, acts, rows, failure, idx,
                   lost, ret, ghosts>>
    /\ \/ manifest # <<>> /\ manifest' = <<>> /\ UNCHANGED <<marker, sub>>
       \/ marker /\ marker' = FALSE /\ UNCHANGED <<manifest, sub>>
       \/ sub' \in subdirs /\ UNCHANGED <<manifest, marker>>

CleanSubdirectory ==
    /\ pc = "clean" /\ NoFault
    /\ UNCHANGED <<ws, nextIno, dir, manifest, marker, pc, request, acts, rows,
                   failure, idx, lost, ret, ghosts>>
    /\ \/ /\ sub = "stage" /\ UNCHANGED <<removed, subdirs, sub>>
          /\ \E i \in Index : Exists(stage[i]) /\ stage' = [stage EXCEPT ![i] = NoFile]
       \/ /\ sub = "removed" /\ UNCHANGED <<stage, subdirs, sub>>
          /\ \E i \in Index : Exists(removed[i]) /\ removed' = [removed EXCEPT ![i] = NoFile]
       \/ /\ sub = "stage" => \A i \in Index : ~Exists(stage[i])
          /\ sub = "removed" => \A i \in Index : ~Exists(removed[i])
          /\ sub # "none" /\ subdirs' = subdirs \ {sub} /\ sub' = "none"
          /\ UNCHANGED <<stage, removed>>

CleanDone ==
    /\ pc = "clean" /\ sub = "none"
    /\ manifest = <<>> /\ ~marker /\ subdirs = {} /\ dir' = "none"
    /\ \/ NoFault /\ Removed(FALSE)
       \/ Fault /\ Removed(TRUE)
    /\ UNCHANGED <<disk, subdirs, manifest, marker, ghosts>>

\* The journal no longer says what recover_locked needs to know.
Damaged == ~JournalReadable \/ (fate = "committed" /\ ~marker)

CleanFails ==
    /\ pc = "clean" /\ Fault /\ Removed(TRUE)
    /\ torn' = (torn \/ Damaged)
    /\ UNCHANGED <<disk, journal, before, intended, fate, touched>>

-----------------------------------------------------------------------------
(* The environment                                                         *)

\* The process dies: the locks and its memory go, the disk stays.
Crash ==
    /\ pc # "idle" /\ crashes < MaxCrashes /\ crashes' = crashes + 1
    /\ pc' = "idle" /\ ret' = Reply("crashed")
    /\ request' = <<>> /\ acts' = <<>> /\ rows' = <<>>
    /\ failure' = "None" /\ idx' = 0 /\ lost' = FALSE /\ sub' = "none"
    /\ torn' = (torn \/ (pc = "clean" /\ Damaged))
    /\ UNCHANGED <<disk, journal, before, intended, fate, touched,
                   txns, faults, externals>>

WriteInPlace(f, p, c) == IF f.ino = ws[p].ino THEN [f EXCEPT !.c = c] ELSE f

\* Another program deletes, replaces, creates or writes a file that an action
\* of the running or interrupted transaction is about.
External(p) ==
    LET list == IF acts # <<>> THEN acts ELSE manifest IN
    /\ pc \in ExternalAt /\ externals < MaxExternal /\ externals' = externals + 1
    /\ \E i \in 1 .. Len(list) :
          p \in PathsOf(list[i]) /\ touched' = touched \cup PathsOf(list[i])
    /\ \/ /\ Exists(ws[p]) /\ ws' = [ws EXCEPT ![p] = NoFile]
          /\ UNCHANGED <<nextIno, stage, removed>>
       \/ /\ \E c \in Content : ws' = [ws EXCEPT ![p] = NewFile(c)]
          /\ nextIno' = nextIno + 1 /\ UNCHANGED <<stage, removed>>
       \/ \E c \in Content :
          /\ Exists(ws[p]) /\ ws[p].c # c /\ UNCHANGED nextIno
          /\ ws' = [q \in Path |-> WriteInPlace(ws[q], p, c)]
          /\ stage' = [i \in Index |-> WriteInPlace(stage[i], p, c)]
          /\ removed' = [i \in Index |-> WriteInPlace(removed[i], p, c)]
    /\ UNCHANGED <<journal, pc, locals, ret, before, intended, fate, torn,
                   txns, crashes, faults>>

\* The steps of a call once it holds the locks.
Step ==
    \/ Recover \/ Setup \/ Prepare \/ Publish
    \/ ApplyCheck \/ ApplyLink \/ ApplyRename \/ ApplySwap \/ ApplyUnlink \/ Commit
    \/ RollbackState \/ RollbackDone \/ UndoCheck \/ UndoUnlink \/ UndoRelink
    \/ UndoRestore \/ UndoSwap \/ UndoDropRemoved \/ UndoDropStage
    \/ CleanEntry \/ CleanSubdirectory \/ CleanDone \/ CleanFails

Next ==
    \/ \E r \in Requests : Begin(r)
    \/ BeginRecovery
    \/ Step
    \/ Crash
    \/ \E p \in Path : External(p)

Spec == Init /\ [][Next]_vars

\* A call that runs keeps running, and an interrupted workspace is recovered
\* by a later call.
FairSpec == Spec /\ WF_vars(Step) /\ WF_vars(BeginRecovery)

-----------------------------------------------------------------------------
(* Properties                                                              *)

Labels == {"idle", "recover", "setup", "prepare", "publish", "check", "mutate",
           "unlink", "commit", "state", "undo", "unlinkTarget", "relink",
           "restore", "swapBack", "dropRemoved", "dropStage", "clean"}

ReplyType == [kind : {"none", "running", "error", "recovered", "crashed", "outcome"},
              rows : Seq(RowState), failure : Failure]

\* Labels at which the code indexes the rows of the running transaction, and
\* those at which it indexes the actions it rolls back.
Applying    == {"prepare", "publish", "check", "mutate", "unlink", "commit"}
RollingBack == {"undo", "unlinkTarget", "relink", "restore", "swapBack",
                "dropRemoved", "dropStage"}

\* Every variable of the executor, the journal and the ghosts has its type,
\* and the loop index of file_transaction and rollback_locked is in range
\* wherever the code indexes an action or a row with it.
TypeOK ==
    /\ ws \in [Path -> File] /\ nextIno \in Nat \ {0}
    /\ dir \in {"none", "preparing", "transaction"} /\ subdirs \subseteq Subdirs
    /\ stage \in [Index -> File] /\ removed \in [Index -> File]
    /\ manifest \in Seq(Action) /\ Len(manifest) <= MaxActions
    /\ marker \in BOOLEAN
    /\ pc \in Labels /\ request \in Seq(Action)
    /\ acts \in Seq(Action) /\ Len(acts) <= MaxActions
    /\ rows \in Seq(RowState) /\ failure \in Failure
    /\ idx \in 0 .. MaxActions /\ lost \in BOOLEAN
    /\ sub \in Subdirs \cup {"none"} /\ ret \in ReplyType
    /\ before \in [Path -> Content \cup {NoContent}]
    /\ intended \in [Path -> Content \cup {NoContent}]
    /\ fate \in {"open", "committed"} /\ touched \subseteq Path
    /\ torn \in BOOLEAN
    /\ txns \in Nat /\ crashes \in Nat /\ faults \in Nat /\ externals \in Nat
    /\ pc # "idle" => request = <<>> \/ ValidActions(request)
    /\ pc \in {"idle", "recover", "setup"} => rows = <<>>
    /\ pc = "setup" => request # <<>>
    /\ pc \in Applying \cup RollingBack => idx \in 1 .. Len(acts)
    /\ pc \in Applying => Len(rows) = Len(acts)
    /\ pc = "state" => idx \in 0 .. Len(acts)
    /\ rows # <<>> => Len(rows) = Len(acts)

Rest == pc = "idle" /\ dir # "transaction"

\* All or nothing. Whenever no call runs and no journal is left, every file
\* that other programs left alone is as before the last transaction, or as
\* that transaction intended if its COMMITTED marker was ever written: after
\* any crash, failing call, cancellation or number of recoveries, provided no
\* removal of the journal directory was cut short half way.
Atomic ==
    Rest /\ ~torn =>
        \A p \in Path \ touched :
            ws[p].c = (IF fate = "committed" THEN intended ELSE before)[p]

\* Recovery never gets stuck by itself. In every state a crash can expose,
\* applied_state can tell for each action of an uncommitted journal whether
\* it was applied, unless another program changed the files of that action.
Recoverable ==
    dir = "transaction" /\ fate = "open" /\ manifest # <<>> =>
        \A i \in 1 .. Len(manifest) :
            PathsOf(manifest[i]) \cap touched = {}
                => AppliedState(manifest[i], i) # "Indeterminate"

\* A row tells the caller the truth about the disk: a file whose row says
\* Skipped, Conflict or RolledBack is as before, one whose row says Committed
\* is as intended.
RowsTruthful ==
    pc = "idle" /\ ret.kind = "outcome" =>
        \A i \in 1 .. Len(ret.rows) :
            LET a == request[i]
                untouched == PathsOf(a) \cap touched = {}
            IN
            untouched =>
                \A p \in PathsOf(a) :
                    /\ ret.rows[i] = "Committed" => ws[p].c = intended[p]
                    /\ ret.rows[i] \in {"Skipped", "Conflict", "RolledBack"}
                          => ws[p].c = before[p]

\* The outcome a caller gets is consistent in itself and with the journal: no
\* row says Committed unless all do and COMMITTED was written; RecoveryRequired
\* is reported exactly when some row says so, and then a readable journal was
\* kept for the next call; every other failure leaves nothing committed and no
\* published journal behind.
OutcomeConsistent ==
    pc = "idle" /\ ret.kind = "outcome" =>
        LET Some(row) == \E i \in 1 .. Len(ret.rows) : ret.rows[i] = row IN
        /\ Some("RecoveryRequired") <=> ret.failure = "RecoveryRequired"
        /\ Some("Committed") <=> ret.failure = "None"
        /\ ret.failure = "None" =>
              /\ fate = "committed"
              /\ \A i \in 1 .. Len(ret.rows) : ret.rows[i] = "Committed"
        /\ ret.failure = "RecoveryRequired" => dir = "transaction" /\ JournalReadable
        /\ ret.failure \notin {"None", "RecoveryRequired"} =>
              fate = "open" /\ dir # "transaction"

\* A conflict that is reported names a row: the answer to the agent, which must
\* show one, can always be built (make_response of filesystem.rs and patch.rs).
ConflictShown ==
    ret.kind = "outcome" /\ ret.failure = "Conflict" => \E i \in 1 .. Len(ret.rows) : ret.rows[i] = "Conflict"

\* The five together, and that every variable keeps its type: what the executor
\* and the recovery of transaction.rs owe whatever happens around them.
Sound == TypeOK /\ Atomic /\ Recoverable /\ RowsTruthful /\ OutcomeConsistent /\ ConflictShown

\* Content that only other programs write is never deleted or overwritten by
\* a step of a transaction or of a recovery, when they write it at any moment
\* but the instant between the last look at a file and the system call that
\* changes it.
ForeignKept ==
    [][externals' = externals =>
          \A p \in Path : ws[p].c \in Foreign => ws'[p] = ws[p]]_vars

\* "A durable commit marker makes cleanup retryable. Cleanup failure does not
\* change the committed outcome": Atomic for committed transactions, with no
\* proviso about the removal of the journal.
CommitIsFinal ==
    Rest /\ fate = "committed" => \A p \in Path \ touched : ws[p].c = intended[p]

\* "Completed rollback states are recognized after another interruption, so
\* recovery is reentrant": recover_locked can read every journal it finds.
RecoveryReentrant ==
    pc = "recover" /\ dir = "transaction" => JournalReadable

\* Every call returns.
CallsReturn == pc # "idle" ~> pc = "idle"

\* A published journal does not stay: a later call rolls it back or finishes
\* it, unless other programs interfered or its removal was cut short.
JournalSettles == dir = "transaction" ~> (dir # "transaction" \/ touched # {} \/ torn)
=============================================================================
