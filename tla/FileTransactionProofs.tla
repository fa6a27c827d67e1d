------------------------ MODULE FileTransactionProofs -----------------------
(***************************************************************************)
(* Type correctness of FileTransaction, and what a caller may conclude from *)
(* its outcome, for any number of actions, transactions, crashes, failing   *)
(* calls and changes made by other programs: the type invariant, the lemmas *)
(* about the helpers the actions share, the actions of file_transaction in  *)
(* their order, and the theorem; then the same for RowsInv, which says what *)
(* the rows, the failure and the journal are at every label of the code.    *)
(***************************************************************************)
EXTENDS FileTransaction, SequenceTheorems, TLAPS

\* Only a Move is undone with a link back, only a Replace with a swap.
UndoKind(label) ==
    /\ label = "relink" => acts[idx].kind = "Move"
    /\ label = "swapBack" => acts[idx].kind = "Replace"

\* The action lists in memory and in the journal passed validate_actions, and
\* the steps of rollback_action are those of the action at hand.
Shapes ==
    /\ acts # <<>> => ValidActions(acts)
    /\ manifest # <<>> => ValidActions(manifest)
    /\ UndoKind(pc)

\* The inductive invariant behind TypeOK.
TypeInv == TypeOK /\ Shapes

\* The bound on the number of actions is a number.
LEMMA Bounds == MaxActions \in Nat /\ MaxActions >= 1
BY ConstantsAssumption DEF ConstantsAssumption

\* The content an action writes, and the one a Replace restores, exist.
LEMMA ContentsExist ==
    ASSUME NEW r \in Seq(Action), ValidActions(r), NEW i \in 1 .. Len(r)
    PROVE  /\ r[i] \in Action
           /\ Digest(r[i]) \in Content
           /\ r[i].kind = "Replace" => r[i].expected \in Content
           /\ r[i].kind = "Move" => r[i].dest \in Path
           /\ Target(r[i]) \in Path
<1>1. NoPath \notin Path /\ NoContent \notin Content
    BY ConstantsAssumption DEF ConstantsAssumption
<1>2. r[i] \in Action
    OBVIOUS
<1>3. ShapeValid(r[i])
    BY DEF ValidActions
<1> QED
    BY <1>1, <1>2, <1>3 DEF ShapeValid, Action, Kind, Digest, Target

\* The initial states, where no call runs and no journal exists, are typed.
LEMMA TypeInit == Init => TypeInv
<1> SUFFICES ASSUME Init PROVE TypeInv
    OBVIOUS
<1> USE ConstantsAssumption DEF ConstantsAssumption, Init
<1>1. ws \in [Path -> File] /\ NoFile \in File
    BY DEF File
<1>2. View(ws) \in [Path -> Content \cup {NoContent}]
    BY <1>1 DEF View, File, NoFile
<1>3. stage \in [Index -> File] /\ removed \in [Index -> File]
    BY <1>1
<1>4. <<>> \in Seq(Action) /\ <<>> \in Seq(RowState) /\ Len(<<>>) = 0
    OBVIOUS
<1>5. ret \in ReplyType
    BY <1>4 DEF ReplyType, Reply, Failure
<1>6. marker \in BOOLEAN /\ lost \in BOOLEAN /\ torn \in BOOLEAN
    BY Zenon
<1>7. idx \in 0 .. MaxActions /\ nextIno \in Nat \ {0}
    OBVIOUS
<1> QED
    BY <1>1, <1>2, <1>3, <1>4, <1>5, <1>6, <1>7
    DEF TypeInv, TypeOK, Shapes, Subdirs, Labels, Failure, Applying, RollingBack, UndoKind

-----------------------------------------------------------------------------
(* Type correctness. The invariant falls into the state a step may touch:   *)
(* the disk, the journal, the locals and the ghosts.                        *)

DiskType ==
    /\ ws \in [Path -> File] /\ nextIno \in Nat \ {0}
    /\ stage \in [Index -> File] /\ removed \in [Index -> File]

JournalType ==
    /\ dir \in {"none", "preparing", "transaction"} /\ subdirs \subseteq Subdirs
    /\ manifest \in Seq(Action) /\ Len(manifest) <= MaxActions
    /\ marker \in BOOLEAN
    /\ manifest # <<>> => ValidActions(manifest)

LocalType ==
    /\ pc \in Labels /\ request \in Seq(Action)
    /\ acts \in Seq(Action) /\ Len(acts) <= MaxActions
    /\ rows \in Seq(RowState) /\ failure \in Failure
    /\ idx \in 0 .. MaxActions /\ lost \in BOOLEAN
    /\ sub \in Subdirs \cup {"none"} /\ ret \in ReplyType
    /\ pc # "idle" => request = <<>> \/ ValidActions(request)
    /\ pc \in {"idle", "recover", "setup"} => rows = <<>>
    /\ pc = "setup" => request # <<>>
    /\ pc \in Applying \cup RollingBack => idx \in 1 .. Len(acts)
    /\ pc \in Applying => Len(rows) = Len(acts)
    /\ pc = "state" => idx \in 0 .. Len(acts)
    /\ rows # <<>> => Len(rows) = Len(acts)
    /\ acts # <<>> => ValidActions(acts)
    /\ UndoKind(pc)

GhostType ==
    /\ before \in [Path -> Content \cup {NoContent}]
    /\ intended \in [Path -> Content \cup {NoContent}]
    /\ fate \in {"open", "committed"} /\ touched \subseteq Path
    /\ torn \in BOOLEAN
    /\ txns \in Nat /\ crashes \in Nat /\ faults \in Nat /\ externals \in Nat

\* The four parts make up the type invariant, before and after a step.
LEMMA TypeParts ==
    /\ TypeInv <=> DiskType /\ JournalType /\ LocalType /\ GhostType
    /\ TypeInv' <=> DiskType' /\ JournalType' /\ LocalType' /\ GhostType'
BY DEF TypeInv, TypeOK, Shapes, DiskType, JournalType, LocalType, GhostType

\* A step that leaves a part alone keeps its type.
LEMMA UnchangedParts ==
    /\ DiskType /\ UNCHANGED disk => DiskType'
    /\ JournalType /\ UNCHANGED journal => JournalType'
    /\ LocalType /\ UNCHANGED <<pc, locals, ret>> => LocalType'
    /\ GhostType /\ UNCHANGED <<before, intended, fate, touched, torn>>
          /\ (NoFault \/ Fault) => GhostType'
<1>1. DiskType /\ UNCHANGED disk => DiskType'
    BY DEF DiskType, disk
<1>2. JournalType /\ UNCHANGED journal => JournalType'
    BY DEF JournalType, journal
<1>3. LocalType /\ UNCHANGED <<pc, locals, ret>> => LocalType'
    BY DEF LocalType, locals, UndoKind
<1>4. GhostType /\ UNCHANGED <<before, intended, fate, touched, torn>>
          /\ (NoFault \/ Fault) => GhostType'
    BY DEF GhostType, NoFault, Fault, budgets
<1> QED
    BY <1>1, <1>2, <1>3, <1>4

\* Every way to return leaves well-typed locals.
LEMMA ReturnType ==
    ASSUME LocalType, NEW r \in ReplyType, Return(r)
    PROVE  LocalType'
<1>1. /\ pc' \in Labels /\ request' \in Seq(Action)
      /\ failure' \in Failure /\ idx' \in 0 .. MaxActions
      /\ sub' \in Subdirs \cup {"none"} /\ ret' \in ReplyType
    BY Bounds DEF LocalType, Return, Labels, Failure
<1>2. lost' \in BOOLEAN
    BY Zenon DEF Return
<1>3. /\ acts' \in Seq(Action) /\ Len(acts') <= MaxActions
      /\ rows' \in Seq(RowState) /\ acts' = <<>> /\ rows' = <<>>
    BY Bounds DEF Return
<1>4. pc' = "idle" /\ pc' \notin Applying \cup RollingBack \cup {"recover", "setup", "state"}
    BY DEF Return, Applying, RollingBack
<1> QED
    BY <1>1, <1>2, <1>3, <1>4 DEF LocalType, UndoKind

\* What the calls return is of the right type.
LEMMA RepliesTyped ==
    /\ \A k \in {"running", "error", "recovered", "crashed"} : Reply(k) \in ReplyType
    /\ \A rs \in Seq(RowState), f \in Failure : Outcome(rs, f) \in ReplyType
BY EmptySeq DEF Reply, Outcome, ReplyType, Failure

\* Entering the rollback loop, from the apply loop or from recovery.
LEMMA StartRollbackType ==
    ASSUME LocalType, pc # "idle", NEW list \in Seq(Action), ValidActions(list),
           NEW rs \in Seq(RowState), rs = <<>> \/ Len(rs) = Len(list),
           NEW f \in Failure, StartRollback(list, rs, f)
    PROVE  LocalType'
<1>1. Len(list) \in 0 .. MaxActions
    BY Bounds DEF Bounds, ValidActions
<1> QED
    <2>1. pc' = "state" /\ pc' \in Labels
          /\ pc' \notin Applying \cup RollingBack \cup {"recover", "setup", "idle"}
        BY DEF StartRollback, Labels, Applying, RollingBack, UndoKind
    <2>2. lost' \in BOOLEAN
        BY Zenon DEF StartRollback
    <2>3. /\ acts' = list /\ rows' = rs /\ failure' = f /\ idx' = Len(list)
          /\ request' = request /\ sub' = sub /\ ret' = ret
        BY DEF StartRollback
    <2> QED
        BY <1>1, <2>1, <2>2, <2>3, Bounds DEF LocalType, UndoKind, RollingBack

\* A row of the running transaction is set.
LEMMA RowUpdate ==
    ASSUME LocalType, NEW row \in RowState, idx \in 1 .. Len(rows)
    PROVE  LET rs == [rows EXCEPT ![idx] = row] IN
           /\ rs \in Seq(RowState) /\ Len(rs) = Len(rows)
           /\ \A j \in 1 .. Len(rows) : rs[j] = IF j = idx THEN row ELSE rows[j]
BY ExceptSeq DEF LocalType

\* The apply loop of file_transaction is left with a failing action.
LEMMA ApplyFailsType ==
    ASSUME LocalType, pc \in Applying, NEW row \in RowState, NEW f \in Failure,
           ApplyFails(row, f)
    PROVE  LocalType'
<1>1. idx \in 1 .. Len(rows) /\ Len(rows) = Len(acts) /\ acts \in Seq(Action)
      /\ acts # <<>> /\ ValidActions(acts) /\ pc # "idle"
    BY DEF LocalType, Applying
<1>2. [rows EXCEPT ![idx] = row] \in Seq(RowState)
      /\ Len([rows EXCEPT ![idx] = row]) = Len(acts)
    BY <1>1, RowUpdate
<1> QED
    BY <1>1, <1>2, StartRollbackType DEF ApplyFails

\* A loop goes on to another label with the same locals.
LEMMA ApplyContinuesType ==
    ASSUME LocalType, pc # "idle",
           NEW label \in {"check", "mutate", "unlink", "clean"} \cup RollingBack,
           label \in {"check", "mutate", "unlink"} => pc \in Applying,
           label \in RollingBack => pc \in RollingBack \cup {"state"} /\ idx # 0,
           UndoKind(label), ApplyContinues(label)
    PROVE  LocalType'
BY DEF LocalType, ApplyContinues, Labels, Applying, RollingBack, UndoKind

\* apply_action succeeded: the apply loop advances or ends.
LEMMA ActionAppliedType ==
    ASSUME LocalType, pc \in {"mutate", "unlink"}, ActionApplied
    PROVE  LocalType'
<1>1. idx \in 1 .. Len(acts) /\ Len(rows) = Len(acts)
    BY DEF LocalType, Applying
<1>2. rows' \in Seq(RowState) /\ Len(rows') = Len(acts)
    BY <1>1, RowUpdate DEF ActionApplied, RowState
<1> QED
    BY <1>1, <1>2, Bounds DEF LocalType, ActionApplied, Labels, Applying, RollingBack, UndoKind

\* The loop of rollback_locked takes the next action.
LEMMA NextUndoType ==
    ASSUME LocalType, pc \in {"state"} \cup RollingBack, idx # 0,
           NEW rs \in Seq(RowState), rs = <<>> \/ Len(rs) = Len(acts),
           NEW l \in BOOLEAN, NextUndo(rs, l)
    PROVE  LocalType'
BY Bounds DEF LocalType, NextUndo, Labels, Applying, RollingBack, UndoKind

\* rollback_locked sets the row of an action and goes on.
LEMMA UndoneType ==
    ASSUME LocalType, pc \in {"state"} \cup RollingBack, idx # 0, Undone \/ UndoFails
    PROVE  LocalType'
<1>1. idx \in 1 .. Len(acts)
    BY DEF LocalType
<1>2. ASSUME NEW row \in RowState
      PROVE  RowSet(row) \in Seq(RowState)
             /\ (RowSet(row) = <<>> \/ Len(RowSet(row)) = Len(acts))
    BY <1>1, RowUpdate DEF LocalType, RowSet
<1> QED
    BY <1>2, NextUndoType, Zenon DEF Undone, UndoFails, RowState, LocalType

\* recover_locked returned without error.
LEMMA RecoveredType ==
    ASSUME LocalType, pc # "idle", Recovered
    PROVE  LocalType'
<1>1. CASE request = <<>>
    BY <1>1, ReturnType, RepliesTyped DEF Recovered
<1>2. CASE request # <<>>
    BY <1>2, Bounds, EmptySeq DEF LocalType, Recovered, Labels, Subdirs, Applying, RollingBack, UndoKind
<1> QED
    BY <1>1, <1>2

\* remove_directory_if_present returned to its caller.
LEMMA RemovedType ==
    ASSUME LocalType, pc = "clean", NEW e \in BOOLEAN, Removed(e)
    PROVE  LocalType'
<1>1. rows \in Seq(RowState) /\ failure \in Failure /\ pc # "idle"
    BY DEF LocalType
<1> QED
    BY <1>1, ReturnType, RecoveredType, RepliesTyped DEF Removed

\* The entries a step writes are files.
LEMMA FilesTyped ==
    ASSUME DiskType
    PROVE  /\ NoFile \in File
           /\ \A c \in Content : NewFile(c) \in File
           /\ \A c \in Content : [ino |-> nextIno + 1, c |-> c] \in File
           /\ \A p \in Path : ws[p] \in File
           /\ \A i \in Index : stage[i] \in File /\ removed[i] \in File
BY DEF DiskType, File, NewFile, NoFile

\* The action at the index of a running loop, and the entries it is about.
LEMMA CurrentAction ==
    ASSUME LocalType, pc \in Applying \cup RollingBack
    PROVE  /\ idx \in Index /\ idx # 0 /\ idx \in 1 .. Len(acts)
           /\ acts[idx] \in Action
           /\ acts[idx].path \in Path /\ Target(acts[idx]) \in Path
           /\ acts[idx].kind = "Move" => acts[idx].dest \in Path
           /\ Digest(acts[idx]) \in Content
           /\ acts[idx].kind = "Replace" => acts[idx].expected \in Content
<1>1. idx \in 1 .. Len(acts) /\ acts \in Seq(Action) /\ Len(acts) <= MaxActions
    BY DEF LocalType
<1>2. acts # <<>> /\ ValidActions(acts)
    BY <1>1 DEF LocalType
<1>3. idx \in Index /\ idx # 0
    BY <1>1, Bounds DEF Index
<1>4. acts[idx].path \in Path
    <2>1. acts[idx] \in Action
        BY <1>1
    <2> QED
        BY <2>1 DEF Action
<1> QED
    BY <1>1, <1>2, <1>3, <1>4, ContentsExist

\* The views kept in the ghosts.
LEMMA ViewsTyped ==
    ASSUME DiskType, NEW r \in Seq(Action), ValidActions(r)
    PROVE  /\ View(ws) \in [Path -> Content \cup {NoContent}]
           /\ AfterView(r, View(ws)) \in [Path -> Content \cup {NoContent}]
<1>1. View(ws) \in [Path -> Content \cup {NoContent}]
    BY DEF View, DiskType, File, NoFile
<1>2. ASSUME NEW p \in Path
      PROVE  AfterView(r, View(ws))[p] \in Content \cup {NoContent}
    <2>1. CASE \E i \in 1 .. Len(r) : r[i].kind # "Remove" /\ Target(r[i]) = p
        <3>1. (CHOOSE i \in 1 .. Len(r) : Target(r[i]) = p) \in 1 .. Len(r)
            BY <2>1
        <3>2. Digest(r[CHOOSE i \in 1 .. Len(r) : Target(r[i]) = p]) \in Content
            BY <3>1, ContentsExist
        <3> QED
            BY <2>1, <3>2 DEF AfterView
    <2>2. CASE ~\E i \in 1 .. Len(r) : r[i].kind # "Remove" /\ Target(r[i]) = p
        BY <1>1, <2>2 DEF AfterView
    <2> QED
        BY <2>1, <2>2
<1>3. AfterView(r, View(ws)) = [p \in Path |-> AfterView(r, View(ws))[p]]
    BY DEF AfterView
<1> QED
    BY <1>1, <1>2, <1>3

\* Removing a preparing directory, and faults, keep the types.
LEMMA DropPreparingType ==
    ASSUME DiskType, JournalType, DropPreparing
    PROVE  DiskType' /\ JournalType'
<1>1. DiskType'
    BY FilesTyped DEF DiskType, DropPreparing
<1>2. marker' \in BOOLEAN
    BY Zenon DEF DropPreparing
<1>3. manifest' = <<>> /\ dir' = "none" /\ subdirs' = {}
    BY DEF DropPreparing
<1> QED
    BY <1>1, <1>2, <1>3, Bounds DEF JournalType

-----------------------------------------------------------------------------
(* One lemma per group of actions                                          *)

\* A call begins.
LEMMA BeginTypes ==
    ASSUME TypeInv, (\E r \in Requests : Begin(r)) \/ BeginRecovery
    PROVE  TypeInv'
<1>0. DiskType /\ JournalType /\ LocalType /\ GhostType
    BY TypeParts
<1>1. DiskType' /\ JournalType'
    BY <1>0, UnchangedParts DEF Begin, BeginRecovery
<1>2. CASE \E r \in Requests : Begin(r)
    <2> PICK r \in Requests : Begin(r)
        BY <1>2
    <2>1. r \in Seq(Action) /\ (ValidActions(r) => r # <<>>)
        BY ConstantsAssumption DEF ConstantsAssumption, ValidActions
    <2>2. pc = "idle" /\ pc' \in {"idle", "recover"} /\ ret' \in ReplyType
          /\ (pc' # "idle" => ValidActions(r)) /\ request' = r
          /\ UNCHANGED <<acts, rows, failure, idx, lost, sub>>
        BY RepliesTyped DEF Begin
    <2>3. LocalType'
        BY <1>0, <2>1, <2>2 DEF LocalType, Labels, Applying, RollingBack, UndoKind
    <2>4. GhostType'
        BY <1>0 DEF GhostType, Begin, ghosts
    <2> QED
        BY <1>1, <2>3, <2>4, TypeParts
<1>3. CASE BeginRecovery
    <2>1. pc = "idle" /\ pc' = "recover" /\ ret' \in ReplyType /\ request' = <<>>
          /\ UNCHANGED <<acts, rows, failure, idx, lost, sub>>
        BY <1>3, RepliesTyped DEF BeginRecovery
    <2>2. LocalType'
        BY <1>0, <2>1, EmptySeq DEF LocalType, Labels, Applying, RollingBack, UndoKind
    <2>3. GhostType'
        BY <1>0, <1>3, UnchangedParts DEF BeginRecovery, NoFault, ghosts
    <2> QED
        BY <1>1, <2>2, <2>3, TypeParts
<1> QED
    BY <1>2, <1>3

\* recover_locked decides what to do with the journal it finds.
LEMMA RecoverTypes ==
    ASSUME TypeInv, Recover
    PROVE  TypeInv'
<1>0. DiskType /\ JournalType /\ LocalType /\ GhostType
    BY TypeParts
<1>1. GhostType'
    BY <1>0, UnchangedParts DEF Recover, ghosts
<1>2. pc # "idle" /\ pc = "recover"
    BY DEF Recover
<1>3. CASE dir # "transaction" /\ DropPreparing /\ Recovered
    BY <1>0, <1>1, <1>2, <1>3, DropPreparingType, RecoveredType, TypeParts
<1>4. CASE Return(Reply("error")) /\ UNCHANGED <<disk, journal>>
    BY <1>0, <1>1, <1>4, ReturnType, RepliesTyped, UnchangedParts, TypeParts
<1>5. CASE /\ JournalReadable /\ pc' = "clean" /\ acts' = manifest
           /\ UNCHANGED <<disk, journal, request, rows, failure, idx, lost, sub, ret>>
    <2>1. LocalType'
        BY <1>0, <1>2, <1>5, Bounds
        DEF LocalType, JournalType, JournalReadable, Labels, Applying, RollingBack, UndoKind
    <2> QED
        BY <1>0, <1>1, <1>5, <2>1, UnchangedParts, TypeParts
<1>6. CASE JournalReadable /\ StartRollback(manifest, <<>>, "None") /\ UNCHANGED <<disk, journal>>
    <2>1. LocalType'
        BY <1>0, <1>2, <1>6, StartRollbackType, EmptySeq, Zenon
        DEF JournalType, JournalReadable, Failure
    <2> QED
        BY <1>0, <1>1, <1>6, <2>1, UnchangedParts, TypeParts
<1> QED
    BY <1>3, <1>4, <1>5, <1>6 DEF Recover

\* The directory "preparing" is made.
LEMMA SetupTypes ==
    ASSUME TypeInv, Setup
    PROVE  TypeInv'
<1>0. DiskType /\ JournalType /\ LocalType /\ GhostType
    BY TypeParts
<1>1. DiskType'
    BY <1>0, UnchangedParts DEF Setup
<1>2. JournalType'
    BY <1>0 DEF JournalType, Setup
<1>3. request \in Seq(Action) /\ ValidActions(request) /\ pc = "setup"
      /\ Len(request) \in 1 .. MaxActions
    BY <1>0, Zenon DEF LocalType, Setup, ValidActions
<1>4. GhostType'
    <2>1. torn' \in BOOLEAN
        BY Zenon DEF Setup
    <2>2. before' \in [Path -> Content \cup {NoContent}]
          /\ intended' \in [Path -> Content \cup {NoContent}]
        BY <1>0, <1>3, ViewsTyped DEF Setup
    <2> QED
        BY <1>0, <2>1, <2>2 DEF GhostType, Setup, NoFault, Fault, budgets
<1>5. CASE Return(Reply("error"))
    BY <1>0, <1>1, <1>2, <1>4, <1>5, ReturnType, RepliesTyped, TypeParts
<1>6. CASE /\ pc' = "prepare" /\ acts' = request /\ idx' = 1
           /\ rows' = [i \in 1 .. Len(request) |-> "Skipped"]
           /\ UNCHANGED <<request, failure, lost, sub, ret>>
    <2>1. rows' \in Seq(RowState) /\ Len(rows') = Len(request)
        BY <1>3, <1>6 DEF RowState
    <2>2. LocalType'
        BY <1>0, <1>3, <1>6, <2>1, Bounds DEF LocalType, Labels, Applying, RollingBack, UndoKind
    <2> QED
        BY <1>1, <1>2, <1>4, <2>2, TypeParts
<1> QED
    BY <1>5, <1>6 DEF Setup

\* prepare_action, and the ways a transaction ends before it is published.
LEMMA PrepareTypes ==
    ASSUME TypeInv, Prepare
    PROVE  TypeInv'
<1> DEFINE a == acts[idx]
<1>0. DiskType /\ JournalType /\ LocalType /\ GhostType
    BY TypeParts
<1>1. pc = "prepare" /\ pc \in Applying /\ idx \in 1 .. Len(rows)
    BY <1>0 DEF Prepare, Applying, LocalType
<1>2. GhostType'
    BY <1>0, UnchangedParts DEF Prepare, Abandon, ghosts
<1>3. ASSUME NEW r \in ReplyType, Abandon(r)
      PROVE  TypeInv'
    BY <1>0, <1>2, <1>3, ReturnType, RepliesTyped, DropPreparingType, UnchangedParts, TypeParts
    DEF Abandon
<1>4. CASE \E f \in Stops : Abandon(Outcome(rows, f))
    BY <1>0, <1>3, <1>4, RepliesTyped DEF LocalType, Failure
<1>5. CASE Abandon(Outcome([rows EXCEPT ![idx] = "Conflict"], "Conflict"))
    <2>1. [rows EXCEPT ![idx] = "Conflict"] \in Seq(RowState)
        BY <1>0, <1>1, RowUpdate DEF RowState
    <2>2. "Conflict" \in Failure
        BY DEF Failure
    <2> QED
        BY <1>3, <1>5, <2>1, <2>2, RepliesTyped, Zenon
<1>6. CASE Abandon(Reply("error"))
    BY <1>3, <1>6, RepliesTyped
<1>7. CASE Return(Reply("error")) /\ DropPreparing
    BY <1>0, <1>2, <1>7, ReturnType, RepliesTyped, DropPreparingType, TypeParts
<1>8. CASE /\ stage' = [stage EXCEPT ![idx] =
                          IF a.kind \in {"Create", "Copy", "Replace"}
                          THEN NewFile(Digest(a)) ELSE NoFile]
           /\ removed' = [removed EXCEPT ![idx] =
                            IF a.kind = "Replace"
                            THEN [ino |-> nextIno + 1, c |-> a.expected] ELSE NoFile]
           /\ nextIno' = nextIno + (IF a.kind \in {"Create", "Copy", "Replace"} THEN 1 ELSE 0)
                                 + (IF a.kind = "Replace" THEN 1 ELSE 0)
           /\ IF idx < Len(acts) THEN idx' = idx + 1 /\ pc' = "prepare"
                                 ELSE idx' = 1 /\ pc' = "publish"
           /\ UNCHANGED <<ws, journal, request, acts, rows, failure, lost, sub, ret>>
    <2>1. stage' \in [Index -> File] /\ removed' \in [Index -> File]
        BY <1>0, <1>1, <1>8, FilesTyped, CurrentAction DEF DiskType
    <2>2. nextIno' \in Nat \ {0}
        BY <1>0, <1>8 DEF DiskType
    <2>3. DiskType'
        BY <1>0, <1>8, <2>1, <2>2 DEF DiskType
    <2>4. LocalType'
        <3>1. /\ pc = "prepare" => idx \in 1 .. Len(acts)
              /\ idx' \in 1 .. Len(acts) /\ idx' \in 0 .. MaxActions
            BY <1>0, <1>1, <1>8, Bounds DEF LocalType, Applying
        <3>2. /\ pc' \in {"prepare", "publish"} /\ pc' \in Labels /\ pc' \in Applying
              /\ pc \in Applying /\ UndoKind(pc)'
              /\ pc' \notin {"idle", "recover", "setup", "state"} /\ pc # "idle"
            BY <1>1, <1>8 DEF Labels, Applying, UndoKind
        <3> QED
            BY <1>0, <1>8, <3>1, <3>2, SMTT(30) DEF LocalType
    <2> QED
        BY <1>0, <1>2, <1>8, <2>3, <2>4, UnchangedParts, TypeParts
<1> QED
    BY <1>4, <1>5, <1>6, <1>7, <1>8 DEF Prepare

\* The journal is published.
LEMMA PublishTypes ==
    ASSUME TypeInv, Publish
    PROVE  TypeInv'
<1>0. DiskType /\ JournalType /\ LocalType /\ GhostType
    BY TypeParts
<1>1. pc = "publish" /\ pc \in Applying /\ acts # <<>>
    BY <1>0 DEF Publish, Applying, LocalType
<1>2. DiskType' /\ GhostType'
    BY <1>0, UnchangedParts DEF Publish, ghosts
<1>3. JournalType'
    BY <1>0, <1>1 DEF Publish, JournalType, LocalType
<1>4. LocalType'
    <2>1. CASE ApplyContinues("check")
        BY <1>0, <1>1, <2>1, ApplyContinuesType DEF RollingBack, UndoKind
    <2>2. CASE Return(Reply("error"))
        BY <1>0, <2>2, ReturnType, RepliesTyped
    <2> QED
        BY <2>1, <2>2 DEF Publish
<1> QED
    BY <1>2, <1>3, <1>4, TypeParts

\* The labels the apply loop and the rollback loop go on to.
LEMMA ContinuesTypes ==
    /\ LocalType /\ pc \in Applying
          => \A label \in {"check", "mutate", "unlink"} :
                ApplyContinues(label) => LocalType'
    /\ LocalType /\ pc \in RollingBack \cup {"state"} /\ idx # 0
          => \A label \in RollingBack :
                UndoKind(label) /\ ApplyContinues(label) => LocalType'
<1>1. "idle" \notin Applying \cup RollingBack
      /\ {"check", "mutate", "unlink"} \cap RollingBack = {}
    BY DEF Applying, RollingBack
<1>2. UndoKind("check") /\ UndoKind("mutate") /\ UndoKind("unlink")
    BY DEF UndoKind
<1> QED
    BY <1>1, <1>2, ApplyContinuesType, Zenon

\* A failing step of the apply loop.
LEMMA FailureTypes ==
    ASSUME LocalType, pc \in Applying
    PROVE  /\ ApplyFails("RecoveryRequired", "Filesystem") => LocalType'
           /\ ApplyFails("Conflict", "Conflict") => LocalType'
           /\ \A f \in Stops : ApplyFails("Skipped", f) => LocalType'
<1>1. {"RecoveryRequired", "Conflict", "Skipped"} \subseteq RowState
      /\ {"Filesystem", "Conflict"} \cup Stops \subseteq Failure
    BY DEF RowState, Failure
<1> QED
    BY <1>1, ApplyFailsType

-----------------------------------------------------------------------------

\* The apply loop.
LEMMA ApplyTypes ==
    ASSUME TypeInv,
           ApplyCheck \/ ApplyLink \/ ApplyRename \/ ApplySwap \/ ApplyUnlink
    PROVE  TypeInv'
<1> DEFINE a == acts[idx]
<1>0. DiskType /\ JournalType /\ LocalType /\ GhostType
    BY TypeParts
<1>1. pc \in Applying /\ pc \in Applying \cup RollingBack
    BY Zenon DEF ApplyCheck, ApplyLink, ApplyRename, ApplySwap, ApplyUnlink, Applying
<1>2. idx \in Index /\ acts[idx].path \in Path /\ Target(acts[idx]) \in Path
      /\ Digest(acts[idx]) \in Content
    BY <1>0, <1>1, CurrentAction
<1>3. /\ NoFile \in File /\ \A c \in Content : NewFile(c) \in File
      /\ \A p \in Path : ws[p] \in File
      /\ \A i \in Index : stage[i] \in File /\ removed[i] \in File
    BY <1>0, FilesTyped
<1>4. CASE ApplyCheck
    <2>1. DiskType' /\ JournalType' /\ GhostType'
        BY <1>0, <1>4, UnchangedParts DEF ApplyCheck, ghosts
    <2>2. LocalType'
        BY <1>0, <1>1, <1>4, FailureTypes, ContinuesTypes DEF ApplyCheck
    <2> QED
        BY <2>1, <2>2, TypeParts
<1>5. CASE ApplyLink
    <2>1. JournalType' /\ GhostType'
        BY <1>0, <1>5, UnchangedParts DEF ApplyLink, Applies, ghosts
    <2>2. LocalType'
        BY <1>0, <1>1, <1>5, FailureTypes, ContinuesTypes DEF ApplyLink, Applies
    <2>3. DiskType'
        BY <1>0, <1>2, <1>3, <1>5, Zenon DEF ApplyLink, Applies, DiskType, disk
    <2> QED
        BY <2>1, <2>2, <2>3, TypeParts
<1>6. CASE ApplyRename
    <2>1. JournalType' /\ GhostType'
        BY <1>0, <1>6, UnchangedParts, Zenon DEF ApplyRename, Applies, ghosts
    <2>2. LocalType'
        BY <1>0, <1>1, <1>6, FailureTypes, ActionAppliedType DEF ApplyRename, Applies
    <2>3. DiskType'
        BY <1>0, <1>2, <1>3, <1>6 DEF ApplyRename, Applies, DiskType, disk
    <2> QED
        BY <2>1, <2>2, <2>3, TypeParts
<1>7. CASE ApplySwap
    <2>1. JournalType' /\ GhostType'
        BY <1>0, <1>7, UnchangedParts DEF ApplySwap, ghosts
    <2>2. LocalType'
        BY <1>0, <1>1, <1>7, FailureTypes, ContinuesTypes DEF ApplySwap
    <2>3. DiskType'
        <3>1. \/ /\ ws' = [ws EXCEPT ![a.path] = NewFile(Digest(a))]
                 /\ nextIno' = nextIno + 1 /\ UNCHANGED <<stage, removed>>
              \/ UNCHANGED disk
            BY <1>7, Zenon DEF ApplySwap
        <3>2. NewFile(Digest(a)) \in File
            BY <1>2, <1>3
        <3> QED
            BY <1>0, <1>2, <3>1, <3>2 DEF DiskType, disk
    <2> QED
        BY <2>1, <2>2, <2>3, TypeParts
<1>8. CASE ApplyUnlink
    <2>1. JournalType' /\ GhostType'
        BY Zenon, <1>0, <1>8, UnchangedParts DEF ApplyUnlink, Applies, ghosts
    <2>2. LocalType'
        BY <1>0, <1>1, <1>8, FailureTypes, ActionAppliedType DEF ApplyUnlink, Applies
    <2>3. DiskType'
        BY <1>0, <1>2, <1>3, <1>8 DEF ApplyUnlink, Applies, DiskType, disk
    <2> QED
        BY <2>1, <2>2, <2>3, TypeParts
<1> QED
    BY <1>4, <1>5, <1>6, <1>7, <1>8

\* The commit marker.
LEMMA CommitTypes ==
    ASSUME TypeInv, Commit
    PROVE  TypeInv'
<1>0. DiskType /\ JournalType /\ LocalType /\ GhostType
    BY TypeParts
<1>1. DiskType'
    BY <1>0, UnchangedParts DEF Commit
<1>2. JournalType'
    <2>1. marker' \in BOOLEAN
        BY <1>0, Zenon DEF Commit, JournalType
    <2> QED
        BY <1>0, <2>1 DEF Commit, JournalType
<1>3. GhostType'
    BY <1>0 DEF Commit, GhostType, Fault, NoFault, budgets
<1>4. pc = "commit" /\ pc # "idle" /\ acts \in Seq(Action) /\ acts # <<>>
      /\ ValidActions(acts) /\ rows \in Seq(RowState) /\ Len(rows) = Len(acts)
    BY <1>0 DEF Commit, LocalType, Applying
<1>5. CASE pc' = "clean" /\ UNCHANGED <<locals, ret>>
    <2>1. LocalType'
        BY <1>0, <1>4, <1>5 DEF LocalType, locals, Labels, Applying, RollingBack, UndoKind
    <2> QED
        BY <1>1, <1>2, <1>3, <2>1, TypeParts
<1>6. CASE \E f \in Stops \cup {"Filesystem"} : StartRollback(acts, rows, f)
    <2>1. Stops \cup {"Filesystem"} \subseteq Failure
        BY DEF Failure
    <2>2. LocalType'
        BY <1>0, <1>4, <1>6, <2>1, StartRollbackType
    <2> QED
        BY <1>1, <1>2, <1>3, <2>2, TypeParts
<1>7. CASE Return(Outcome([i \in 1 .. Len(rows) |-> "RecoveryRequired"],
                          "RecoveryRequired"))
    <2>1. [i \in 1 .. Len(rows) |-> "RecoveryRequired"] \in Seq(RowState)
        BY <1>4 DEF RowState
    <2>2. "RecoveryRequired" \in Failure
        BY DEF Failure
    <2>3. LocalType'
        BY <1>0, <1>7, <2>1, <2>2, ReturnType, RepliesTyped, Zenon
    <2> QED
        BY <1>1, <1>2, <1>3, <2>3, TypeParts
<1> QED
    BY <1>5, <1>6, <1>7 DEF Commit

\* The rollback loop and rollback_action.
LEMMA RollbackTypes ==
    ASSUME TypeInv,
           \/ RollbackState \/ RollbackDone \/ UndoCheck \/ UndoUnlink \/ UndoRelink
           \/ UndoRestore \/ UndoSwap \/ UndoDropRemoved \/ UndoDropStage
    PROVE  TypeInv'
<1>0. DiskType /\ JournalType /\ LocalType /\ GhostType
    BY TypeParts
<1>1. JournalType' /\ GhostType'
    BY <1>0, UnchangedParts
    DEF RollbackState, RollbackDone, UndoCheck, UndoUnlink, UndoRelink, UndoRestore,
        UndoSwap, UndoDropRemoved, UndoDropStage, Undoes, ghosts
<1>2. CASE RollbackState
    <2>1. DiskType'
        BY <1>0, <1>2, UnchangedParts DEF RollbackState
    <2>2. pc \in {"state"} \cup RollingBack /\ idx # 0 /\ "undo" \in RollingBack
          /\ rows \in Seq(RowState) /\ (rows = <<>> \/ Len(rows) = Len(acts))
          /\ lost \in BOOLEAN
        BY <1>0, <1>2 DEF RollbackState, LocalType, RollingBack
    <2>3. LocalType'
        BY <1>0, <1>2, <2>2, UndoneType, NextUndoType, ContinuesTypes
        DEF RollbackState, UndoKind
    <2> QED
        BY <1>1, <2>1, <2>3, TypeParts
<1>3. CASE RollbackDone
    <2>1. DiskType' /\ pc = "state" /\ pc # "idle"
        BY <1>0, <1>3, UnchangedParts DEF RollbackDone
    <2>2. CASE ApplyContinues("clean")
        <3>1. LocalType'
            BY <1>0, <2>1, <2>2, ApplyContinuesType DEF RollingBack, UndoKind
        <3> QED
            BY <1>1, <2>1, <3>1, TypeParts
    <2>3. CASE \E r \in ReplyType : Return(r)
        BY <1>0, <1>1, <2>1, <2>3, ReturnType, TypeParts
    <2>4. Reply("error") \in ReplyType /\ Outcome(rows, "RecoveryRequired") \in ReplyType
        BY <1>0, RepliesTyped DEF LocalType, Failure
    <2> QED
        BY <1>3, <2>2, <2>3, <2>4 DEF RollbackDone
<1>4. CASE \/ UndoCheck \/ UndoUnlink \/ UndoRelink
           \/ UndoRestore \/ UndoSwap \/ UndoDropRemoved \/ UndoDropStage
    <2>1. pc \in {"state"} \cup RollingBack /\ pc \in Applying \cup RollingBack
        BY <1>4, Zenon DEF UndoCheck, UndoUnlink, UndoRelink, UndoRestore, UndoSwap,
                    UndoDropRemoved, UndoDropStage, RollingBack
    <2>2. /\ idx \in Index /\ idx # 0 /\ acts[idx].path \in Path
          /\ acts[idx] \in Action
          /\ Target(acts[idx]) \in Path
          /\ acts[idx].kind = "Move" => acts[idx].dest \in Path
          /\ acts[idx].kind = "Replace" => acts[idx].expected \in Content
        BY <1>0, <2>1, CurrentAction
    <2>3. /\ NoFile \in File /\ \A c \in Content : NewFile(c) \in File
          /\ \A p \in Path : ws[p] \in File
          /\ \A i \in Index : stage[i] \in File /\ removed[i] \in File
        BY <1>0, FilesTyped
    <2>4. CASE UndoCheck
        <3>1. UndoStep(acts[idx]) \in RollingBack /\ UndoKind(UndoStep(acts[idx]))
            BY <2>2 DEF UndoStep, RollingBack, Action, Kind, UndoKind
        <3>2. LocalType'
            BY <1>0, <2>1, <2>2, <2>4, <3>1, UndoneType, ContinuesTypes DEF UndoCheck
        <3>3. DiskType'
            BY <1>0, <2>4, UnchangedParts DEF UndoCheck
        <3> QED
            BY <1>1, <3>2, <3>3, TypeParts
    <2>5. CASE UndoUnlink
        <3>1. LocalType'
            BY <1>0, <2>1, <2>2, <2>5, UndoneType DEF UndoUnlink, Undoes
        <3>2. DiskType'
            BY <1>0, <2>2, <2>3, <2>5 DEF UndoUnlink, Undoes, DiskType, disk
        <3> QED
            BY <1>1, <3>1, <3>2, TypeParts
    <2>6. CASE UndoRelink
        <3>1. LocalType'
            BY <1>0, <2>1, <2>2, <2>6, UndoneType, ContinuesTypes
            DEF UndoRelink, Undoes, RollingBack, UndoKind
        <3>2. acts[idx].dest \in Path
            BY <1>0, <2>2, <2>6 DEF UndoRelink, LocalType, UndoKind
        <3>3. DiskType'
            BY <1>0, <2>2, <2>3, <2>6, <3>2, Zenon DEF UndoRelink, Undoes, DiskType, disk
        <3> QED
            BY <1>1, <3>1, <3>3, TypeParts
    <2>7. CASE UndoRestore
        <3>1. LocalType'
            BY <1>0, <2>1, <2>2, <2>7, UndoneType, Zenon DEF UndoRestore, Undoes
        <3>2. DiskType'
            BY <1>0, <2>2, <2>3, <2>7 DEF UndoRestore, Undoes, DiskType, disk
        <3> QED
            BY <1>1, <3>1, <3>2, TypeParts
    <2>8. CASE UndoSwap
        <3>1. LocalType'
            BY <1>0, <2>1, <2>2, <2>8, UndoneType, ContinuesTypes, Zenon
            DEF UndoSwap, RollingBack, UndoKind
        <3>2. acts[idx].expected \in Content
            BY <1>0, <2>2, <2>8, Zenon DEF UndoSwap, LocalType, UndoKind
        <3>3. DiskType'
            <4> DEFINE a == acts[idx]
            <4>1. \/ /\ ws' = [ws EXCEPT ![a.path] = NewFile(a.expected)]
                     /\ nextIno' = nextIno + 1 /\ UNCHANGED <<stage, removed>>
                  \/ UNCHANGED disk
                BY Zenon, <2>8 DEF UndoSwap
            <4>2. NewFile(a.expected) \in File
                BY <2>3, <3>2
            <4> QED
                BY <1>0, <2>2, <4>1, <4>2 DEF DiskType, disk
        <3> QED
            BY <1>1, <3>1, <3>3, TypeParts
    <2>9. CASE UndoDropRemoved
        <3>1. LocalType'
            BY <1>0, <2>1, <2>2, <2>9, UndoneType, ContinuesTypes, Zenon
            DEF UndoDropRemoved, Undoes, RollingBack, UndoKind
        <3>2. DiskType'
            BY <1>0, <2>2, <2>3, <2>9 DEF UndoDropRemoved, Undoes, DiskType, disk
        <3> QED
            BY <1>1, <3>1, <3>2, TypeParts
    <2>10. CASE UndoDropStage
        <3>1. LocalType'
            BY <1>0, <2>1, <2>2, <2>10, UndoneType, Zenon DEF UndoDropStage, Undoes
        <3>2. DiskType'
            BY <1>0, <2>2, <2>3, <2>10 DEF UndoDropStage, Undoes, DiskType, disk
        <3> QED
            BY <1>1, <3>1, <3>2, TypeParts
    <2> QED
        BY <1>4, <2>4, <2>5, <2>6, <2>7, <2>8, <2>9, <2>10
<1> QED
    BY <1>2, <1>3, <1>4

\* The removal of the journal directory.
LEMMA CleanTypes ==
    ASSUME TypeInv, CleanEntry \/ CleanSubdirectory \/ CleanDone \/ CleanFails
    PROVE  TypeInv'
<1>0. DiskType /\ JournalType /\ LocalType /\ GhostType
    BY TypeParts
<1>1. pc = "clean"
    BY Zenon DEF CleanEntry, CleanSubdirectory, CleanDone, CleanFails
<1>2. CASE CleanEntry
    <2>1. DiskType' /\ GhostType'
        BY <1>0, <1>2, UnchangedParts DEF CleanEntry, ghosts
    <2>2. marker' \in BOOLEAN
        BY <1>0, <1>2, Zenon DEF CleanEntry, JournalType
    <2>3. JournalType'
        <3>1. manifest' \in {<<>>, manifest} /\ UNCHANGED <<dir, subdirs>>
            BY <1>2, Zenon DEF CleanEntry
        <3>2. manifest' \in Seq(Action) /\ Len(manifest') <= MaxActions
              /\ (manifest' # <<>> => ValidActions(manifest'))
            <4>1. CASE manifest' = <<>>
                BY <4>1, Bounds
            <4>2. CASE manifest' = manifest
                BY <1>0, <4>2 DEF JournalType
            <4> QED
                BY <3>1, <4>1, <4>2
        <3> QED
            BY <1>0, <2>2, <3>1, <3>2 DEF JournalType
    <2>4. LocalType'
        BY <1>0, <1>2, Zenon DEF CleanEntry, LocalType, JournalType, UndoKind
    <2> QED
        BY <2>1, <2>3, <2>4, TypeParts
<1>3. CASE CleanSubdirectory
    <2>1. GhostType'
        BY <1>0, <1>3, UnchangedParts DEF CleanSubdirectory, ghosts
    <2>2. DiskType'
        BY <1>0, <1>3, FilesTyped DEF CleanSubdirectory, DiskType
    <2>3. JournalType'
        BY <1>0, <1>3 DEF CleanSubdirectory, JournalType
    <2>4. LocalType'
        BY <1>0, <1>3 DEF CleanSubdirectory, LocalType, UndoKind
    <2> QED
        BY <2>1, <2>2, <2>3, <2>4, TypeParts
<1>4. CASE CleanDone
    <2>1. DiskType' /\ GhostType'
        BY <1>0, <1>4, UnchangedParts, Zenon DEF CleanDone, ghosts
    <2>2. JournalType'
        BY <1>0, <1>4 DEF CleanDone, JournalType
    <2>3. LocalType'
        BY <1>0, <1>1, <1>4, RemovedType, Zenon DEF CleanDone
    <2> QED
        BY <2>1, <2>2, <2>3, TypeParts
<1>5. CASE CleanFails
    <2>1. DiskType' /\ JournalType'
        BY <1>0, <1>5, UnchangedParts DEF CleanFails
    <2>2. torn' \in BOOLEAN
        BY <1>0, <1>5, Zenon DEF CleanFails
    <2>3. GhostType'
        BY <1>0, <1>5, <2>2 DEF CleanFails, GhostType, Fault
    <2>4. LocalType'
        BY <1>0, <1>1, <1>5, RemovedType, Zenon DEF CleanFails
    <2> QED
        BY <2>1, <2>3, <2>4, TypeParts
<1> QED
    BY <1>2, <1>3, <1>4, <1>5

\* A crash of the process.
LEMMA CrashTypes ==
    ASSUME TypeInv, Crash
    PROVE  TypeInv'
<1>0. DiskType /\ JournalType /\ LocalType /\ GhostType
    BY TypeParts
<1>1. DiskType' /\ JournalType'
    BY <1>0, UnchangedParts DEF Crash
<1>2. torn' \in BOOLEAN /\ lost' \in BOOLEAN
    BY Zenon DEF Crash
<1>3. GhostType'
    BY <1>0, <1>2 DEF Crash, GhostType
<1>4. LocalType'
    <2>1. /\ pc' = "idle" /\ pc' \in Labels /\ pc' \notin Applying
          /\ pc' \notin RollingBack /\ UndoKind(pc)'
        BY DEF Crash, Labels, Applying, RollingBack, UndoKind
    <2>2. /\ request' = <<>> /\ acts' = <<>> /\ rows' = <<>> /\ idx' = 0
          /\ failure' \in Failure /\ sub' \in Subdirs \cup {"none"}
          /\ ret' = Reply("crashed")
        BY DEF Crash, Failure
    <2>3. /\ <<>> \in Seq(Action) /\ <<>> \in Seq(RowState)
          /\ Len(<<>>) = 0 /\ 0 \in 0 .. MaxActions /\ 0 <= MaxActions
        BY Bounds, EmptySeq
    <2>4. Reply("crashed") \in ReplyType
        BY RepliesTyped
    <2> QED
        BY <1>2, <2>1, <2>2, <2>3, <2>4 DEF LocalType
<1> QED
    BY <1>1, <1>3, <1>4, TypeParts

\* A change made by another program.
LEMMA ExternalTypes ==
    ASSUME TypeInv, NEW p \in Path, External(p)
    PROVE  TypeInv'
<1>0. DiskType /\ JournalType /\ LocalType /\ GhostType
    BY TypeParts
<1>1. JournalType' /\ LocalType'
    BY <1>0, UnchangedParts DEF External
<1>2. DiskType'
    <2>1. CASE /\ ws' = [ws EXCEPT ![p] = NoFile]
               /\ UNCHANGED <<nextIno, stage, removed>>
        BY <1>0, <2>1, FilesTyped DEF DiskType
    <2>2. CASE /\ \E c \in Content : ws' = [ws EXCEPT ![p] = NewFile(c)]
               /\ nextIno' = nextIno + 1 /\ UNCHANGED <<stage, removed>>
        BY <1>0, <2>2, FilesTyped DEF DiskType
    <2>3. ASSUME NEW c \in Content, Exists(ws[p]), UNCHANGED nextIno,
                 ws' = [q \in Path |-> WriteInPlace(ws[q], p, c)],
                 stage' = [i \in Index |-> WriteInPlace(stage[i], p, c)],
                 removed' = [i \in Index |-> WriteInPlace(removed[i], p, c)]
          PROVE  DiskType'
        <3>1. ASSUME NEW f \in File
              PROVE  WriteInPlace(f, p, c) \in File
            <4>1. ws[p].ino # 0
                BY <1>0, <2>3, FilesTyped DEF File, Exists, NoFile
            <4> QED
                BY <4>1 DEF WriteInPlace, File, NoFile
        <3> QED
            BY <1>0, <2>3, <3>1, FilesTyped DEF DiskType
    <2> QED
        BY <2>1, <2>2, <2>3 DEF External
<1>3. GhostType'
    <2>1. acts \in Seq(Action) /\ manifest \in Seq(Action)
        BY <1>0 DEF LocalType, JournalType
    <2>2. ASSUME NEW b \in Action PROVE PathsOf(b) \subseteq Path
        BY DEF PathsOf, Action
    <2>3. touched' \subseteq Path
        BY <1>0, <2>1, <2>2 DEF External, GhostType
    <2> QED
        BY <1>0, <2>3 DEF External, GhostType
<1> QED
    BY <1>1, <1>2, <1>3, TypeParts

\* Every step keeps the type invariant.
LEMMA TypeNext == TypeInv /\ [Next]_vars => TypeInv'
<1> SUFFICES ASSUME TypeInv, [Next]_vars PROVE TypeInv'
    OBVIOUS
<1>1. CASE Step
    BY <1>1, RecoverTypes, SetupTypes, PrepareTypes, PublishTypes, ApplyTypes,
       CommitTypes, RollbackTypes, CleanTypes DEF Step
<1>2. CASE UNCHANGED vars
    <2>1. DiskType /\ JournalType /\ LocalType /\ GhostType
        BY TypeParts
    <2>2. DiskType' /\ JournalType' /\ LocalType' /\ GhostType'
        BY <1>2, <2>1, UnchangedParts DEF vars, ghosts, NoFault
    <2> QED
        BY <2>2, TypeParts
<1> QED
    BY <1>1, <1>2, BeginTypes, CrashTypes, ExternalTypes DEF Next

\* The executor of file_transaction, its journal and its ghosts keep their
\* types, and its loops index actions and rows in range, for every request
\* list and every bound.
THEOREM TypeCorrect == Spec => []TypeOK
<1>1. TypeInv => TypeOK
    BY DEF TypeInv
<1> QED
    BY <1>1, TypeInit, TypeNext, PTL DEF Spec

-----------------------------------------------------------------------------
(* The outcome                                                             *)

\* The labels of rollback_locked and rollback_action.
Rollback == {"state"} \cup RollingBack

\* What the rows, the failure and the journal say at each label.
RowsInv ==
    /\ pc \in Applying => fate = "open" /\ failure = "None"
    /\ rows = <<>> => failure = "None"
    /\ pc = "publish" => idx = 1
    /\ pc \in {"prepare", "publish"} => dir = "preparing" /\ subdirs = Subdirs
    /\ pc \in {"check", "mutate", "unlink", "commit", "clean"} \cup Rollback
          => dir = "transaction"
    /\ pc \in {"check", "mutate", "unlink", "commit"} \cup Rollback => JournalReadable
    /\ pc \in {"prepare", "publish"}
          => \A i \in 1 .. Len(rows) : rows[i] = "Skipped"
    /\ pc \in {"check", "mutate", "unlink"}
          => \A i \in 1 .. Len(rows) : rows[i] = IF i < idx THEN "Committed" ELSE "Skipped"
    /\ pc = "commit" => \A i \in 1 .. Len(rows) : rows[i] = "Committed"
    /\ pc \in Rollback /\ rows # <<>> =>
          /\ fate = "open" /\ failure \notin {"None", "RecoveryRequired"}
          /\ \A i \in 1 .. Len(rows) :
                i > idx => rows[i] # "Committed" /\ (rows[i] = "RecoveryRequired" => lost)
          /\ lost => \E i \in 1 .. Len(rows) : i > idx /\ rows[i] = "RecoveryRequired"
    /\ pc = "clean" /\ rows # <<>> =>
          /\ failure # "RecoveryRequired"
          /\ fate = IF failure = "None" THEN "committed" ELSE "open"
          /\ \A i \in 1 .. Len(rows) :
                IF failure = "None" THEN rows[i] = "Committed"
                                    ELSE rows[i] \notin {"Committed", "RecoveryRequired"}
    /\ OutcomeConsistent

\* A call that returns no rows says nothing about them.
LEMMA SilentReturn ==
    ASSUME NEW r, Return(r), r.kind # "outcome"
    PROVE  RowsInv'
BY DEF Return, RowsInv, OutcomeConsistent, Applying, RollingBack, Rollback

\* A call that returns rows.
LEMMA OutcomeReturn ==
    ASSUME NEW rs \in Seq(RowState), NEW f \in Failure, Return(Outcome(rs, f)),
           (\E i \in 1 .. Len(rs) : rs[i] = "RecoveryRequired") <=> f = "RecoveryRequired",
           (\E i \in 1 .. Len(rs) : rs[i] = "Committed") <=> f = "None",
           f = "None" => fate' = "committed" /\ \A i \in 1 .. Len(rs) : rs[i] = "Committed",
           f = "RecoveryRequired" => dir' = "transaction" /\ JournalReadable',
           f \notin {"None", "RecoveryRequired"} => fate' = "open" /\ dir' # "transaction"
    PROVE  RowsInv'
<1>1. ret' = Outcome(rs, f) /\ pc' = "idle" /\ failure' = "None"
    BY DEF Return
<1>2. ret'.rows = rs /\ ret'.failure = f
    BY <1>1 DEF Outcome
<1>3. OutcomeConsistent'
    BY <1>2 DEF OutcomeConsistent
<1> QED
    BY <1>1, <1>3 DEF RowsInv, Applying, RollingBack, Rollback

\* rollback_locked starts: no action has been looked at.
LEMMA RollbackStarts ==
    ASSUME NEW list \in Seq(Action), NEW rs \in Seq(RowState), NEW f,
           StartRollback(list, rs, f),
           dir' = "transaction", JournalReadable',
           rs = <<>> => f = "None",
           rs # <<>> => /\ fate' = "open" /\ f \notin {"None", "RecoveryRequired"}
                        /\ Len(rs) = Len(list)
    PROVE  RowsInv'
<1>1. pc' = "state" /\ rows' = rs /\ idx' = Len(list) /\ failure' = f
    BY DEF StartRollback
<1>2. lost' = FALSE
    BY DEF StartRollback
<1>3. OutcomeConsistent'
    BY <1>1 DEF OutcomeConsistent
<1> QED
    BY <1>1, <1>2, <1>3 DEF RowsInv, Applying, RollingBack, Rollback

\* The apply loop fails with the journal published.
LEMMA ApplyFailsRows ==
    ASSUME TypeInv, RowsInv, pc \in {"check", "mutate", "unlink"},
           NEW row \in RowState, NEW f \in Failure \ {"None", "RecoveryRequired"},
           ApplyFails(row, f), UNCHANGED <<journal, fate>>
    PROVE  RowsInv'
<1>0. LocalType
    BY TypeParts
<1>1. idx \in 1 .. Len(rows) /\ Len(rows) = Len(acts) /\ acts \in Seq(Action)
    BY <1>0 DEF LocalType, Applying
<1>2. [rows EXCEPT ![idx] = row] \in Seq(RowState)
      /\ Len([rows EXCEPT ![idx] = row]) = Len(acts)
    BY <1>0, <1>1, RowUpdate
<1>3. fate' = "open" /\ dir' = "transaction" /\ JournalReadable'
    BY DEF RowsInv, Applying, journal, JournalReadable
<1> QED
    BY <1>1, <1>2, <1>3, RollbackStarts DEF ApplyFails

\* A step inside an action of the apply loop or of the rollback loop.
LEMMA ContinuesRows ==
    ASSUME RowsInv, NEW label, ApplyContinues(label), UNCHANGED <<journal, fate>>,
           \/ pc \in {"check", "mutate", "unlink"} /\ label \in {"check", "mutate", "unlink"}
           \/ pc \in Rollback /\ label \in Rollback
    PROVE  RowsInv'
BY DEF RowsInv, ApplyContinues, journal, JournalReadable, OutcomeConsistent, Rollback,
       RollingBack, Applying

\* An action was applied.
LEMMA ActionAppliedRows ==
    ASSUME TypeInv, RowsInv, pc \in {"mutate", "unlink"}, ActionApplied,
           UNCHANGED <<journal, fate>>
    PROVE  RowsInv'
<1>0. LocalType
    BY TypeParts
<1>1. idx \in 1 .. Len(rows) /\ Len(rows) = Len(acts)
    BY <1>0 DEF LocalType, Applying
<1>2. Len(rows') = Len(rows)
      /\ \A j \in 1 .. Len(rows) : rows'[j] = IF j = idx THEN "Committed" ELSE rows[j]
    BY <1>0, <1>1, RowUpdate DEF ActionApplied, RowState
<1>3. \A j \in 1 .. Len(rows) : rows'[j] = IF j <= idx THEN "Committed" ELSE "Skipped"
    BY <1>1, <1>2 DEF RowsInv
<1>4. pc' \in {"check", "commit"} /\ failure' = failure
      /\ (pc' = "check" => idx' = idx + 1)
      /\ (pc' = "commit" => idx = Len(rows))
    BY <1>1 DEF ActionApplied
<1>5. fate' = "open" /\ failure' = "None" /\ dir' = "transaction" /\ JournalReadable'
    BY <1>4 DEF RowsInv, Applying, journal, JournalReadable
<1>6. OutcomeConsistent'
    BY <1>4 DEF OutcomeConsistent
<1> QED
    BY <1>1, <1>2, <1>3, <1>4, <1>5, <1>6 DEF RowsInv, Rollback, RollingBack, Applying

\* An action was undone, needed no undoing, or could not be undone.
LEMMA NextUndoRows ==
    ASSUME TypeInv, RowsInv, pc \in Rollback, idx # 0, UNCHANGED <<journal, fate>>,
           \/ Undone \/ UndoFails
           \/ /\ NextUndo(rows, lost) /\ rows # <<>>
              /\ rows[idx] \notin {"Committed", "RecoveryRequired"}
    PROVE  RowsInv'
<1>0. LocalType
    BY TypeParts
<1>1. pc' = "state" /\ idx' = idx - 1 /\ idx \in Nat /\ failure' = failure
    BY <1>0 DEF Undone, UndoFails, NextUndo, LocalType
<1>2. dir' = "transaction" /\ JournalReadable' /\ fate' = fate
    BY DEF RowsInv, journal, JournalReadable
<1>3. OutcomeConsistent'
    BY <1>1 DEF OutcomeConsistent
<1>4. CASE rows = <<>>
    <2>1. rows' = <<>>
        BY <1>4 DEF Undone, UndoFails, NextUndo, RowSet
    <2> QED
        BY <1>1, <1>2, <1>3, <1>4, <2>1 DEF RowsInv, Rollback, RollingBack, Applying
<1>5. CASE rows # <<>>
    <2>1. idx \in 1 .. Len(rows)
        BY <1>0, <1>5 DEF LocalType, Rollback
    <2>2. fate = "open" /\ failure \notin {"None", "RecoveryRequired"}
        BY <1>5 DEF RowsInv
    <2>3. PICK row \in RowState :
              /\ row # "Committed"
              /\ Len(rows') = Len(rows)
              /\ \A j \in 1 .. Len(rows) : rows'[j] = IF j = idx THEN row ELSE rows[j]
              /\ IF row = "RecoveryRequired" THEN lost' ELSE lost' = lost
        <3>1. CASE Undone
            BY <1>0, <1>5, <2>1, <3>1, RowUpdate DEF Undone, NextUndo, RowSet, RowState
        <3>2. CASE UndoFails
            <4>1. rows' = [rows EXCEPT ![idx] = "RecoveryRequired"]
                BY <1>5, <3>2 DEF UndoFails, NextUndo, RowSet
            <4>2. lost'
                BY <3>2, Zenon DEF UndoFails, NextUndo
            <4>3. "RecoveryRequired" \in RowState
                BY DEF RowState
            <4>4. Len(rows') = Len(rows)
                  /\ \A j \in 1 .. Len(rows) :
                        rows'[j] = IF j = idx THEN "RecoveryRequired" ELSE rows[j]
                BY <1>0, <2>1, <4>1, <4>3, RowUpdate
            <4> QED
                BY <4>2, <4>3, <4>4, Zenon
        <3>3. CASE NextUndo(rows, lost) /\ rows[idx] \notin {"Committed", "RecoveryRequired"}
            <4>1. rows' = rows /\ lost' = lost
                BY <3>3 DEF NextUndo
            <4>2. rows[idx] \in RowState
                BY <1>0, <2>1 DEF LocalType
            <4>3. WITNESS rows[idx] \in RowState
            <4> QED
                BY <2>1, <3>3, <4>1
        <3> QED
            BY <3>1, <3>2, <3>3
    <2>4. \A i \in 1 .. Len(rows') :
              i > idx' => rows'[i] # "Committed" /\ (rows'[i] = "RecoveryRequired" => lost')
        <3> SUFFICES ASSUME NEW i \in 1 .. Len(rows'), i > idx'
                     PROVE  rows'[i] # "Committed" /\ (rows'[i] = "RecoveryRequired" => lost')
            OBVIOUS
        <3>1. CASE i = idx
            BY <2>1, <2>3, <3>1
        <3>2. CASE i > idx
            <4>1. rows'[i] = rows[i] /\ rows[i] # "Committed"
                  /\ (rows[i] = "RecoveryRequired" => lost)
                BY <1>5, <2>1, <2>3, <3>2 DEF RowsInv
            <4>2. lost => lost'
                BY <2>3, Zenon
            <4> QED
                BY <4>1, <4>2
        <3> QED
            BY <1>1, <3>1, <3>2
    <2>5. lost' => \E i \in 1 .. Len(rows') : i > idx' /\ rows'[i] = "RecoveryRequired"
        <3>1. CASE lost
            <4>1. PICK i \in 1 .. Len(rows) : i > idx /\ rows[i] = "RecoveryRequired"
                BY <1>5, <3>1 DEF RowsInv
            <4>2. i > idx' /\ rows'[i] = "RecoveryRequired" /\ i \in 1 .. Len(rows')
                BY <1>1, <2>1, <2>3, <4>1
            <4> QED
                BY <4>2
        <3>2. CASE ~lost
            <4>1. lost' => row = "RecoveryRequired"
                BY <2>3, <3>2, Zenon
            <4>2. idx \in 1 .. Len(rows') /\ idx > idx' /\ rows'[idx] = row
                BY <1>1, <2>1, <2>3
            <4> QED
                BY <4>1, <4>2
        <3> QED
            BY <3>1, <3>2
    <2>6. rows' # <<>>
        BY <2>1, <2>3
    <2> QED
        BY <1>1, <1>2, <1>3, <2>2, <2>4, <2>5, <2>6 DEF RowsInv, Rollback, RollingBack, Applying
<1> QED
    BY <1>4, <1>5

\* Steps of the apply loop.
LEMMA ApplyRows ==
    ASSUME TypeInv, RowsInv,
           ApplyCheck \/ ApplyLink \/ ApplyRename \/ ApplySwap \/ ApplyUnlink
    PROVE  RowsInv'
<1>1. UNCHANGED <<journal, fate>> /\ pc \in {"check", "mutate", "unlink"}
    BY Zenon DEF ApplyCheck, ApplyLink, ApplyRename, ApplySwap, ApplyUnlink, ghosts
<1>2. /\ {"RecoveryRequired", "Conflict", "Skipped"} \subseteq RowState
      /\ {"Filesystem", "Conflict"} \cup Stops \subseteq Failure \ {"None", "RecoveryRequired"}
    BY DEF RowState, Failure, Stops
<1>3. CASE \/ ApplyFails("RecoveryRequired", "Filesystem")
           \/ ApplyFails("Conflict", "Conflict")
           \/ \E f \in Stops : ApplyFails("Skipped", f)
    BY <1>1, <1>2, <1>3, ApplyFailsRows
<1>4. CASE ApplyContinues("mutate") \/ ApplyContinues("unlink")
    BY <1>1, <1>4, ContinuesRows
<1>5. CASE ActionApplied /\ pc \in {"mutate", "unlink"}
    BY <1>1, <1>5, ActionAppliedRows
<1> QED
    BY <1>3, <1>4, <1>5
    DEF ApplyCheck, ApplyLink, ApplyRename, ApplySwap, ApplyUnlink, Applies

\* Steps of the rollback loop.
LEMMA RollbackRows ==
    ASSUME TypeInv, RowsInv,
           \/ RollbackState \/ UndoCheck \/ UndoUnlink \/ UndoRelink
           \/ UndoRestore \/ UndoSwap \/ UndoDropRemoved \/ UndoDropStage
    PROVE  RowsInv'
<1>0. LocalType
    BY TypeParts
<1>1. UNCHANGED <<journal, fate>> /\ pc \in Rollback
    BY Zenon DEF RollbackState, UndoCheck, UndoUnlink, UndoRelink, UndoRestore, UndoSwap,
           UndoDropRemoved, UndoDropStage, ghosts, Rollback, RollingBack
<1>2. idx # 0
    <2>1. CASE RollbackState
        BY <2>1 DEF RollbackState
    <2>2. CASE ~RollbackState
        <3>1. pc \in RollingBack
            BY <2>2, Zenon DEF UndoCheck, UndoUnlink, UndoRelink, UndoRestore, UndoSwap,
                        UndoDropRemoved, UndoDropStage, RollingBack
        <3> QED
            BY <1>0, <3>1, CurrentAction
    <2> QED
        BY <2>1, <2>2
<1>3. CASE Undone \/ UndoFails
    BY <1>1, <1>2, <1>3, NextUndoRows
<1>4. CASE /\ NextUndo(rows, lost) /\ rows # <<>>
           /\ rows[idx] \notin {"Committed", "RecoveryRequired"}
    BY <1>1, <1>2, <1>4, NextUndoRows
<1>5. CASE \E label \in Rollback : ApplyContinues(label)
    BY <1>1, <1>5, ContinuesRows
<1>6. CASE UndoCheck /\ ApplyContinues(UndoStep(acts[idx]))
    <2>1. acts[idx] \in Action
        BY <1>0, <1>6, CurrentAction DEF UndoCheck, RollingBack
    <2>2. UndoStep(acts[idx]) \in Rollback
        BY <2>1 DEF UndoStep, Rollback, RollingBack, Action, Kind
    <2> QED
        BY <1>5, <1>6, <2>2
<1>7. {"undo", "unlinkTarget", "dropRemoved", "dropStage"} \subseteq Rollback
    BY DEF Rollback, RollingBack
<1> QED
    BY <1>3, <1>4, <1>5, <1>6, <1>7
    DEF RollbackState, UndoCheck, UndoUnlink, UndoRelink, UndoRestore, UndoSwap,
        UndoDropRemoved, UndoDropStage, Undoes

\* The end of the rollback loop.
LEMMA RollbackDoneRows ==
    ASSUME TypeInv, RowsInv, RollbackDone
    PROVE  RowsInv'
<1>0. LocalType
    BY TypeParts
<1>1. pc = "state" /\ idx = 0 /\ pc \in Rollback /\ UNCHANGED <<journal, fate>>
      /\ rows \in Seq(RowState) /\ lost \in BOOLEAN
    BY <1>0 DEF RollbackDone, ghosts, LocalType, Rollback
<1>2. dir = "transaction" /\ dir' = "transaction" /\ JournalReadable'
    BY <1>1 DEF RowsInv, journal, JournalReadable
<1>3. rows # <<>> =>
          /\ fate = "open" /\ failure \notin {"None", "RecoveryRequired"}
          /\ \A i \in 1 .. Len(rows) :
                rows[i] # "Committed" /\ (rows[i] = "RecoveryRequired" => lost)
          /\ lost => \E i \in 1 .. Len(rows) : rows[i] = "RecoveryRequired"
    BY <1>1 DEF RowsInv
<1>4. CASE ~lost
    <2>1. ApplyContinues("clean")
        BY <1>4 DEF RollbackDone
    <2>2. rows # <<>> => \A i \in 1 .. Len(rows) : rows[i] \notin {"Committed", "RecoveryRequired"}
        BY <1>3, <1>4
    <2>3. pc' = "clean" /\ rows' = rows /\ failure' = failure /\ fate' = fate
        BY <1>1, <2>1 DEF ApplyContinues
    <2>4. OutcomeConsistent'
        BY <2>3 DEF OutcomeConsistent
    <2> QED
        BY <1>2, <1>3, <2>2, <2>3, <2>4 DEF RowsInv, Applying, Rollback, RollingBack
<1>5. CASE lost /\ rows = <<>>
    <2>1. Return(Reply("error"))
        BY <1>5 DEF RollbackDone
    <2> QED
        BY <2>1, SilentReturn DEF Reply
<1>6. CASE lost /\ rows # <<>>
    <2>1. Return(Outcome(rows, "RecoveryRequired"))
        BY <1>6 DEF RollbackDone
    <2> QED
        BY <1>1, <1>2, <1>3, <1>6, <2>1, OutcomeReturn DEF Failure
<1> QED
    BY <1>4, <1>5, <1>6

\* The transaction ends before its journal is published.
LEMMA PrepareRows ==
    ASSUME TypeInv, RowsInv, Prepare
    PROVE  RowsInv'
<1>0. LocalType
    BY TypeParts
<1>1. /\ pc = "prepare" /\ rows \in Seq(RowState) /\ idx \in 1 .. Len(rows)
      /\ fate' = "open" /\ failure = "None" /\ dir = "preparing" /\ subdirs = Subdirs
      /\ \A i \in 1 .. Len(rows) : rows[i] = "Skipped"
    BY <1>0 DEF Prepare, LocalType, RowsInv, Applying, ghosts
<1>2. ASSUME NEW rs \in Seq(RowState), NEW f \in Stops \cup {"Conflict"},
             \A i \in 1 .. Len(rs) : rs[i] \in {"Skipped", "Conflict"},
             Abandon(Outcome(rs, f))
      PROVE  RowsInv'
    <2>1. CASE DropPreparing /\ Return(Outcome(rs, f))
        BY <1>1, <1>2, <2>1, OutcomeReturn DEF DropPreparing, Failure, Stops
    <2>2. CASE Return(Reply("error"))
        BY <2>2, SilentReturn DEF Reply
    <2> QED
        BY <1>2, <2>1, <2>2 DEF Abandon
<1>3. CASE \E f \in Stops : Abandon(Outcome(rows, f))
    BY <1>1, <1>2, <1>3
<1>4. CASE Abandon(Outcome([rows EXCEPT ![idx] = "Conflict"], "Conflict"))
    <2>1. [rows EXCEPT ![idx] = "Conflict"] \in Seq(RowState)
          /\ \A i \in 1 .. Len([rows EXCEPT ![idx] = "Conflict"]) :
                [rows EXCEPT ![idx] = "Conflict"][i] \in {"Skipped", "Conflict"}
        BY <1>0, <1>1, RowUpdate DEF RowState
    <2> QED
        BY <1>2, <1>4, <2>1
<1>5. CASE Abandon(Reply("error")) \/ Return(Reply("error"))
    BY <1>5, SilentReturn DEF Abandon, Reply
<1>6. CASE /\ pc' \in {"prepare", "publish"} /\ (pc' = "publish" => idx' = 1)
           /\ UNCHANGED <<journal, rows, failure>>
    <2>1. OutcomeConsistent'
        BY <1>6 DEF OutcomeConsistent
    <2> QED
        BY <1>1, <1>6, <2>1 DEF RowsInv, Applying, Rollback, RollingBack, journal
<1> QED
    BY <1>3, <1>4, <1>5, <1>6 DEF Prepare

\* The journal is published; recovery decides; a transaction is set up.
LEMMA JournalRows ==
    ASSUME TypeInv, RowsInv, Recover \/ Setup \/ Publish
    PROVE  RowsInv'
<1>0. LocalType /\ JournalType
    BY TypeParts
<1>1. CASE Return(Reply("error"))
    BY <1>1, SilentReturn DEF Reply
<1>2. CASE Recover
    <2>1. pc = "recover" /\ rows = <<>> /\ fate' = fate
        BY <1>0, <1>2 DEF Recover, LocalType, ghosts
    <2>2. CASE Recovered
        BY <2>1, <2>2, SilentReturn
        DEF Recovered, Reply, RowsInv, OutcomeConsistent, Applying, Rollback, RollingBack
    <2>3. CASE /\ dir = "transaction" /\ pc' = "clean"
               /\ UNCHANGED <<journal, rows, failure, ret>>
        BY <2>1, <2>3
        DEF RowsInv, OutcomeConsistent, Applying, Rollback, RollingBack, journal
    <2>4. CASE /\ dir = "transaction" /\ JournalReadable /\ UNCHANGED journal
               /\ StartRollback(manifest, <<>>, "None")
        <3>1. dir' = "transaction" /\ JournalReadable'
            BY <2>4 DEF journal, JournalReadable
        <3> QED
            BY <1>0, <2>4, <3>1, RollbackStarts, EmptySeq, Zenon DEF JournalType
    <2> QED
        BY <1>1, <1>2, <2>2, <2>3, <2>4 DEF Recover
<1>3. CASE Setup /\ ~Return(Reply("error"))
    <2>1. /\ pc' = "prepare" /\ dir' = "preparing" /\ subdirs' = Subdirs
          /\ fate' = "open" /\ failure' = failure
          /\ rows' = [i \in 1 .. Len(request) |-> "Skipped"]
          /\ Len(request) \in Nat
        BY <1>0, <1>3 DEF Setup, LocalType
    <2>2. failure = "None"
        BY <1>0, <1>3 DEF Setup, RowsInv, LocalType
    <2>3. \A i \in 1 .. Len(rows') : rows'[i] = "Skipped"
        BY <2>1
    <2>4. OutcomeConsistent'
        BY <2>1 DEF OutcomeConsistent
    <2> QED
        BY <2>1, <2>2, <2>3, <2>4 DEF RowsInv, Applying, Rollback, RollingBack
<1>4. CASE Publish /\ ~Return(Reply("error"))
    <2>1. /\ pc = "publish" /\ pc' = "check" /\ dir' = "transaction" /\ manifest' = acts
          /\ UNCHANGED <<rows, failure, fate, subdirs, idx>>
        BY <1>4 DEF Publish, ApplyContinues, ghosts
    <2>2. acts # <<>>
        BY <1>0, <2>1 DEF LocalType, Applying
    <2>3. idx = 1
        BY <2>1 DEF RowsInv
    <2>4. JournalReadable' /\ fate' = "open" /\ failure' = "None"
        BY <2>1, <2>2 DEF RowsInv, JournalReadable, Applying
    <2>5. OutcomeConsistent'
        BY <2>1 DEF OutcomeConsistent
    <2>6. \A i \in 1 .. Len(rows') : rows'[i] = IF i < idx' THEN "Committed" ELSE "Skipped"
        BY <2>1, <2>3 DEF RowsInv
    <2> QED
        BY <2>1, <2>4, <2>5, <2>6 DEF RowsInv, Applying, Rollback, RollingBack
<1> QED
    BY <1>1, <1>2, <1>3, <1>4

\* The commit marker is written, or not.
LEMMA CommitRows ==
    ASSUME TypeInv, RowsInv, Commit
    PROVE  RowsInv'
<1>0. LocalType
    BY TypeParts
<1>1. /\ pc = "commit" /\ rows \in Seq(RowState) /\ Len(rows) = Len(acts) /\ rows # <<>>
      /\ Len(rows) \in Nat /\ 1 \in 1 .. Len(rows)
      /\ acts \in Seq(Action) /\ fate = "open" /\ failure = "None" /\ dir' = "transaction"
      /\ \A i \in 1 .. Len(rows) : rows[i] = "Committed"
    BY <1>0 DEF Commit, LocalType, RowsInv, Applying
<1>2. JournalReadable'
    BY <1>1 DEF Commit, RowsInv, JournalReadable
<1>3. CASE fate' = "committed" /\ pc' = "clean" /\ UNCHANGED <<locals, ret>>
    <2>1. OutcomeConsistent'
        BY <1>3 DEF OutcomeConsistent
    <2> QED
        BY <1>1, <1>3, <2>1 DEF RowsInv, locals, Applying, Rollback, RollingBack
<1>4. CASE /\ fate' = fate
           /\ \E f \in Stops \cup {"Filesystem"} : StartRollback(acts, rows, f)
    BY <1>1, <1>2, <1>4, RollbackStarts DEF Stops
<1>5. CASE Return(Outcome([i \in 1 .. Len(rows) |-> "RecoveryRequired"], "RecoveryRequired"))
    <2> DEFINE rs == [i \in 1 .. Len(rows) |-> "RecoveryRequired"]
    <2>1. rs \in Seq(RowState) /\ Len(rs) = Len(rows)
          /\ \A i \in 1 .. Len(rows) : rs[i] = "RecoveryRequired"
        BY <1>1 DEF RowState
    <2>2. \E i \in 1 .. Len(rs) : rs[i] = "RecoveryRequired"
        BY <1>1, <2>1
    <2>3. ~\E i \in 1 .. Len(rs) : rs[i] = "Committed"
        BY <2>1
    <2>4. "RecoveryRequired" \in Failure
        BY DEF Failure
    <2> HIDE DEF rs
    <2> QED
        BY <1>1, <1>2, <1>5, <2>1, <2>2, <2>3, <2>4, OutcomeReturn DEF rs
<1> QED
    BY <1>3, <1>4, <1>5 DEF Commit

\* The journal directory is removed.
LEMMA CleanRows ==
    ASSUME TypeInv, RowsInv, CleanEntry \/ CleanSubdirectory \/ CleanDone \/ CleanFails
    PROVE  RowsInv'
<1>0. LocalType
    BY TypeParts
<1>1. pc = "clean" /\ rows \in Seq(RowState) /\ failure \in Failure /\ fate' = fate
      /\ (rows # <<>> => 1 \in 1 .. Len(rows))
    <2>1. pc = "clean" /\ fate' = fate
        BY Zenon DEF CleanEntry, CleanSubdirectory, CleanDone, CleanFails, ghosts
    <2>2. rows \in Seq(RowState) /\ failure \in Failure
        BY <1>0 DEF LocalType
    <2> QED
        BY <2>1, <2>2
<1>2. rows # <<>> =>
          /\ failure # "RecoveryRequired"
          /\ fate = IF failure = "None" THEN "committed" ELSE "open"
          /\ \A i \in 1 .. Len(rows) :
                IF failure = "None" THEN rows[i] = "Committed"
                                    ELSE rows[i] \notin {"Committed", "RecoveryRequired"}
    BY <1>1 DEF RowsInv
<1>3. CASE CleanEntry \/ CleanSubdirectory
    <2>1. UNCHANGED <<pc, rows, failure, fate, dir>>
        BY <1>3 DEF CleanEntry, CleanSubdirectory, ghosts
    <2>2. OutcomeConsistent'
        BY <1>1, <2>1 DEF OutcomeConsistent
    <2> QED
        BY <1>1, <2>1, <2>2 DEF RowsInv, Applying, Rollback, RollingBack
<1>4. ASSUME NEW e \in BOOLEAN, Removed(e), e \/ dir' # "transaction"
      PROVE  RowsInv'
    <2>1. CASE Return(Reply("error"))
        BY <2>1, SilentReturn DEF Reply
    <2>2. CASE rows = <<>> /\ Recovered
        <3>1. CASE request = <<>>
            BY <2>2, <3>1, SilentReturn DEF Recovered, Reply
        <3>2. CASE request # <<>>
            <4>1. pc' = "setup" /\ failure' = failure
                BY <2>2, <3>2 DEF Recovered
            <4>2. failure = "None"
                BY <2>2 DEF RowsInv
            <4> QED
                BY <4>1, <4>2 DEF RowsInv, OutcomeConsistent, Applying, Rollback, RollingBack
        <3> QED
            BY <3>1, <3>2
    <2>3. CASE rows # <<>> /\ (e => failure = "None") /\ Return(Outcome(rows, failure))
        <3>1. failure # "None" => dir' # "transaction"
            BY <1>4, <2>3
        <3>2. ~\E i \in 1 .. Len(rows) : rows[i] = "RecoveryRequired"
            BY <1>2, <2>3
        <3>3. (\E i \in 1 .. Len(rows) : rows[i] = "Committed") <=> failure = "None"
            BY <1>1, <1>2, <2>3
        <3> QED
            BY <1>1, <1>2, <2>3, <3>1, <3>2, <3>3, OutcomeReturn
    <2>4. CASE rows = <<>>
        BY <1>4, <2>1, <2>2, <2>4, Zenon DEF Removed
    <2>5. CASE rows # <<>> /\ e /\ failure # "None"
        BY <1>4, <2>1, <2>5 DEF Removed
    <2>6. CASE rows # <<>> /\ ~(e /\ failure # "None")
        BY <1>4, <2>3, <2>6 DEF Removed
    <2> QED
        BY <2>4, <2>5, <2>6
<1>5. CASE CleanDone
    BY <1>4, <1>5, Zenon DEF CleanDone
<1>6. CASE CleanFails
    BY <1>4, <1>6, Zenon DEF CleanFails
<1> QED
    BY <1>3, <1>5, <1>6

\* Every step keeps the rows, the failure and the journal consistent.
LEMMA RowsNext == TypeInv /\ RowsInv /\ [Next]_vars => RowsInv'
<1> SUFFICES ASSUME TypeInv, RowsInv, [Next]_vars PROVE RowsInv'
    OBVIOUS
<1>1. CASE Step
    BY <1>1, JournalRows, PrepareRows, ApplyRows, CommitRows, RollbackRows,
       RollbackDoneRows, CleanRows DEF Step
<1>2. CASE \/ UNCHANGED vars
           \/ \E p \in Path : External(p)
    <2>1. UNCHANGED <<pc, locals, ret, journal, fate>>
        BY <1>2 DEF vars, External, ghosts
    <2> QED
        BY <2>1 DEF RowsInv, locals, journal, JournalReadable, OutcomeConsistent
<1>3. CASE (\E r \in Requests : Begin(r)) \/ BeginRecovery
    <2>1. pc' \in {"idle", "recover"} /\ ret'.kind # "outcome" /\ failure' = failure /\ rows' = rows
        BY <1>3 DEF Begin, BeginRecovery, Reply
    <2> QED
        BY <2>1 DEF RowsInv, OutcomeConsistent, Applying, Rollback, RollingBack
<1>4. CASE Crash
    BY <1>4 DEF Crash, Reply, RowsInv, OutcomeConsistent, Applying, Rollback, RollingBack
<1> QED
    BY <1>1, <1>2, <1>3, <1>4 DEF Next

\* What a caller may conclude from the outcome of file_transaction: no row is
\* Committed unless all are and the COMMITTED marker was written,
\* RecoveryRequired is reported exactly when some row says so and with the
\* journal still readable, and any other failure leaves nothing committed and
\* no published journal; whatever crashes, calls fail or files change.
THEOREM OutcomeSound == Spec => []OutcomeConsistent
<1>1. Init => RowsInv
    <2> SUFFICES ASSUME Init PROVE RowsInv
        OBVIOUS
    <2>1. /\ pc = "idle" /\ failure = "None"
          /\ pc \notin Applying /\ pc \notin Rollback
        BY DEF Init, Applying, Rollback, RollingBack
    <2>2. OutcomeConsistent
        BY DEF Init, Reply, OutcomeConsistent
    <2> QED
        BY <2>1, <2>2 DEF RowsInv
<1>2. RowsInv => OutcomeConsistent
    BY DEF RowsInv
<1> QED
    BY <1>1, <1>2, TypeInit, TypeNext, RowsNext, PTL DEF Spec
=============================================================================
