------------------------- MODULE MCFileTransaction -------------------------
(***************************************************************************)
(* Instances of FileTransaction for TLC. Action i of a request works on the *)
(* paths a_i (a file with content "old") and b_i (absent).                  *)
(***************************************************************************)
EXTENDS FileTransaction

MCPath == {"a1", "b1", "a2", "b2"}
MCContent == {"old", "new", "ext"}
MCForeign == {"ext"}

A(i) == <<"a1", "a2">>[i]
B(i) == <<"b1", "b2">>[i]

Act(k, p, d, e, c) ==
    [kind |-> k, path |-> p, dest |-> d, expected |-> e, content |-> c]

\* One action of each kind on the paths of slot i, and a Replace whose new
\* content is the old one.
Slot(i) ==
    { Act("Create", B(i), "-", "-", "new"),
      Act("Copy", A(i), B(i), "old", "-"),
      Act("Move", A(i), B(i), "old", "-"),
      Act("Remove", A(i), "-", "old", "-"),
      Act("Replace", A(i), "-", "old", "new"),
      Act("Replace", A(i), "-", "old", "old") }

\* Requests that validate_actions refuses.
Refused ==
    { <<>>,
      <<Act("Create", "b1", "-", "-", "new"), Act("Copy", "a1", "b1", "old", "-")>>,
      <<Act("Move", "a1", "-", "old", "-")>> }

Pairs == {<<x, y>> : x \in Slot(1), y \in Slot(2)}
MixedRequests == Pairs \cup Refused

\* Two transactions in a row on the same files.
ChainRequests ==
    { <<Act("Replace", "a1", "-", "old", "new"), Act("Move", "a2", "b2", "old", "-")>>,
      <<Act("Copy", "a1", "b1", "new", "-"), Act("Remove", "b2", "-", "old", "-")>> }

\* Everywhere but between a check and the system call that relies on it.
CheckedLabels == {"idle", "recover", "setup", "prepare", "publish", "check",
                  "commit", "state", "undo", "clean"}

MCWorkspaces ==
    { [p \in MCPath |->
         CASE p = "a1" -> [ino |-> 1, c |-> "old"]
           [] p = "a2" -> [ino |-> 2, c |-> "old"]
           [] OTHER    -> [ino |-> 0, c |-> "-"]] }
=============================================================================
