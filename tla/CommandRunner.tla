---------------------------- MODULE CommandRunner ----------------------------
(***************************************************************************)
(* What the script interpreter relies on when it hands a pipeline to its   *)
(* NativeCommandRunner: one answer; a successful one carries an exit for   *)
(* every stage and no more output than the allowance it was given; and by  *)
(* the time of the answer none of the children is running any more.        *)
(***************************************************************************)
EXTENDS Integers, Sequences

CONSTANTS Width,      \* the largest number of stages
          MaxOutput   \* bounds the output of one command

VARIABLES stages, limit, live, answer
vars == <<stages, limit, live, answer>>

Exits == {"ok", "fail", "signal"}
Errors == {"CaptureLimit", "Redirection", "Failed"}
NoAnswer == [result |-> "none"]

Answers(n, allowance) ==
    {a \in [result : {"Ok"}, exits : [1 .. n -> Exits], out : 0 .. MaxOutput, err : 0 .. MaxOutput] :
        a.out + a.err <= allowance}
    \union [result : Errors]

Init == stages \in 1 .. Width /\ limit \in Nat /\ live = {} /\ answer = NoAnswer

Start(i) ==
    /\ answer = NoAnswer /\ i \in 1 .. stages
    /\ live' = live \union {i}
    /\ UNCHANGED <<stages, limit, answer>>
Stop(i) ==
    /\ live' = live \ {i}
    /\ UNCHANGED <<stages, limit, answer>>
Give ==
    /\ answer = NoAnswer
    /\ answer' \in Answers(stages, limit)
    /\ answer'.result = "Ok" => live = {}
    /\ live' = {}
    /\ UNCHANGED <<stages, limit>>

Next == (\E i \in 1 .. stages : Start(i) \/ Stop(i)) \/ Give
Spec == Init /\ [][Next]_vars
=============================================================================
