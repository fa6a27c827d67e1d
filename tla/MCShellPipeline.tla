--------------------------- MODULE MCShellPipeline ---------------------------
EXTENDS ShellPipeline

Stage(kind, reads, redirs, out, err) == [kind |-> kind, reads |-> reads, redirs |-> redirs, out |-> out, err |-> err]
ToFile(f, path) == [fd |-> f, path |-> path, mode |-> IF f = "in" THEN "Read" ELSE "Write"]
Merge == [fd |-> "err", from |-> "out"]
Swap == [fd |-> "out", from |-> "err"]

Cmd(redirs, out, err) == Stage("native", TRUE, redirs, out, err)
Cat(redirs) == Stage("portable", TRUE, redirs, 0, 0)
Echo(redirs, out) == Stage("portable", FALSE, redirs, out, 0)
Cd(redirs) == Stage("stateful", FALSE, redirs, 0, 0)

MCPipelines ==
    { <<Cmd(<<>>, 2, 1)>>,
      <<Cmd(<<Merge>>, 1, 1)>>,
      <<Echo(<<Swap, ToFile("in", "f")>>, 2)>>,
      <<Cmd(<<>>, 2, 1), Cmd(<<>>, 1, 0)>>,
      <<Cmd(<<Merge>>, 1, 1), Cat(<<>>)>>,
      <<Cat(<<ToFile("in", "f")>>), Cmd(<<ToFile("out", "g")>>, 1, 1)>>,
      <<Cmd(<<ToFile("out", "f")>>, 1, 0), Echo(<<>>, 1)>>,
      <<Echo(<<>>, 2), Cat(<<>>), Cmd(<<Swap>>, 1, 0)>>,
      <<Cmd(<<>>, 2, 0), Cat(<<>>), Cat(<<ToFile("out", "f"), Swap>>)>>,
      <<Cmd(<<>>, 1, 0), Cd(<<ToFile("err", "f"), ToFile("out", "g")>>), Cmd(<<>>, 1, 1)>>,
      <<Stage("wsl", TRUE, <<>>, 1, 0), Cmd(<<ToFile("in", "f")>>, 0, 1), Cd(<<>>)>> }
=============================================================================
