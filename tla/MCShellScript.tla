--------------------------- MODULE MCShellScript ---------------------------
EXTENDS ShellScript

MCDirectories == {<<>>, <<<<"a">>>>}
MCExecutables == {<<<<"t">>>>, <<<<"a">>, <<"b">>>>}
MCFiles == {<<<<"t">>>>, <<<<"a">>, <<"b">>>>}
MCEnvironment == (<<"PATH">> :> <<"/", ":", "a">>) @@ (<<"HOME">> :> <<"/", "a">>)
MCOutputs == {<<>>, <<"x", "\n">>, <<"a", " ", "b">>}

Sub(text) == <<"$", "(">> \o text \o <<")">>
And == <<" ", "&", "&", " ">>
Or == <<" ", "|", "|", " ">>
Tool == <<"t">>
Echo1(text) == <<"echo", " ">> \o text
Exit(code) == <<"exit", " ", code>>

MCSources == {
    Tool \o And \o Tool \o Or \o Echo1(<<"x">>),
    Echo1(Sub(Tool) \o <<" ", ">", "a", "/">> \o Sub(Tool) \o <<" ", "x">> \o Sub(<<"exit", " ", "5">>)),
    <<"export", " ", "x", "=">> \o Sub(<<"cd", " ", "a", ";", "pwd">>) \o And \o <<"cd", " ", "$", "x">>,
    <<"cd", " ", "a", "|">> \o Tool \o <<";", "b", ";", "unset", " ", "x">>,
    <<"set", " ", "-o", " ", "pipefail", ";">> \o Tool \o <<"|">> \o Echo1(Sub(<<"ls">>)) \o <<"|">> \o Tool,
    <<"exit", " ", "2", " ", ">", "x", ";">> \o Tool,
    <<"exit", ";", "pwd">>,
    <<"jobs", ";", "cat", " ", "t", " ", "2", ">", "&", "1", Or[1], "|", "|", "grep", " ", "x", " ", "t">>,
    <<"touch", " ", "b", And[1], "&", "&", "rm", " ", "b", "|", "ls", " ", "$", "?", ";", "cat", " ", "-", " ", "<", "*">>,
    <<"t", " ", "<", "b", ";", "$", "x", ";", "linux:", "t", ";", "native:", "t", "|", "jobs">>,
    <<"echo", " ", "'", "x">> }
MCProfiles == {<<"export", " ", "x", "=", "b">>, <<"exit", ";", "pwd">>, <<"echo", " ", "'", "x">>}
====
