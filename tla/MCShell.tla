------------------------------- MODULE MCShell -------------------------------
(* Small instances of Shell for TLC. *)
EXTENDS Shell

Exec(name) == [type |-> "EXEC", prog |-> name]
Echo(args) == [type |-> "EXEC", prog |-> "echo", args |-> args]
KillOf(pid) == [type |-> "EXEC", prog |-> "kill", pid |-> pid]
Pipeline(l, r) == [type |-> "PIPE", left |-> l, right |-> r]
List(l, r) == [type |-> "LIST", left |-> l, right |-> r]
Back(c)    == [type |-> "BACK", cmd |-> c]

\* A letter stands for a command; init is process 1, the shell 2, the process
\* that runs the command 3, the left side of its pipe 4 and the right one 5.
MCParse(line) ==
    CASE line[1] = "e" -> Pipeline(Echo(<<"x", "y", "z", "x", "y">>), Exec("cat"))
      [] line[1] = "c" -> Pipeline(Exec("cat"), Exec("wc"))
      [] line[1] = "l" -> Pipeline(Echo(<<"x">>), Pipeline(Exec("cat"), Exec("wc")))
      [] line[1] = "r" -> Pipeline(KillOf(5), Exec("cat"))
      [] line[1] = "k" -> Pipeline(Exec("cat"), KillOf(4))
      [] line[1] = "s" -> Pipeline(Exec("cat"), KillOf(2))
      [] line[1] = "w" -> Pipeline(Exec("cat"), KillOf(3))
      [] line[1] = "b" -> Back(Pipeline(Exec("cat"), Exec("wc")))
      [] OTHER -> Exec("none")

MCScripts == {
    <<"e", "\n">>,
    <<"l", "\n">>,
    <<"c", "\n", "x", "^H", "x", "y", "\n", "^D">>,
    <<"r", "\n">>,
    <<"k", "\n", "x", "\n">>,
    <<"w", "\n", "^D">>,
    <<"s", "\n", "^D">>,
    <<"x", "^U", "x", "x", "x", "x", "\n">>,
    <<"b", "\n", "^D">> }

MCByte == {"e", "l", "c", "r", "k", "w", "s", "b", "x", "y", "z", "\n", "^H", "^U", "^D", "_"}
=============================================================================
