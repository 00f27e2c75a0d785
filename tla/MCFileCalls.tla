---------------------------- MODULE MCFileCalls ----------------------------
(* Small instances of FileCalls for TLC: a disk, and what is run on it. *)
EXTENDS FileCalls

CONSTANTS p1, p2

MCName == {".", "..", "d", "e", "f", "g", "h", "s", "t"}

Inode(t, n) == [type |-> t, nlink |-> n]
Entries(i, up, e) == [n \in MCName |->
    CASE n = "." -> i [] n = ".." -> up [] n \in DOMAIN e -> e[n] [] OTHER -> None]
NoEntries == [n \in MCName |-> None]

\* /d/f is a file, /d/e/h a directory; /s leads to /d/f and /t to itself.
MCImage == [
    disk |-> <<Inode("dir", 2), Inode("dir", 2), Inode("dir", 2), Inode("dir", 1),
               Inode("file", 1), Inode("sym", 1), Inode("sym", 1),
               Inode("free", 0), Inode("free", 0)>>,
    dir  |-> <<Entries(1, 1, ("d" :> 2) @@ ("s" :> 6) @@ ("t" :> 7)),
               Entries(2, 1, ("e" :> 3) @@ ("f" :> 5)),
               Entries(3, 2, "h" :> 4), Entries(4, 3, <<>>),
               NoEntries, NoEntries, NoEntries, NoEntries, NoEntries>>,
    text |-> <<<<>>, <<>>, <<>>, <<>>, <<>>, <<"/", "d", "f">>, <<"/", "t">>, <<>>, <<>>>>]

F == <<"d", "f">>
On(op, pth) == [op |-> op, path |-> pth]
Opening(pth, m) == [op |-> "open", path |-> pth, mode |-> m]
From(op, old, new) == [op |-> op, path |-> old, new |-> new]
Plain(op) == [op |-> op]

Both(a, b) == [calls |-> (p1 :> a) @@ (p2 :> b), cwd |-> [p \in Proc |-> ROOTINO]]

\* A file comes and goes under its names, and under the link that leads to it.
Files == Both({Opening(<<"s">>, "write"), From("link", F, <<"g">>), On("exec", <<"s">>)},
              {On("unlink", F), On("creat", F), On("unlink", <<"s">>)})

\* Links that lead to links, and to themselves.
Links == Both({From("symlink", <<"s">>, <<"g">>), Opening(<<"g">>, "read"), Opening(<<"t">>, "read")},
              {On("unlink", <<"g">>), From("symlink", F, <<"g">>), Opening(<<"t">>, "stat")})

\* A directory is removed that somebody is in, or about to enter.
Dirs == Both({On("mkdir", <<"/", "g">>), On("chdir", <<"d", "e", "h">>), Opening(<<"..", "h">>, "write")},
             {On("unlink", <<"d", "e", "h">>), On("unlink", <<"d">>), On("mkdir", <<"d", "e", "h">>)})

\* Names are entered while the directories are climbed, or are there already.
Paths == Both({On("realpath", F), On("realpath", <<"d", "e", "h", "g">>), On("mknod", <<"d", "e", "g">>),
               From("link", F, <<"s">>)},
              {From("symlink", <<"g">>, <<"d", "e", "g">>), From("link", F, <<"d", "e", "g">>),
               From("link", F, <<"g", "g">>), On("chdir", F)})

\* The child shares what its parent has open.
Children == [calls |-> (p1 :> {On("creat", <<"g">>), Plain("dup"), Plain("fork"), Plain("exit")})
                    @@ (p2 :> {On("unlink", <<"g">>), Plain("close"), Plain("exit")}),
             cwd |-> (p1 :> ROOTINO) @@ (p2 :> None)]

MCPrograms == {Files, Links, Dirs, Paths, Children}

\* One process makes the file that the other removes.
MCMakeAndRemove == {Both({On("creat", <<"g">>)}, {On("unlink", <<"g">>)})}
=============================================================================
