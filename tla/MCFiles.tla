------------------------------ MODULE MCFiles -------------------------------
(* An instance of FileSystem for TLC. *)
EXTENDS FileSystem

dir(nlink, up, self, ents) ==
  [type |-> "dir", nlink |-> nlink, ents |-> <<dirent(".", self), dirent("..", up)>> \o ents]
file == [type |-> "file", nlink |-> 1, ents |-> <<>>]

\* /a is a directory, /b a file.
TreeImage == <<dir(2, 1, 1, <<dirent("a", 2), dirent("b", 3)>>), dir(1, 1, 2, <<>>), file, Free>>
\* /a and /a/b are directories.
DirImage == <<dir(2, 1, 1, <<dirent("a", 2)>>), dir(2, 1, 2, <<dirent("b", 3)>>), dir(1, 2, 3, <<>>), Free>>

Op(op, path, new) == [op |-> op, path |-> path, new |-> new]

\* Calls about files: a name comes and goes while the file is open.
FileCalls ==
  {Op("creat", <<"b">>, <<>>), Op("unlink", <<"b">>, <<>>), Op("open", <<"b">>, <<>>),
   Op("link", <<"b">>, <<"a", "b">>), Op("link", <<"b">>, <<"a", "c">>), Op("creat", <<"a">>, <<>>),
   Op("unlink", <<"a", "b">>, <<>>)}

\* Calls about directories: the current directory is removed, ".." is looked up.
DirCalls ==
  {Op("chdir", <<"a", "b">>, <<>>), Op("chdir", <<"..">>, <<>>),
   Op("unlink", <<"/", "a", "b">>, <<>>), Op("unlink", <<"/", "a">>, <<>>),
   Op("mkdir", <<"c">>, <<>>), Op("mknod", <<"..", "c">>, <<>>), Op("link", <<"c">>, <<"/">>)}

\* Calls to be cut short by a crash.
CrashCalls ==
  {Op("creat", <<"b">>, <<>>), Op("unlink", <<"b">>, <<>>), Op("link", <<"b">>, <<"a", "b">>),
   Op("open", <<"b">>, <<>>), Op("mkdir", <<"a", "b">>, <<>>), Op("unlink", <<"a", "b">>, <<>>)}

MCScenarios == {"links", "dirs", "crash"}
MCImage == [s \in MCScenarios |-> IF s = "dirs" THEN DirImage ELSE TreeImage]
MCCalls == [s \in MCScenarios |-> CASE s = "links" -> FileCalls [] s = "dirs" -> DirCalls [] s = "crash" -> CrashCalls]
MCMaxCalls == [s \in MCScenarios |-> 3]
MCMaxCrash == [s \in MCScenarios |-> IF s = "crash" THEN 1 ELSE 0]

\* The bounded calls have all returned, or the kernel panicked; every other state
\* without a next one is a deadlock.
Ended == (Quiet \/ panicked # "") /\ UNCHANGED vars
MCSpec == Init /\ [][Next \/ Ended]_vars
=============================================================================
