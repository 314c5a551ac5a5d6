---------------------------- MODULE MCWinPlugins ----------------------------
(* A library in versions of different lengths, a tool and an application that need it. *)
EXTENDS WinPlugins, TLC

CONSTANTS lib, tool, app, r1, r2

Package(id, ver, needs, runtime, mdl) ==
  [id |-> id, ver |-> ver, needs |-> needs, runtime |-> runtime, model |-> mdl]
Need(id, min) == [id |-> id, min |-> min]

Lib1 == Package(lib, <<1>>, <<>>, r1, FALSE)
Lib10 == Package(lib, <<1, 0>>, <<>>, r2, FALSE)
Lib2 == Package(lib, <<2>>, <<>>, r1, TRUE)
Tool1 == Package(tool, <<1>>, <<Need(lib, <<1>>)>>, NoRuntime, FALSE)
App1 == Package(app, <<1>>, <<Need(lib, <<1, 0>>)>>, NoRuntime, FALSE)
App2 == Package(app, <<2>>, <<Need(tool, <<1>>), Need(lib, <<2>>)>>, NoRuntime, FALSE)
Tool2 == Package(tool, <<2>>, <<Need(app, <<2>>)>>, NoRuntime, FALSE)

MCPackages == {Lib1, Lib10, Lib2, Tool1, Tool2, App1, App2}
MCUploads == {Lib2, App1, App2}
World(installed, offered) == [installed |-> installed, catalog |-> offered]
MCWorlds == {World({}, {Lib1, Lib2, Tool1}), World({Lib1}, {Tool1}), World({Lib10, App1}, {Tool2}),
             World({Lib1, Tool1}, {Lib10})}
Symmetry == Permutations(Callers) \union Permutations(PlanIds)
=============================================================================
