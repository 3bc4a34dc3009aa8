---------------------------- MODULE MCModelsCache ----------------------------
(* Instance of ModelsCache for TLC: two directories on PATH, agy in either, in both or
   in neither, of every kind; AGY_PATH unset, empty, the second file, or a command. *)
EXTENDS ModelsCache, TLC

First == <<"first", "agy", "">>
Second == <<"second", "agy", "">>

MCFiles == {First, Second}
MCPath == <<"first", "second">>
MCExtensions == <<"">>
MCSetups ==
  {First :> "executable" @@ Second :> "executable", First :> "plain" @@ Second :> "executable",
   First :> "absent" @@ Second :> "directory"}
MCAgyPaths == {Unset, Blank, File(Second), Command("agy")}
Symmetry == Permutations(Clients)
===============================================================================
