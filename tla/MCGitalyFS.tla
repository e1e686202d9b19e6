----------------------------- MODULE MCGitalyFS -----------------------------
(***************************************************************************)
(* GitalyFS on a repository of two levels of directories.                  *)
(***************************************************************************)
EXTENDS GitalyFS

MCNames == {"a", "b", "f", ".gitkeep"}
MCDirs == {<<>>, <<"a">>, <<"a", "b">>}
MCFiles == {<<"f">>, <<"a", "b", "f">>, <<"a", "b", ".gitkeep">>}

\* One file at the root, or one two levels down, or both.
MCInitialRepos ==
  {r \in [Files -> {None, Empty}] :
     r[<<"a", "b", ".gitkeep">>] = None /\ \E f \in Files : r[f] # None}

\* Every listing, and the size and the data of the two files.
MCReadKeys ==
  {k \in Keys : IF k.kind = "tree" THEN k.path \in Dirs
                ELSE k.path \in {<<"f">>, <<"a", "b", "f">>}}

\* A file of each level is created and edited and moves to the other, and
\* the inner directory is made.
MCOps ==
  [kind : {"create"}, path : {<<"f">>, <<"a", "b", "f">>}]
    \cup [kind : {"mkdir"}, path : {<<"a", "b">>}]
    \cup [kind : {"update"}, path : {<<"f">>, <<"a", "b", "f">>},
          content : Contents \ {Empty}]
    \cup {[kind |-> "move", from |-> <<"f">>, path |-> <<"a", "b", "f">>],
          [kind |-> "move", from |-> <<"a", "b", "f">>, path |-> <<"f">>]}

\* A smaller tree for two goroutines, with a directory that moves and a file
\* that grows too large for the cache.
DirsSmall == {<<>>, <<"a">>, <<"b">>}
FilesSmall == {<<"a", "f">>, <<"b", "f">>, <<"b", ".gitkeep">>}
InitialSmall ==
  {[f \in Files |-> IF f = <<"a", "f">> THEN c ELSE None] :
     c \in Contents \ ({Empty} \cup Large)}
OpsSmall ==
  {[kind |-> "move", from |-> <<"a">>, path |-> <<"b">>],
   [kind |-> "create", path |-> <<"b", "f">>],
   [kind |-> "mkdir", path |-> <<"b">>]}
    \cup [kind : {"update"}, path : {<<"a", "f">>}, content : Large]
ReadSmall ==
  {Key("tree", <<>>), Key("tree", <<"a">>), Key("meta", <<"a", "f">>),
   Key("blob", <<"a", "f">>)}
=============================================================================
