----------------------------- MODULE MCLemonFS -----------------------------
(***************************************************************************)
(* Bitmap blocks of few bits, directory blocks of one entry and link       *)
(* blocks of one pointer, so that a handful of calls fills each of them.   *)
(***************************************************************************)
EXTENDS LemonFS

C(path, type) == [path |-> path, type |-> type]
W(path, n) == [path |-> path, sectors |-> n]

\* Two files in a directory that grow and shrink.
Files ==
  [creates |-> {C(<<"d">>, "dir"), C(<<"d", "a">>, "file"), C(<<"d", "b">>, "file")},
   writes  |-> {W(<<"d", "a">>, 1), W(<<"d", "a">>, 3), W(<<"d", "a">>, 4), W(<<"d", "b">>, 2)},
   routes  |-> {}, syncs |-> FALSE]

\* A symlink to a directory, and a file that is reached through it.
Links ==
  [creates |-> {C(<<"d">>, "dir"), C(<<"l">>, "link"), C(<<"l", "a">>, "file")},
   writes  |-> {W(<<"l", "a">>, 2)},
   routes  |-> {[path |-> <<"l">>, dest |-> <<"d">>]}, syncs |-> TRUE]

MCWorkloads == {Files, Links}
=============================================================================
