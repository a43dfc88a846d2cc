---------------------------- MODULE MCCommitWal ----------------------------
(* Instances of CommitWal for TLC. *)
EXTENDS CommitWal

MCShapes == {<<"insert", "insert">>, <<"insert", "update">>, <<"delete">>}
MCSmallShapes == {<<"insert">>, <<"update">>}
=============================================================================
