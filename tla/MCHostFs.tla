------------------------------ MODULE MCHostFs ------------------------------
(***************************************************************************)
(* Small instances of HostFs for TLC.                                      *)
(***************************************************************************)
EXTENDS HostFs

\* "b" is in the root and in "a", so that a lookup in the wrong directory finds
\* something.
OneDir == {<<"a">>, <<"b">>, <<"a", "b">>}

Rel(names) == [dv |-> NULL, abs |-> FALSE, names |-> names]
On(dv, names) == [dv |-> dv, abs |-> TRUE, names |-> names]

\* FilesFind and Cd in and below both directories.
FindArgs == {Rel(<<"a">>), Rel(<<"b">>)}

\* Del of everything, of one name, and of a name in a directory of the other drive,
\* which may not be there; a directory and the file in it have the same name, so
\* that a removal in the wrong directory finds something.
Nested == {<<"a">>, <<"a", "a">>}
DelArgs == {Rel(<<"*">>), Rel(<<"a">>), On(1, <<"a", "a">>)}
=============================================================================
