---------------------------- MODULE MCIrcSystem ----------------------------
(***************************************************************************)
(* Small instances of IrcSystem for TLC.                                   *)
(***************************************************************************)
EXTENDS IrcSystem, TLC

CONSTANTS f1, f2

\* Descriptors and nicknames are interchangeable: no mode line names a nickname.
Symmetry == Permutations(Fds) \cup Permutations(Nicks)

MCFold == [s \in Nicks \cup ChanNames |-> s]
M(adding, mode, arg) == [adding |-> adding, mode |-> mode, arg |-> arg]

\* +i-i: two steps of one command.
TwoChanges == {<<M(TRUE, "i", NoKey), M(FALSE, "i", NoKey)>>}
=============================================================================
