---------------------------- MODULE MCIrcServer ----------------------------
(***************************************************************************)
(* Small instances of IrcServer for TLC.                                   *)
(***************************************************************************)
EXTENDS IrcRefinement, TLC

CONSTANTS f1, f2, f3

FdSymmetry == Permutations(Fds)

\* "AL" and "al" are one nickname under ircCaseFold; so are "#C" and "#c".
MCFold == [s \in {"al", "AL", "bo", "cy", "#c", "#C", "#d"} |->
             CASE s = "AL" -> "al" [] s = "#C" -> "#c" [] OTHER -> s]

M(adding, mode, arg) == [adding |-> adding, mode |-> mode, arg |-> arg]

NoModeLines == {}

\* +i, -i
InviteModeLines == {<<M(TRUE, "i", NoKey)>>, <<M(FALSE, "i", NoKey)>>}

\* +o bo, -o bo, -o al+i (an operator may deprive itself first), -o+o al al
OperatorModeLines ==
  {<<M(TRUE, "o", "bo")>>, <<M(FALSE, "o", "bo")>>,
   <<M(FALSE, "o", "al"), M(TRUE, "i", NoKey)>>,
   <<M(FALSE, "o", "al"), M(TRUE, "o", "al")>>}

\* Every mode with good and bad arguments.
AllModeLines ==
  InviteModeLines \cup
  {<<M(TRUE, "t", NoKey), M(TRUE, "k", "k1"), M(TRUE, "l", 1)>>,
   <<M(TRUE, "k", NoKey), M(TRUE, "l", 0), M(TRUE, "?", NoKey)>>,
   <<M(FALSE, "l", 0), M(FALSE, "k", "k1")>>,
   <<M(FALSE, "t", NoKey), M(TRUE, "l", 2)>>,
   <<M(FALSE, "o", "al"), M(TRUE, "o", "AL")>>,
   <<M(TRUE, "o", "bo")>>}
=============================================================================
