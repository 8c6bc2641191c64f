---------------------------- MODULE MCContextSwitch ----------------------------
(* Two windows, two server processes, one or two `context` commands.        *)
EXTENDS ContextSwitch, TLC

Symmetry == Permutations(Windows) \cup Permutations(Proc) \cup Permutations(Switcher)

=============================================================================
