----------------------------- MODULE MCInterlock -----------------------------
EXTENDS Interlock

\* Two limits above the seed level, and two windows: the second leaves the
\* lower pressure out.
MCLimits  == {1, 2}
MCWindows == {[low |-> 1, high |-> 2], [low |-> 2, high |-> 3]}
=============================================================================
