----------------------------- MODULE MCLibrary -----------------------------
(* Instance of Library for TLC.                                             *)
EXTENDS Library

\* "b" is a name the shell does not start.
MCRefused == {<<"b">>}

\* The first years, and the turns of the leap years 2000, 2096 and 2104 and of the
\* year 2100, which is none.
MCDays == (0 .. 1500) \cup (10900 .. 11400) \cup (46000 .. 46100) \cup (47400 .. 47950)
          \cup (48950 .. 49100)
=============================================================================
