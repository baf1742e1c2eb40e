------------------------------- MODULE MCText -------------------------------
(***************************************************************************)
(* A small instance of Text.                                               *)
(***************************************************************************)
EXTENDS Text

\* A line feed, and the units at the boundaries of UTF-8 and of the surrogates: the
\* last of one byte; the first and last of two; the first of three; the first and
\* last high surrogate; the first, the last and another low one; the last unit.
BoundaryUnits == {10, 127, 128, 2047, 2048, 55296, 56319, 56320, 56897, 57343, 65535}
=============================================================================
