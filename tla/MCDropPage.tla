---------------------------- MODULE MCDropPage ----------------------------
(* An instance of DropPage for TLC.                                        *)
EXTENDS DropPage

\* The browser's clock is behind the relay's, in step with it, or ahead.
SomeSkews == {-1, 0, 1}
===========================================================================
