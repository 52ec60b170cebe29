--------------------------- MODULE MCDroneMission ---------------------------
(* An instance of DroneMission for TLC.                                    *)
EXTENDS DroneMission

\* Messages of one character, of which it takes two or more to fill the
\* receive buffer, one of two, and one that is longer than the buffer.
MCMark == <<2, 4, 7, 9, 11, 13, 19>>
=============================================================================
