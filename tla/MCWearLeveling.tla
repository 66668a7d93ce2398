--------------------------- MODULE MCWearLeveling ---------------------------
\* A store behind which there is erased flash, or two zeros with a byte of
\* something.  Once a call has failed and said so nothing is promised any more,
\* and such a state is not followed further.
EXTENDS WearLeveling

MCBeyond == {<<0, 0>>, <<1, 3>>}

NoneFailed == ~failed
=============================================================================
