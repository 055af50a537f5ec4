----------------------------- MODULE MCCalendar -----------------------------
\* A walk over six eras' worth of years in both directions from the epoch: from
\* before year 0, where the sign of the arithmetic changes, to after 2400.
EXTENDS Calendar

MCFirstYear == -2
=============================================================================
