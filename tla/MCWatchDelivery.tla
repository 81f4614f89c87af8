-------------------------- MODULE MCWatchDelivery --------------------------
EXTENDS WatchDelivery
CONSTANTS t, c, r

\* A command has three ways to the phone and comes alone; a text competes with a
\* recording for the worker.
MCBatches == {{c}, {t, r}}
=============================================================================
