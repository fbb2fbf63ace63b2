---------------------------- MODULE MCLifecycle ----------------------------
EXTENDS Lifecycle

CONSTANTS wasi, networking, s1, s2

\* The two extension modules of the repository; only networking looks up
\* kernel symbols.
MCExtensions == {wasi, networking}
MCSymbols == {networking}

MCSessions == {s1, s2}
=============================================================================
