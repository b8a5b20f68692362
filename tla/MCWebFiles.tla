---- MODULE MCWebFiles ----
EXTENDS WebFiles
CONSTANTS db, journal
MCChunk == {[at |-> 0, len |-> 1], [at |-> 1, len |-> 2]}
====
