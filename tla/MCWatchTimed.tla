----------------------------- MODULE MCWatchTimed -----------------------------
EXTENDS WatchTimed

WatchOptions == {[base |-> 0, max |-> 0], [base |-> 3, max |-> 4], [base |-> 3, max |-> 2]}
=============================================================================
