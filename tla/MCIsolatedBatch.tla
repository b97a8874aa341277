--------------------------- MODULE MCIsolatedBatch ---------------------------
EXTENDS IsolatedBatch

TwoFiles == {"a", "b"}
OneOrBoth == {{"a"}, {"a", "b"}}
AllResults == {"ok", "blocked", "failed", "policy", "protected", "none"}
=============================================================================
