------------------------- MODULE MCCachedTokenSource -------------------------
EXTENDS CachedTokenSource

\* Three concurrent callers, as in TestCachedTokenSource (which uses ten).
MCCallers == {"g1", "g2", "g3"}

\* One extra key besides the ones update() writes.
MCConfigKeys == {"scopes"}

\* No token command (cmd-path absent).
MCNoOutputs == {}

=============================================================================
