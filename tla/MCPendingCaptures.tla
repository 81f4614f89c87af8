------------------------- MODULE MCPendingCaptures -------------------------
EXTENDS PendingCaptures

\* The second Watch command was given before the first.
MCKindOf == <<"text", "audio", "recording", "checkoff", "complete", "defer",
              "pomodoro", "pomodoro", "corrupt", "checkoff">>
MCCreatedAt == <<1, 1, 1, 1, 2, 1, 2, 1, 1, 1>>
MCBatches == {{1, 2}, {2, 3}, {1, 4}, {4, 5}, {5, 6}, {7, 8, 6}, {1, 9}, {4, 10}}
=============================================================================
