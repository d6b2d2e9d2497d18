SPECIFICATION Spec
CONSTANT QueryCacheMax = 2
INVARIANTS MatchExact QueryExact RankExact TokenExact LayoutExact AnsiExact ServerExact
CHECK_DEADLOCK FALSE
