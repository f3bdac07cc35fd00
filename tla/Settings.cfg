SPECIFICATION MCSpec
CONSTANTS
 None = None
 Section = {"remote", "mcp", "plugins", "ai-apps", "ai-models", "ai-limits"}
 MaxOps <- MCMaxOps
 MaxTasks = 2
 MaxFails = 1
 Profile = {"p1","p2","p3"}
 Saved = {"p1","p2"}
 Multiplexed = {"p1"}
 Host = {"h"}
 Tmux = {"s"}
 Server = {"context7", "docs"}
 Process = {"files"}
 Remote = {"docs"}
 Default_ = "context7"
 Endpoint = {"", "e"}
 Plugin = {"x","y","z"}
 Installed = {"x","y"}
 Provider = {"a","b","c"}
 Configured = {"a","b"}
 Models <- ModelSeq
 Runs <- RunSeq
 Title = {"x", "y"}
 Locale = {"en", "ru"}
 MaxActs = 5
 MaxDrops = 1
 Field <- MCField
 Low <- MCLow
 High <- MCHigh
 Step <- MCStep
 Default <- MCDefault
 MaxChanges = 5
 MaxFaults = 2
INVARIANTS BusyHasOwner  FormMatchesTarget ShownIsSaved
PROPERTIES SaveKeepsOthers
CHECK_DEADLOCK FALSE
