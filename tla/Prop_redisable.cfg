\* The chain graph, where a:i#0 (restart on Restart) passes an admin disable
\* of b:j on to a:i; any order of two disables of a:i and b:j.
CONSTANTS
    Store <- ChainGraph
    Targets = {"a:i", "b:j"}
    ExtReasons = {}
    MaxRequests = 2
SPECIFICATION Spec
\* The driver sends MaxRequests requests and then nothing more.
CHECK_DEADLOCK FALSE
INVARIANT DisabledGoesDown
