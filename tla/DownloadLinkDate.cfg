\* fsplugin_impl.hpp:530-534, a download through a symlink does not carry the link's date.
SPECIFICATION FairSpec
CONSTANTS
    MaxVersion = 1
    MaxCalls = 1
    MaxCrashes = 0
    Chunks <- MCOneVersion
INVARIANT LinkDateNotKept
