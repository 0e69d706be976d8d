\* fsplugin_impl.hpp:699-700, the local file's real mtime is what gets sent.
SPECIFICATION FairSpec
CONSTANTS
    MaxVersion = 1
    Wrap = 8
    Window = 2
    Chunks <- MCOneFile
    Dates <- MCBefore1970
INVARIANT RealDateArrives
