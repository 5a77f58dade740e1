CONSTANTS
  Blobs = {"x", "y"}
  Larges = {"l"}
  RootOf <- MCRootOf
  Scenes <- MCScenes
SPECIFICATION FSpec
INVARIANT OthersRestore
CHECK_DEADLOCK FALSE
