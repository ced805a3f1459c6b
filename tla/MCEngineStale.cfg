CONSTANTS
  Roots <- MCRoots
  Registries <- MCRegistries
  JitFaults = {"create", "add"}
  Foreign <- MCForeign
  Tolerated = {"llvm"}
  MaxSaved = 7
  Base = 4
  U32Bytes = 2
  FormatVersion = 2
  HeaderMagic <- MCHeaderMagic
  FooterMagic <- MCFooterMagic
  Host <- MCHost
  Other <- MCOther
  RetByte <- MCRetByte
  ObjectBytes <- MCObjectBytes
  ExtensionLists <- MCExtensionLists
SPECIFICATION Spec
INVARIANT EntryIsSafe
CHECK_DEADLOCK FALSE
