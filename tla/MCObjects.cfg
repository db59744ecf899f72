\* Every combination of a URL's parts, whole and cut once.  A handler that sets and ends
\* in every order.  All texts and all places of a small buffer; lengths within it, past
\* its end, and "all there is".  One address fewer than listeners.
CONSTANTS
  Targets <- MCTargets
  MaxPieces = 2
  FieldMod = 32
  MaxPort = 65535
  Bodies = {0, 5}
  Statuses = {100, 200, 299, 404}
  Supported = {100, 200, 404}
  Spellings = {"Content-Length", "content-length", "CONTENT-TYPE", "X"}
  Values = {3, 7}
  MaxCalls = 4
  Byte = {0, 1}
  Capacity = 3
  Behind = 3
  SizeMod = 16
  MaxText = 4
  Starts = {0, 1, 2, 3}
  Lens = {0, 1, 2, 3, 4, 15}
  Base = 4
  PacketCapacity = 16
  MagicBytes <- MCMagicBytes
  Cmds = {0, 9}
  Numbers <- MCNumbers
  Strings <- MCStrings
  MaxEntries = 3
  MaxReads = 3
  MaxListeners = 4
  MaxDepth = 2
  Addresses = {1, 2, 3}
SPECIFICATION MCSpec
INVARIANTS UrlExact UrlAccessors ResponseExact CodecExact
PROPERTIES ImplementsBytes EmitterSound
\* A request has one URL, and all other calls are counted.
CHECK_DEADLOCK FALSE
