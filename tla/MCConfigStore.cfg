\* Two requests at once over one name, one at a time over two; a channel, two
\* saves and a test; three sign-ins or changes of a password at once; one press
\* of "Update now" beside the loop; a chat of two rounds of two calls while the
\* assistant's settings are saved; three uploads to the virtual printer
\* over two changes of its settings.
SPECIFICATION MCSpec
CONSTANTS
  n1 = n1
  s1 = s1
  Names = {n1, n2}
  Settings = {s1, s2}
  Handlers = {h1, h2}
  NoPrinter = NoPrinter
  MaxChanges = 3
  SoloChanges = 2
  MaxCrashes = 1
  Channels = {c1}
  Addresses = {a1, a2}
  NoticeEvents = {e1}
  MaxSaves = 2
  MaxTests = 1
  Requests = {r1, r2, r3}
  Callers = {c1}
  Slots = 2
  FreeTries = 2
  MaxLocks = 1
  Clicks = {k1}
  MaxFailures = 1
  Hosted = {hosted1}
  Own = {own1}
  Lookups = {look1}
  Chats = {t1}
  MaxToolRounds = 1
  MaxCalls = 2
  MaxAiSaves = 1
  l1 = l1
  x1 = x1
  SlicerPorts = {l1, l2}
  SlicerKeys = {x1, x2}
  SlicerFiles = {u1, u2, u3}
  MaxUploads = 2
  MaxApplies = 2
SYMMETRY Symmetry
INVARIANT AnsweredIsKept
INVARIANT SettledFileIsLive
PROPERTY FileNeverGoesBack
INVARIANT ConnectionsFollowIfAlone
INVARIANT ServicesAreUsedRight
INVARIANT UpdateIsWhole
INVARIANT SignInIsSafe
CHECK_DEADLOCK FALSE
