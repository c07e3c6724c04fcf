\* Five requests under two keys; three sessions with room for one; three loads by any of
\* uploads, cleaning passes and imports, and a write of the raw frame that fails; two commits of a
\* skill; three turns and six runs of an analysis; three downloads.
\* Nineteen files, tables of five rows and a limit of two megabytes; eight papers of five characters
\* a passage, two names and two changes; two steps and six answers of three figures; four hosts of
\* models, two requests for their models and one change of a key.
SPECIFICATION MCSpec
CONSTANTS
  up1 = up1
  up2 = up2
  sa = sa
  sb = sb
  sc = sc
  r3 = r3
  r4 = r4
  r5 = r5
  k1 = k1
  k2 = k2
  s1 = s1
  s2 = s2
  ask = ask
  tell = tell
  NoKey = NoKey
  Requests = {up1, up2, r3, r4, r5}
  Keys = {k1, k2}
  Sessions = {s1, s2}
  KeyOf <- MCKeyOf
  SessionOf <- MCSessionOf
  BodyOf <- MCBodyOf
  SessionIds = {sa, sb, sc}
  Threads = {up1, up2}
  MaxActive = 1
  Makes = {"rows"}
  third = third
  pulled = pulled
  Files = {up1, up2, third}
  RawName = third
  Conns = {"w"}
  TableKey <- MCTableKey
  Ruled = {pulled}
  Fallible = {third}
  MaxLoads = 3
  MaxFailures = 1
  MaxCommits = 2
  Turners = {sa, sb, sc}
  Threshold = 3
  MaxRuns = 6
  ModelNames = {up1, up2}
  Listers = {"lister"}
  MaxPulls = 3
  ab = ab
  adotb = adotb
  ab1 = ab1
  blank = blank
  price = price
  five = five
  three = three
  words = words
  Uploads <- MCUploads
  MaxUpload = 2
  RowLimit = 5
  ParseChunk = 4
  MinRows = 4
  Ratio = 50
  Stem <- StemOf
  MoneyNames = {price}
  AmountOf <- Amounts
  Papers <- MCPapers
  PaperNames = {up1, up2}
  ChunkChars = 5
  Overlap = 2
  TopK = 2
  MaxPages = 3
  MaxRanked = 3
  MaxChanges = 2
  dropna = dropna
  partial = partial
  Outputs <- MCOutputs
  Answers <- MCAnswers
  Asked = {2000}
  Trivial = {0, 100}
  Thresholds = {1, 5}
  Markers <- MCMarkers
  Caveats <- MCCaveats
  MaxSteps = 2
  nobody = nobody
  NoModel = nobody
  Dialect <- MCDialect
  Served <- MCServed
  Pinned <- MCPinned
  Preferred <- MCPreferred
  ApiKeys = {"k"}
  Pages = {up1, up2}
  MaxAsked = 2
  MaxKeyChanges = 1
INVARIANTS
  TypesHold
  RetriesHold
  SessionsHold
  DataHolds
  IntakeHolds
PROPERTIES
  SkillsHold
  DownloadsAreSeen
SYMMETRY Symmetry
CHECK_DEADLOCK FALSE
