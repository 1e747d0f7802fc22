CONSTANTS
  Sources <- McSources
  Slices <- McSlices
  MaxLines = 2
  Floor = 30
  Views <- McViews
  Offers <- McOffers
  Patches <- McPatches
  Paths <- McFiles
  Lockfiles = {lock}
  code = code
  lock = lock
  Base <- McBase
  Trees <- McTrees
  Bots = {b1, b2}
  Others = {x}
  MaxCommits = 3
  MaxEvents = 7
  MaxFaults = 1
  Bodies <- McBodies
  Allowances = {6, 7, 9, 10, 11, 12, 13, 14, 15, 16, 17, 18, 19, 20, 21, 22, 23, 24, 25, 26}
  FoldNotice = 2
  Reports <- McReports
  Proses <- McProses
  Limits = {8, 9, 12, 14, 15, 16, 17, 18, 19, 20, 21, 22, 23, 24, 25, 26, 27, 28, 30, 32, 34, 37, 39, 40, 41}
  BodyHeader = 1
  MarkerFooter = 1
  ProseFooter = 2
  Trailer = 1
  Heading = 1
  SkippedFrame = 3
  ClosingLine = 2
  LeastFold = 3
  Repos <- McRepos
  MaxImportDepth = 2
  MaxFileBytes = 3
  MaxTotalBytes = 6
  MaxRuleFiles = 4
  MaxDigestBytes = 4
  MaxDigestTotalBytes = 5
  Claim = {c1, c2}
  KnownBug = {b1}
  u1 = u1
  u2 = u2
  k1 = k1
  k2 = k2
  k3 = k3
  PostedReviews <- McPostedReviews
  Golden <- McGolden
  CoreGolden = {k1, k3}
  Producer <- McProducer
  MaxPosted = 3
SPECIFICATION MCSpec
INVARIANTS FindingsAreGrounded FixesHitTheQuote WalkTellsTruth ReviewsAddUp FoldKeepsMeaning GithubReviewTellsAll
  RulesAreAccounted MeasurementIsTrue
CHECK_DEADLOCK FALSE
