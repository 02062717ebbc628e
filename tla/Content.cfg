SPECIFICATION ContentSpec
CONSTANTS
  Readers = {p1, p2}
  Writers = {x1, x2}
  MaxVersion = 3
  MaxGen = 2
  PostIDs = {x1, x2}
  Txs = {p1, p2}
  Bodies = {a, b}
  Assets = {m1}
  SEOFields = {title}
  NoAsset = NoAsset
  SlugAttempts = 2
  Keep = 1
  MaxOps = 4
  CommentIDs = {x1, x2}
  Users = {u1}
  CommentTxs = {p1, p2}
  NoParent = NoParent
  Policies = {"open", "disabled"}
  MaxDepth = 1
  FlagThreshold = 1
  RequireApproval = FALSE
  GuestEnabled = TRUE
  MaxCommentOps = 5
SYMMETRY Symmetry
INVARIANTS PostsInvariant CommentsInvariant
PROPERTIES ImplementsFreshReads NoLostUpdate PostSteps ModerationIsSafe
CHECK_DEADLOCK FALSE
