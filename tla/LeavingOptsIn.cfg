SPECIFICATION RecordsSpec
CONSTANTS
  Lists = {x1, x2}
  Txs = {p1, p2}
  ConfirmPerWindow = 1
  MaxTokens = 2
  MaxWindow = 2
  MaxOps = 3
  Assets = {x1, x2}
  MediaCalls = {p1, p2}
  NoAsset = NoAsset
  MaxMediaOps = 0
  MaxCats = 3
  CatCalls = {p1, p2}
  MaxCatOps = 0
  TagIDs = {t1, t2, t3}
  TagSlugs = {x1, x2}
  TaggedPosts = {y1, y2}
  TagCalls = {p1, p2}
  NoTag = NoTag
  NoSlug = NoSlug
  MaxTagOps = 0
  SettingKeys = {x1, x2}
  ServerKeys = {k3}
  Updates = {p1, p2}
  MaxUpdatesMade = 0
  ProfileCalls = {p1, p2}
  Visitors = {v1}
  MaxViews = 3
  Topics = {c1}
  Labels = {t1}
  Images = {x1, x2}
  Editors = {p1, p2}
  MaxEdits = 0
PROPERTIES LeavingNeverOptsIn
CHECK_DEADLOCK FALSE
