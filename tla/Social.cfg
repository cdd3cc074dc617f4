SPECIFICATION SocialSpec
CONSTANTS
    Actors = {a, b}
    Slots = {s1, s2}
    Anonymous = anonymous
    InitialFollows <- MCInitialFollows
    Posts <- MCPosts
    InitialLegacy = {0, 2}
    MaxRequests = 3
    MaxDeaths = 1
SYMMETRY MCSymmetry
INVARIANTS
    BlockCutsFollow
    NoticesBounded
    ListsAgree
    OneActiveKey
PROPERTIES
    FollowNeedsConsent
    OneConversation
CHECK_DEADLOCK FALSE
