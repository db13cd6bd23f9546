SPECIFICATION Spec
CONSTANTS
    app = app
    saved = saved
    friend = friend
    bob = bob
    me = me
    ChannelOrder <- MCChannelOrder
    AppChannel = app
    Friend = friend
    Nicks <- MCNicks
    Friends <- MCFriends
    Me = me
    MaxSessions = 2
    MaxClicks = 2
    MaxLink = 1
    MaxRequests = 1
INVARIANTS
    TypeOK
    ViewsAgree
    ListedOnce
    Converged
PROPERTY
    Rejoins
