\* Two requests at once on administrators, settings, support or notifications.
CONSTANTS
    Procs = {p1, p2}
    MaxCalls = 4
    Topics = {"admins", "settings", "support", "notifications"}
    Administrators = {ad1, ad2}
    NoAdmin = NoAdmin
    Otps = {o1, o2}
    NoOtp = NoOtp
    Rows = {r1, r2}
    NoSettings = NoSettings
    Limits = {1, 2}
    Unset = Unset
    Keys = {k1, k2}
    Switches = {sw1}
    NoSwitch = NoSwitch
    Customers = {x1}
    NoCustomer = NoCustomer
    Conversations = {cv1, cv2}
    NoConversation = NoConversation
    Messages = {m1, m2}
    NoMessage = NoMessage
    AuthRows = {ar1}
    NoAuthRow = NoAuthRow
    AuthCodes = {ac1, ac2}
    NoAuthCode = NoAuthCode
    Recipients = {rc1, rc2}
    NoRecipient = NoRecipient
    Undefined = Undefined
    Notes = {n1, n2, n3}
    NoNote = NoNote
    Sockets = {so1}
SPECIFICATION BackofficeSpec
CHECK_DEADLOCK FALSE
SYMMETRY BackofficeSymmetry
INVARIANTS AdminsInv SettingsInv SupportInv TotalShownUnlessRaced
    AnsweredWhenAllNotified
PROPERTIES AdminRowsKeptUnlessRaced MaximumAboveMinimumUnlessRaced
    OpenedOnceUnlessRaced
