SPECIFICATION AccessSpec
CONSTANTS
    MaxPosts = 2
    Staff = {olive, adam}
    Invitee = ann
    MaxInvitations = 2
    MaxRequests = 2
    MaxAcceptances = 2
    MaxFlows = 3
    Users = {a}
    Calls = {read}
    MaxPairs = 3
CHECK_DEADLOCK FALSE
INVARIANTS AccessTypeOK OneInstallation TestShownIsOfTheSettings
    OneOpenLink OneOwner SessionIsOnePersons
    RefreshTokensArePostedOnce DataIsOfThisLogin
PROPERTIES ClosedLinksStayClosed MembershipsComeFromOpenLinks AdminInvitationsAreTheOwners
