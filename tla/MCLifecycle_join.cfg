SPECIFICATION FairSpec
CONSTANT MaxUnread = 3
PROPERTY DestructorReturns
