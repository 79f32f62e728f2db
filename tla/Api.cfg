\* any two methods; logins at any time; logins between the other calls
SPECIFICATION Spec
CONSTANT
    Applications <- MCApplications
INVARIANTS
    AnswersOnce
    SuccessIsSent
    SentByItsAccount
CHECK_DEADLOCK FALSE
