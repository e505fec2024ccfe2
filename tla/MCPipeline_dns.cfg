SPECIFICATION Spec
CONSTANTS
    mailbox = mailbox
    role = role
    Absent = Absent
    Roles = {role}
    Checks = {mailbox, role}
    Replies <- MCReplies
    Histories <- MCHistories
CHECK_DEADLOCK FALSE
INVARIANT OutagesAreNeverInvalid
