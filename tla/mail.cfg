SPECIFICATION FairSpec
CONSTANTS
  a = a
  b = b
  Boxes <- MCBoxes
  Mails <- MCMails
  BoxOf <- MCBoxOf
  Unreadable <- MCUnreadable
  FirstAccounts <- MCFirstAccounts
  IMAP_MAX_ACCOUNTS = 2
  MAX_ATTEMPTS = 2
  SEARCH_LIMIT = 2
  MAX_QUEUE_SIZE = 1
  MaxRequests = 2
  MaxResets = 1
INVARIANTS ImapInv SeenMailPaged OnePagePerMail
PROPERTY UnreadMailPaged
