\* Three processes, two names for one mailbox of three bytes (two can be used).
CONSTANTS
  Tasks = {t1, t2, t3}
  MBOX_NUM = 1
  MAX_MBOX_LENGTH = 3
  Names = {"a", "b"}
  Messages <- MCMessages
  Lengths <- MCLengths
SPECIFICATION MailboxSpec
  
PROPERTY PipeHolds
