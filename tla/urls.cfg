\* One message: decoding, the policy at the edges of every range, silent
\* resolver and database; the message is finished at the end
SPECIFICATION FairSpec
CONSTANTS
  Messages <- MCMessages
  Answers <- MCAnswers
  GlobalRules <- MCGlobalRules
  WorkspaceRules <- MCWorkspaceRules
  LabelBytes <- MCLabelBytes
  MalformedLabels = {"", "-"}
  MAX_URL_BYTES = 6
  MAX_URLS_PER_MESSAGE = 2
  MAX_NAME_BYTES = 13
  MAX_DNS_ADDRESSES = 2
INVARIANTS ExtractsOnce PolicyExact OnlyAdmitted ReceiptHonest NeverPoisonous Inv
PROPERTIES Ends
CHECK_DEADLOCK FALSE
