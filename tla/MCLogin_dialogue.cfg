CONSTANTS
  Char = {"y", "n"}
  Accounts <- One
  Rest <- Stack
  MaxLen = 2
  MaxUsers = 2
SPECIFICATION Spec
INVARIANTS SessionInDesktop CanFinish
PROPERTIES PromptStartsEmpty
