SPECIFICATION Spec
CONSTANTS
  me = me
  o1 = o1
  o2 = o2
  bob = bob
  bobT = bobT
  former = former
  bot = bot
  Me = me
  Others = {o1, o2}
  NoNick = NoNick
  Nicks = {bob, bobT, former, bot}
  Bare <- MCBare
  Bot = bot
  Casts <- MCCasts
  Pasts <- MCPasts
  Backlog = 1
  Budgets <- MCBudgets
INVARIANTS TypeOK ListAgrees LabelCounts
SYMMETRY Symmetry
CHECK_DEADLOCK FALSE
