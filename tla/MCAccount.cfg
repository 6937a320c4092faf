SPECIFICATION Spec
CONSTANTS
  Tabs = {t1, t2}
  NoNick = NoNick
  NoRecord = NoRecord
  Good = {n1, n2}
  Reserved = {bad}
  Kinds = {theme, font}
  Looks = {plain, fancy}
  Plain = plain
  MaxIds = 3
  MaxTyped = 2
  MaxSockets = 4
SYMMETRY Symmetry
INVARIANTS TypeOK NickAgrees LogoutForgets ChoiceKept
CHECK_DEADLOCK FALSE
