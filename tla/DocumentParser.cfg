SPECIFICATION Spec
CONSTANTS
  Tags = {"h2", "li", "ul", "td", "tr", "table", "nav", "a", "form", "input", "label", "button", "template"}
  k1 = k1
  Keys = {k1}
  NoKey = NoKey
  MaxTokens = 6
INVARIANTS
  TypeOK
  EveryWordInOneBlock
  FlowKeepsOrder
  FormsAndControlsAgree
CHECK_DEADLOCK FALSE
