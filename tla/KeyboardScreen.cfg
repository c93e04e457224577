SPECIFICATION Spec
CONSTANTS
  a = a
  lower = lower
  upper = upper
  text = text
  ROWS = 2
  COLUMNS = 4
  BYTE = 3
  Glyphs = {lower, upper, text}
  Space = Space
  Views <- MCViews
  NewLine = NewLine
  Letters = {a}
  CapsLock = CapsLock
  Enter = Enter
  Backspace = Backspace
  Other = Other
  Glyph <- MCGlyph
  KEYBOARD_BUFFER_SIZE = 3
  COPIED = 3
  NUL = NUL
  Garbage = Garbage
  Texts <- MCTexts
  Prompt <- MCPrompt
  MaxRow = 1
  MaxCol = 2
CONSTRAINT Tame
INVARIANTS
  TypeOK
  ScreenShowsLine
PROPERTY PromptKept
