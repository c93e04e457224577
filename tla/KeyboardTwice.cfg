SPECIFICATION Spec
CONSTANTS
  a = a
  lower = lower
  upper = upper
  text = text
  ROWS = 2
  COLUMNS = 4
  BYTE = 256
  Glyphs = {lower, upper, text}
  Space = Space
  Views = {{}}
  NewLine = NewLine
  Letters = {a}
  CapsLock = CapsLock
  Enter = Enter
  Backspace = Backspace
  Other = Other
  Glyph <- MCGlyph
  KEYBOARD_BUFFER_SIZE = 4
  COPIED = 3
  NUL = NUL
  Garbage = Garbage
  Texts <- MCTexts
  Prompt <- MCPrompt
  MaxRow = 1
  MaxCol = 2
INVARIANT ProcessesTheKeyRead
