SPECIFICATION Spec
CONSTANTS
  d1 = d1
  d2 = d2
  d3 = d3
  n1 = n1
  n2 = n2
  n3 = n3
  A = A
  B = B
  C = C
  D = D
  f = f
  g = g
  h = h
  front = front
  back = back
  solo = solo
  gap = gap
  w = w
  y = y
  r1 = r1
  r2 = r2
  r3 = r3
  author = author
  guest = guest
  Gone = Gone
  New = New
  Empty = Empty
  Deck = {d1, d2, d3}
  Note = {n1, n2, n3}
  Type = {A, B, C, D}
  Card = {1, 2, 3, 4, 5, 6, 7, 8}
  Field = {f, g, h, w, y}
  Template = {front, back, solo, gap, w, y}
  Cloze = {C}
  Ordinals = {0, 1}
  Request = {r1, r2}
  UserOf <- MCUserOf
  Edits <- MCEdits
  Manages <- MCManages
  OwnerOf <- MCOwnerOf
  maxFieldsPerNoteType = 2
  maxTemplatesPerNoteType = 2
  Imported <- OnlyStandard
  Kinds <- TypeAndNoteEdits
PROPERTY NeverRepoints
