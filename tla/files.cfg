SPECIFICATION MCSpec
CONSTANTS
  Peers = {q1, q2}
  Statics = {s1, s2}
  Procs = {chat, verify}
  Chats = {chat}
  Inodes = {i1, i2, i3, i4}
  None = None
  Torn = Torn
  Overlap = FALSE
  MaxFailures = 0
  Ids = {a, b, c}
  Passphrases = {x, y}
  NoPass = NoPass
INVARIANTS WhileAlone WhateverOverlaps
PROPERTY KeepsPinStore
CHECK_DEADLOCK FALSE
