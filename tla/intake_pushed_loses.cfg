SPECIFICATION Spec
CONSTANTS
  r1 = r1  r2 = r2  r3 = r3  p = p  f = f  i = i  x = x  y = y  z = z  ix = ix  iy = iy  il = il
  Requests = {r1, r2, r3}
  Activities = {p, f, i}
  ActOf <- OneOfEach
  Inbound = {i}
  LocalFollows = {f}
  Public = {p}
  Recipients = {x, y, z}
  Fickle = {y}
  To <- MCTo
  Inboxes = {ix, iy, il}
  InboxOf <- MCInboxOf
  LocalInbox = il
  Process = Process
  Backends = {"redis"}
  MaxFaults = 1
INVARIANTS AcceptedMeansQueued
