CONSTANTS
 Clients = {c1, c2}
 Absent = Absent
 MaxUsers = 2
 Names = {n1, n2}
 Passwords = {p1, p2}
 Keys = {"k1", "k2"}
 Manifests <- MCManifests
 Raws <- MCRaws
 MaxVersion = 2
 MaxBoards = 2
 Widgets = {w1}
 Sensors = {s1}
 Rules = {r1}
 Channels = {h1, h2}
 Alerts = {a1}
 Bodies <- MCBodies
 Patches <- MCPatches
 Plugins = {i1, d1}
 Integrations = {i1}
SPECIFICATION AccountsSpec
SYMMETRY Symmetry
CHECK_DEADLOCK FALSE
INVARIANT NeverLockedOut
