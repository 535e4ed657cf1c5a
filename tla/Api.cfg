CONSTANTS
 Clients = {c1, c2}
 Absent = Absent
 MaxUsers = 2
 Names = {n1, n2}
 Passwords = {p1, p2}
 Keys = {"k1", "k2"}
 Manifests <- MCManifests
 Raws <- MCRaws
 MaxVersion = 2
 MaxBoards = 2
 Widgets = {w1}
 Sensors = {s1}
 Rules = {r1}
 Channels = {h1, h2}
 Alerts = {a1}
 Bodies <- MCBodies
 Patches <- MCPatches
 Plugins = {i1, d1}
 Integrations = {i1}
SPECIFICATION ApiSpec
SYMMETRY Symmetry
\* In some states every request is refused: nobody can sign in, or the keys
\* and versions of the instance are used up.
CHECK_DEADLOCK FALSE
INVARIANTS
 ApiTypeOK
 ConfigIsTyped
PROPERTIES
 LastUserStays
 ChangeRaisesVersion
 OverridesKept
 DefaultFollowsRequests
 NoDataStaysSound
 LinksFollowRequests
