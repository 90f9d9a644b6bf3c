\* Two requests at a time; clients upload, mount, push, refer and tag in turn.
CONSTANTS
  h1 = h1
  h2 = h2
  r1 = r1
  r2 = r2
  a = a
  b = b
  m1 = m1
  m2 = m2
  m3 = m3
  u1 = u1
  Handlers = {h1, h2}
  Repos = {r1, r2}
  Chunks = {a, b, m1, m2, m3}
  UploadIds = {u1}
  Bodies <- MCBodies
  Layers <- MCLayers
  Manifests <- MCManifests
  Needs <- MCNeeds
  Subject <- MCSubject
  Tags = {1, 2, 3}
  MaxLen = 3
  Mixes <- MCMixes
  MaxBoots = 2
SPECIFICATION Spec
SYMMETRY Symmetry
INVARIANTS TypeOK LayersIntact ManifestsIntact AckedKept  PagesFollow
PROPERTIES KeepsPromise ReferrersKept
CHECK_DEADLOCK FALSE
