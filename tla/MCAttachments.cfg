\* Two calls at a time, one account, two sessions, two uploads to one challenge, every failure.
CONSTANTS
  h1 = h1
  h2 = h2
  n1 = n1
  n2 = n2
  t1 = t1
  t2 = t2
  c1 = c1
  f1 = f1
  f2 = f2
  i1 = i1
  i2 = i2
  Handlers = {h1, h2}
  Names = {n1}
  Tokens = {t1, t2}
  Challenges = {c1}
  Filenames = {f1, f2}
  Uploads = {i1, i2}
  Targets = {c1, i1, i2}
  AdminOps = {"CreateChallenge", "DeleteChallenge", "UploadAttachment", "DeleteAttachment"}
  Faults = {"fail", "lost", "kill"}
SPECIFICATION Spec
SYMMETRY Symmetry
INVARIANT TypeOK
PROPERTIES AuthorisedChanges DeadCauses OrphanCauses
