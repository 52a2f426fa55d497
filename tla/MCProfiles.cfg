\* Two commands over a named profile and the default sign-in, while the user
\* edits the file; DOCBRAIN_SERVER_URL may name the other server.
CONSTANTS
  Process = {c1, c2}
  Profile = {reader}
  Server = {localhost, prod}
  Key = {k1, k2}
  DEFAULT_SERVER_URL = localhost
  Default = default
  EnvKeys = {}
  FlagKeys = {}
  EnvServers = {prod}
  None = none
SPECIFICATION Spec
SYMMETRY Symmetry
INVARIANTS TypeOK SavedKeyGoesHome OwnConversation NeverMoved
PROPERTIES OwnSignInOnly OnlyRevokedForgotten
