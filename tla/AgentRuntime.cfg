\* Three first camera files, three server files, four answers, one edit of
\* server.json, one change of the answer and one kill at any point.
SPECIFICATION Spec
CONSTANTS
  AllowInsecure = FALSE
  CameraFiles <- MCCameraFiles
  ServerFiles <- MCServerFiles
  Remotes <- MCRemotes
  OnvifTasks = {"pollers", "regions"}
  MaxEdits = 1
  MaxCrashes = 1
  MaxPolls = 1
INVARIANTS OneRuntime OneOperatorServer CanonicalIds
PROPERTY FollowsServer
