SPECIFICATION MtSpec
CONSTANTS
  MtMeshes <- mt_meshes
INVARIANT NodesAsRead
