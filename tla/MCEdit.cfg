SPECIFICATION Spec
CONSTANTS
  Names <- AllNames
  EnvVars <- AllVars
  Passwords = {"pw1", "pw2"}
  Keys = {"k1", "k2"}
  Configs <- Files
  Envs <- Environments
INVARIANT WiredDespiteEdit
