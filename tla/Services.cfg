SPECIFICATION Spec
CONSTANTS
    None = None
    Units = {"session", "cache", "discovery", "splunk", "sync", "export", "chat", "responses", "codex", "dispatch", "extension", "composition", "activation", "auth", "tool", "secret", "native", "skill"}
  QueryData <- MCQueryData
  StreamData <- MCStreamData
  DispatchData <- MCDispatchData
  ProfileData <- MCProfileData
  AuthData <- MCAuthData
  ToolData <- MCToolData
  SecretData <- MCSecretData
  NativeData <- MCNativeData
  SkillData <- MCSkillData
INVARIANTS TypesOK ReleasesExact AuthorityHolds
PROPERTIES StepsLawful
CHECK_DEADLOCK FALSE
