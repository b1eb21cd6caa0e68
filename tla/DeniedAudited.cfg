SPECIFICATION Spec
CONSTANTS
    None = None
    Units = {"auth"}
  QueryData <- MCQueryData
  StreamData <- MCStreamData
  DispatchData <- MCDispatchData
  ProfileData <- MCProfileData
  AuthData <- MCAuthData
  ToolData <- MCToolData
  SecretData <- MCSecretData
  NativeData <- MCNativeData
  SkillData <- MCSkillData
INVARIANT DeniedAudited
CHECK_DEADLOCK FALSE
