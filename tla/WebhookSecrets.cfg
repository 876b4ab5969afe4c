SPECIFICATION Spec
CONSTANTS
    Instances = {i1, i2}
    RotationGrace = 2
    MaxSendDelay = 1
    MaxTime = 5
    MaxSecrets = 4
    None = None
INVARIANTS
    SecretsInvariant
    ExpiredSecretsNeverSign
    OldSecretVerifiesInGrace
