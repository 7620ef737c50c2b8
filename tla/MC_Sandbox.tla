----------------------------- MODULE MC_Sandbox -----------------------------
EXTENDS Sandbox

CONSTANTS w1, w2, k1, k2, s1, s2, s3
CONSTANTS ProvisionAttempts, SeedAttempts, CleanupAttempts

MCAttempts == [provision |-> ProvisionAttempts, seed |-> SeedAttempts,
               cleanup |-> CleanupAttempts]
=============================================================================
