------------------------------ MODULE MCStartup ------------------------------
(* Two chains, two identities, Blobs off or under one of two identities.     *)
EXTENDS Startup

CONSTANTS b1, b2

Config(l1, id, blob) == [l1 |-> l1, id |-> id, blob |-> blob]

MCConfigs == {Config(1, 1, NoBlob), Config(1, 1, b1), Config(1, 1, b2),
              Config(1, 2, NoBlob), Config(2, 1, b1)}
==============================================================================
