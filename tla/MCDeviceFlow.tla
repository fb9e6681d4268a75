---------------------------- MODULE MCDeviceFlow ----------------------------
(***************************************************************************)
(* Instances of DeviceFlow for TLC: one or two clients that may use every  *)
(* grant, or only the device grant.                                        *)
(***************************************************************************)
EXTENDS DeviceFlow, TLC

MCClientScopes == [c \in Clients |-> Scopes]
MCAllGrants == [c \in Clients |-> GrantTypes]
MCDeviceGrant == [c \in Clients |-> {"device_code"}]

Symmetry == Permutations(Calls) \union Permutations(UserCodes)
=============================================================================
