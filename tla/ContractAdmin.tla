--------------------------- MODULE ContractAdmin ---------------------------
(***************************************************************************)
(* What each of the five contracts carries beside its own records: an      *)
(* admin, a stored schema version, and the build whose code is installed.  *)
(* Every mutating entry point starts with assert_version; upgrade and      *)
(* migrate are the two that do not.                                        *)
(*                                                                         *)
(* A build is represented by its STORAGE_VERSION constant, the one part of *)
(* it the code compares with.  An upgrade installs a build of any version  *)
(* of the set Versions.                                                    *)
(***************************************************************************)
EXTENDS Naturals

CONSTANTS
    Address,        \* accounts and contracts that appear in calls
    ZeroAddress,    \* the all-zero account: nobody can sign for it
    Versions        \* schema versions the platform may be upgraded to

ASSUME AddressAssumption == ZeroAddress \in Address
ASSUME VersionsAssumption == Versions \subseteq Nat /\ 1 \in Versions

VARIABLES
    admin,          \* instance key Admin
    version,        \* instance key Version
    build,          \* STORAGE_VERSION of the installed code
    auth            \* addresses whose require_auth the last invocation passed

adminVars == <<admin, version, build>>

\* Addresses that are able to authorize a call.
Signer == Address \ {ZeroAddress}

\* The invocation passes require_auth for exactly the addresses in who.
Authorized(who) ==
    /\ who \subseteq Signer
    /\ auth' = who

\* __constructor: runs once, inside contract creation.
AdminInit ==
    /\ admin \in Signer
    /\ version = 1
    /\ build = 1
    /\ auth = {}

VersionNotNewer == version <= build     \* fault: an older schema is let through

\* assert_version: the guard of every mutating entry point but two.
VersionMatches == version = build

SetAdminAccepted(newAdmin) == VersionMatches /\ newAdmin # ZeroAddress

\* The state change of set_admin; the admin authorizes it.
ChangeAdmin(newAdmin) ==
    /\ SetAdminAccepted(newAdmin)
    /\ admin' = newAdmin
    /\ UNCHANGED <<version, build>>

\* set_admin(new_admin)
SetAdmin(newAdmin) ==
    /\ Authorized({admin})
    /\ ChangeAdmin(newAdmin)

\* upgrade(new_wasm_hash): the new code may expect another schema version.
Upgrade(newBuild) ==
    /\ Authorized({admin})
    /\ build' = newBuild
    /\ UNCHANGED <<admin, version>>

\* migrate(from_version)
Migrate(fromVersion) ==
    /\ Authorized({admin})
    /\ fromVersion = version
    /\ fromVersion # build
    /\ version' = build
    /\ UNCHANGED <<admin, build>>

AdminNext ==
    \/ \E a \in Address : SetAdmin(a)
    \/ \E v \in Versions : Upgrade(v)
    \/ \E v \in Versions : Migrate(v)

AdminTypeOK ==
    /\ admin \in Signer
    /\ version \in Versions
    /\ build \in Versions
    /\ auth \subseteq Signer
=============================================================================
