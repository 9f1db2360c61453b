------------------------------ MODULE Creator ------------------------------
(***************************************************************************)
(* The Creator contract (contracts/creator/src/lib.rs): one profile per    *)
(* address, written by its owner and verified by the admin.                *)
(*                                                                         *)
(* The name, bio and image URIs of a profile are one value of Details, the *)
(* list of social links one value of Links; ValidDetails and ValidLinks    *)
(* are the values that the contract's checks let through.                  *)
(***************************************************************************)
EXTENDS ContractAdmin, Store, FiniteSets

CONSTANTS Details, ValidDetails, Links, ValidLinks, NoLinks

ASSUME ProfileAssumption ==
    ValidDetails \subseteq Details /\ ValidLinks \subseteq Links /\ NoLinks \in ValidLinks

VARIABLES
    profile,        \* Profile(address), without its timestamps
    counter         \* instance key Counter: total_creators

profileVars == <<profile, counter>>
creatorVars == <<adminVars, auth, profileVars>>

CreatorInit ==
    /\ AdminInit
    /\ profile = NoEntries
    /\ counter = 0

IsRegistered(creator) == creator \in DOMAIN profile

DetailsAccepted(details) == details \in ValidDetails

RegisteredAgain(creator) == TRUE        \* fault: a second registration is let through
CanRegister(creator) == ~IsRegistered(creator)

RegisterAccepted(creator, details) ==
    /\ VersionMatches
    /\ DetailsAccepted(details)
    /\ CanRegister(creator)

\* The state change of register; the creator authorizes it.
AddProfile(creator, details) ==
    /\ RegisterAccepted(creator, details)
    /\ profile' = Put(profile, creator,
                      [details |-> details, links |-> NoLinks, is_verified |-> FALSE])
    /\ counter' = counter + 1
    /\ UNCHANGED adminVars

\* register(creator, display_name, bio, avatar_uri, banner_uri)
Register(creator, details) ==
    /\ Authorized({creator})
    /\ AddProfile(creator, details)

\* update_profile(creator, display_name, bio, avatar_uri, banner_uri)
UpdateProfile(creator, details) ==
    /\ VersionMatches
    /\ Authorized({creator})
    /\ IsRegistered(creator)
    /\ DetailsAccepted(details)
    /\ profile' = [profile EXCEPT ![creator].details = details]
    /\ UNCHANGED <<counter, adminVars>>

\* set_social_links(creator, links)
SetSocialLinks(creator, links) ==
    /\ VersionMatches
    /\ Authorized({creator})
    /\ links \in ValidLinks
    /\ IsRegistered(creator)
    /\ profile' = [profile EXCEPT ![creator].links = links]
    /\ UNCHANGED <<counter, adminVars>>

VerifyAuth(creator) == {admin}

\* verify_creator(creator)
VerifyCreator(creator) ==
    /\ VersionMatches
    /\ Authorized(VerifyAuth(creator))
    /\ IsRegistered(creator)
    /\ profile' = [profile EXCEPT ![creator].is_verified = TRUE]
    /\ UNCHANGED <<counter, adminVars>>

\* set_admin, upgrade and migrate of this contract.
SetCreatorAdmin(a) == SetAdmin(a) /\ UNCHANGED profileVars
UpgradeCreator(v) == Upgrade(v) /\ UNCHANGED profileVars
MigrateCreator(v) == Migrate(v) /\ UNCHANGED profileVars

CreatorNext ==
    \/ \E creator \in Address, details \in Details : Register(creator, details)
    \/ \E creator \in Address, details \in Details : UpdateProfile(creator, details)
    \/ \E creator \in Address, links \in Links : SetSocialLinks(creator, links)
    \/ \E creator \in Address : VerifyCreator(creator)
    \/ \E a \in Address : SetCreatorAdmin(a)
    \/ \E v \in Versions : UpgradeCreator(v)
    \/ \E v \in Versions : MigrateCreator(v)

CreatorSpec == CreatorInit /\ [][CreatorNext]_creatorVars

(***************************************************************************)
(* Properties                                                              *)
(***************************************************************************)

ProfileTypeOK ==
    /\ DOMAIN profile \subseteq Signer
    /\ \A a \in DOMAIN profile :
           profile[a] \in [details : ValidDetails, links : ValidLinks, is_verified : BOOLEAN]
    /\ counter = Cardinality(DOMAIN profile)

\* Stored profiles belong to accounts that can sign, are ones the contract's checks accept
\* on both the register and the update path, and are counted by total_creators.
CreatorTypeOK == AdminTypeOK /\ ProfileTypeOK

\* A profile is never deleted, its contents change only in a call its owner authorized,
\* and verification appears only in a call the admin authorized and is never lost, not by
\* an edit of the profile nor by registering again.
VerificationIsTheAdmins ==
    [][/\ DOMAIN profile \subseteq DOMAIN profile'
       /\ \A a \in DOMAIN profile' :
            LET before == GetOr(profile, a, [details |-> NoLinks, links |-> NoLinks,
                                             is_verified |-> FALSE])
            IN /\ before.is_verified => profile'[a].is_verified
               /\ profile'[a].is_verified # before.is_verified => admin \in auth'
               /\ (profile'[a].details # before.details \/ profile'[a].links # before.links)
                     => a \in auth']_creatorVars
=============================================================================
