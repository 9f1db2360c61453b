------------------------ MODULE CreatorRoyaltyProofs ------------------------
(***************************************************************************)
(* The contracts about creators and their royalties.                       *)
(***************************************************************************)
EXTENDS Creator, Royalty, DataProofs

(***************************************************************************)
(* The Creator contract for every number of accounts, every set of names   *)
(* and links and every schema version: its types, the count of creators,   *)
(* and who decides on verification.                                        *)
(***************************************************************************)
ProfileType == [details : ValidDetails, links : ValidLinks, is_verified : BOOLEAN]

\* The count is a number only as long as the registered creators are finitely many, which
\* the type invariant does not say.
CreatorInv == CreatorTypeOK /\ IsFiniteSet(DOMAIN profile)

\* An edit of one profile leaves the registered creators as they are and the others' profiles
\* alone.
LEMMA EditShape ==
    ASSUME NEW f, NEW c \in DOMAIN f, NEW p,
           \A a \in DOMAIN f : f[a] \in ProfileType, p \in ProfileType
    PROVE  /\ DOMAIN [f EXCEPT ![c] = p] = DOMAIN f
           /\ \A a \in DOMAIN f :
                  [f EXCEPT ![c] = p][a] = IF a = c THEN p ELSE f[a]
           /\ \A a \in DOMAIN f : [f EXCEPT ![c] = p][a] \in ProfileType
OBVIOUS

\* Before the first call there is no creator.
LEMMA InitInv == CreatorInit => CreatorInv
<1> SUFFICES ASSUME CreatorInit PROVE CreatorInv
  OBVIOUS
<1>1. AdminTypeOK
  BY VersionsAssumption DEF CreatorInit, AdminInit, AdminTypeOK, Signer
<1>2. DOMAIN profile = {} /\ counter = 0
  BY DEF CreatorInit, NoEntries
<1>3. IsFiniteSet({}) /\ Cardinality({}) = 0
  BY FS_EmptySet
<1> QED
  BY <1>1, <1>2, <1>3 DEF CreatorInv, CreatorTypeOK, ProfileTypeOK

\* register adds one creator and counts him.
LEMMA RegisterStep ==
    ASSUME CreatorInv, NEW c \in Address, NEW d \in Details, Register(c, d)
    PROVE  CreatorInv'
<1>1. /\ c \in Signer /\ c \notin DOMAIN profile /\ d \in ValidDetails
      /\ profile' = Put(profile, c, [details |-> d, links |-> NoLinks, is_verified |-> FALSE])
      /\ counter' = counter + 1
      /\ auth' = {c} /\ UNCHANGED adminVars
  BY DEF Register, AddProfile, RegisterAccepted, DetailsAccepted, CanRegister, IsRegistered,
         Authorized
<1>2. AdminTypeOK'
  BY <1>1 DEF CreatorInv, CreatorTypeOK, AdminTypeOK, adminVars, Signer
<1>3. DOMAIN profile' = DOMAIN profile \cup {c}
  BY <1>1 DEF Put
<1>4. \A a \in DOMAIN profile' : profile'[a] \in ProfileType
  <2>1. [details |-> d, links |-> NoLinks, is_verified |-> FALSE] \in ProfileType
    BY <1>1, ProfileAssumption DEF ProfileType
  <2> QED
    BY <1>1, <2>1 DEF Put, CreatorInv, CreatorTypeOK, ProfileTypeOK, ProfileType
<1>5. IsFiniteSet(DOMAIN profile') /\ Cardinality(DOMAIN profile') = Cardinality(DOMAIN profile) + 1
  BY <1>1, <1>3, FS_AddElement DEF CreatorInv
<1> QED
  BY <1>1, <1>2, <1>3, <1>4, <1>5
     DEF CreatorInv, CreatorTypeOK, ProfileTypeOK, ProfileType

\* What a call that edits a registered profile does to it and to nothing else.
LEMMA EditStep ==
    ASSUME CreatorInv, NEW c \in DOMAIN profile, NEW p \in ProfileType,
           profile' = [profile EXCEPT ![c] = p],
           UNCHANGED <<counter, adminVars>>, auth' \subseteq Signer
    PROVE  CreatorInv'
<1>1. /\ DOMAIN profile' = DOMAIN profile
      /\ \A a \in DOMAIN profile : profile'[a] \in ProfileType
  <2>1. \A a \in DOMAIN profile : profile[a] \in ProfileType
    BY DEF CreatorInv, CreatorTypeOK, ProfileTypeOK, ProfileType
  <2> QED
    BY <2>1, EditShape
<1>2. AdminTypeOK'
  BY DEF CreatorInv, CreatorTypeOK, AdminTypeOK, adminVars, Signer
<1> QED
  BY <1>1, <1>2 DEF CreatorInv, CreatorTypeOK, ProfileTypeOK, ProfileType

\* update_profile, set_social_links and verify_creator as edits: each replaces one field.
LEMMA EditedProfiles ==
    ASSUME CreatorInv, NEW c \in DOMAIN profile
    PROVE  /\ \A d \in ValidDetails :
                /\ [profile[c] EXCEPT !.details = d] \in ProfileType
                /\ [profile[c] EXCEPT !.details = d].is_verified = profile[c].is_verified
           /\ \A l \in ValidLinks :
                /\ [profile[c] EXCEPT !.links = l] \in ProfileType
                /\ [profile[c] EXCEPT !.links = l].is_verified = profile[c].is_verified
           /\ /\ [profile[c] EXCEPT !.is_verified = TRUE] \in ProfileType
              /\ [profile[c] EXCEPT !.is_verified = TRUE].details = profile[c].details
              /\ [profile[c] EXCEPT !.is_verified = TRUE].links = profile[c].links
              /\ [profile[c] EXCEPT !.is_verified = TRUE].is_verified = TRUE
<1>1. profile[c] \in ProfileType
  BY DEF CreatorInv, CreatorTypeOK, ProfileTypeOK, ProfileType
<1> QED
  BY <1>1 DEF ProfileType

\* The calls that change no profile.
LEMMA AdminStep ==
    ASSUME CreatorInv, UNCHANGED profileVars,
           \/ \E a \in Address : SetCreatorAdmin(a)
           \/ \E v \in Versions : UpgradeCreator(v)
           \/ \E v \in Versions : MigrateCreator(v)
    PROVE  CreatorInv'
<1>1. AdminTypeOK'
  BY DEF CreatorInv, CreatorTypeOK, AdminTypeOK, SetCreatorAdmin, SetAdmin, ChangeAdmin,
         SetAdminAccepted, UpgradeCreator, Upgrade, MigrateCreator, Migrate, Authorized, Signer
<1> QED
  BY <1>1 DEF CreatorInv, CreatorTypeOK, ProfileTypeOK, profileVars

\* What each call that edits a profile does, as the replacement of that one profile.
LEMMA Edits ==
    ASSUME CreatorInv, NEW c \in Address
    PROVE  /\ \A d \in Details : UpdateProfile(c, d) =>
                /\ c \in DOMAIN profile /\ d \in ValidDetails /\ auth' = {c} /\ c \in Signer
                /\ profile' = [profile EXCEPT ![c] = [profile[c] EXCEPT !.details = d]]
                /\ UNCHANGED <<counter, adminVars>>
           /\ \A l \in Links : SetSocialLinks(c, l) =>
                /\ c \in DOMAIN profile /\ l \in ValidLinks /\ auth' = {c} /\ c \in Signer
                /\ profile' = [profile EXCEPT ![c] = [profile[c] EXCEPT !.links = l]]
                /\ UNCHANGED <<counter, adminVars>>
           /\ VerifyCreator(c) =>
                /\ c \in DOMAIN profile /\ auth' = {admin} /\ admin \in Signer
                /\ profile' = [profile EXCEPT ![c] = [profile[c] EXCEPT !.is_verified = TRUE]]
                /\ UNCHANGED <<counter, adminVars>>
BY DEF UpdateProfile, SetSocialLinks, VerifyCreator, VerifyAuth, Authorized, IsRegistered,
       DetailsAccepted

\* No step leaves the invariant.
LEMMA NextInv == CreatorInv /\ [CreatorNext]_creatorVars => CreatorInv'
<1> SUFFICES ASSUME CreatorInv, [CreatorNext]_creatorVars PROVE CreatorInv'
  OBVIOUS
<1>1. ASSUME NEW c \in Address, NEW d \in Details, Register(c, d) PROVE CreatorInv'
  BY <1>1, RegisterStep
<1>2. ASSUME NEW c \in Address, NEW d \in Details, UpdateProfile(c, d) PROVE CreatorInv'
  <2> DEFINE p == [profile[c] EXCEPT !.details = d]
  <2>1. /\ c \in DOMAIN profile /\ d \in ValidDetails /\ auth' \subseteq Signer
        /\ profile' = [profile EXCEPT ![c] = p] /\ UNCHANGED <<counter, adminVars>>
    BY <1>2, Edits
  <2>2. p \in ProfileType
    BY <2>1, EditedProfiles
  <2> HIDE DEF p
  <2> QED
    BY <2>1, <2>2, EditStep
<1>3. ASSUME NEW c \in Address, NEW l \in Links, SetSocialLinks(c, l) PROVE CreatorInv'
  <2> DEFINE p == [profile[c] EXCEPT !.links = l]
  <2>1. /\ c \in DOMAIN profile /\ l \in ValidLinks /\ auth' \subseteq Signer
        /\ profile' = [profile EXCEPT ![c] = p] /\ UNCHANGED <<counter, adminVars>>
    BY <1>3, Edits
  <2>2. p \in ProfileType
    BY <2>1, EditedProfiles
  <2> HIDE DEF p
  <2> QED
    BY <2>1, <2>2, EditStep
<1>4. ASSUME NEW c \in Address, VerifyCreator(c) PROVE CreatorInv'
  BY <1>4, Edits, EditedProfiles, EditStep
<1>5. ASSUME \/ \E a \in Address : SetCreatorAdmin(a)
             \/ \E v \in Versions : UpgradeCreator(v)
             \/ \E v \in Versions : MigrateCreator(v)
      PROVE  CreatorInv'
  <2>1. UNCHANGED profileVars
    BY <1>5 DEF SetCreatorAdmin, UpgradeCreator, MigrateCreator
  <2> QED
    BY <1>5, <2>1, AdminStep
<1>6. CASE UNCHANGED creatorVars
  BY <1>6 DEF creatorVars, CreatorInv, CreatorTypeOK, AdminTypeOK, ProfileTypeOK, adminVars,
              profileVars
<1> QED
  BY <1>1, <1>2, <1>3, <1>4, <1>5, <1>6 DEF CreatorNext

\* The Creator contract: stored profiles are ones its checks accept, on the register and on
\* the update path, and total_creators counts them.
THEOREM CreatorInvariant == CreatorSpec => []CreatorInv
BY InitInv, NextInv, PTL DEF CreatorSpec

\* What a registration does to the profile of each account.
LEMMA RegisteredOnce ==
    ASSUME NEW c \in Address, NEW d \in Details, Register(c, d)
    PROVE  /\ c \notin DOMAIN profile /\ auth' = {c}
           /\ DOMAIN profile' = DOMAIN profile \cup {c}
           /\ \A a \in DOMAIN profile : profile'[a] = profile[a]
           /\ profile'[c].is_verified = FALSE
BY DEF Register, AddProfile, RegisterAccepted, CanRegister, IsRegistered, Authorized, Put

\* One step of VerificationIsTheAdmins.
VerificationStep ==
    /\ DOMAIN profile \subseteq DOMAIN profile'
    /\ \A a \in DOMAIN profile' :
         LET before == GetOr(profile, a, [details |-> NoLinks, links |-> NoLinks,
                                          is_verified |-> FALSE])
         IN /\ before.is_verified => profile'[a].is_verified
            /\ profile'[a].is_verified # before.is_verified => admin \in auth'
            /\ (profile'[a].details # before.details \/ profile'[a].links # before.links)
                  => a \in auth'

\* A step that replaces one profile by its owner's authority, or verifies it by the admin's.
LEMMA EditIsAuthorized ==
    ASSUME CreatorInv, NEW c \in DOMAIN profile, NEW p \in ProfileType,
           profile' = [profile EXCEPT ![c] = p],
           \/ c \in auth' /\ p.is_verified = profile[c].is_verified
           \/ /\ admin \in auth' /\ p.details = profile[c].details
              /\ p.links = profile[c].links /\ p.is_verified = TRUE
    PROVE  VerificationStep
<1>1. \A a \in DOMAIN profile : profile[a] \in ProfileType
  BY DEF CreatorInv, CreatorTypeOK, ProfileTypeOK, ProfileType
<1>2. /\ DOMAIN profile' = DOMAIN profile
      /\ \A a \in DOMAIN profile : profile'[a] = IF a = c THEN p ELSE profile[a]
  BY <1>1, EditShape
<1> QED
  BY <1>2 DEF VerificationStep, GetOr

\* The Creator contract: no profile is deleted, an edit is its owner's, and verification
\* appears by the stored admin's authority only and is never lost.
THEOREM VerificationIsGiven == CreatorSpec => VerificationIsTheAdmins
<1>1. CreatorInv /\ [CreatorNext]_creatorVars => [VerificationStep]_creatorVars
  <2> SUFFICES ASSUME CreatorInv, CreatorNext PROVE VerificationStep
    BY DEF VerificationStep
  <2>1. ASSUME NEW c \in Address, NEW d \in Details, Register(c, d) PROVE VerificationStep
    <3>1. /\ c \notin DOMAIN profile /\ auth' = {c}
          /\ DOMAIN profile' = DOMAIN profile \cup {c}
          /\ \A a \in DOMAIN profile : profile'[a] = profile[a]
          /\ profile'[c].is_verified = FALSE
      BY <2>1, RegisteredOnce
    <3> DEFINE none == [details |-> NoLinks, links |-> NoLinks, is_verified |-> FALSE]
               before(a) == GetOr(profile, a, none)
    <3>2. ASSUME NEW a \in DOMAIN profile' PROVE
             /\ before(a).is_verified => profile'[a].is_verified
             /\ profile'[a].is_verified # before(a).is_verified => admin \in auth'
             /\ (profile'[a].details # before(a).details \/ profile'[a].links # before(a).links)
                   => a \in auth'
      <4>1. CASE a \in DOMAIN profile
        <5>1. before(a) = profile'[a]
          BY <3>1, <4>1 DEF GetOr
        <5> HIDE DEF before
        <5> QED
          BY <5>1
      <4>2. CASE a = c
        <5>1. before(a).is_verified = FALSE /\ a \in auth' /\ profile'[a].is_verified = FALSE
          BY <3>1, <4>2 DEF GetOr
        <5> HIDE DEF before
        <5> QED
          BY <5>1
      <4> QED
        BY <3>1, <4>1, <4>2
    <3> QED
      BY <3>1, <3>2 DEF VerificationStep
  <2>2. ASSUME NEW c \in Address, NEW d \in Details, UpdateProfile(c, d)
        PROVE  VerificationStep
    <3> DEFINE p == [profile[c] EXCEPT !.details = d]
    <3>1. /\ c \in DOMAIN profile /\ d \in ValidDetails /\ c \in auth'
          /\ profile' = [profile EXCEPT ![c] = p]
      BY <2>2, Edits
    <3>2. p \in ProfileType /\ p.is_verified = profile[c].is_verified
      BY <3>1, EditedProfiles
    <3> HIDE DEF p
    <3> QED
      BY <3>1, <3>2, EditIsAuthorized
  <2>3. ASSUME NEW c \in Address, NEW l \in Links, SetSocialLinks(c, l)
        PROVE  VerificationStep
    <3> DEFINE p == [profile[c] EXCEPT !.links = l]
    <3>1. /\ c \in DOMAIN profile /\ l \in ValidLinks /\ c \in auth'
          /\ profile' = [profile EXCEPT ![c] = p]
      BY <2>3, Edits
    <3>2. p \in ProfileType /\ p.is_verified = profile[c].is_verified
      BY <3>1, EditedProfiles
    <3> HIDE DEF p
    <3> QED
      BY <3>1, <3>2, EditIsAuthorized
  <2>4. ASSUME NEW c \in Address, VerifyCreator(c) PROVE VerificationStep
    BY <2>4, Edits, EditedProfiles, EditIsAuthorized
  <2>5. ASSUME UNCHANGED profileVars PROVE VerificationStep
    BY <2>5 DEF VerificationStep, GetOr, profileVars
  <2> QED
    BY <2>1, <2>2, <2>3, <2>4, <2>5
       DEF CreatorNext, SetCreatorAdmin, UpgradeCreator, MigrateCreator
<1> QED
  BY <1>1, CreatorInvariant, PTL DEF CreatorSpec, VerificationIsTheAdmins, VerificationStep

(***************************************************************************)
(* The Royalty contract for every number of accounts and targets and all   *)
(* rates and splits: stored terms are terms that can be paid out, frozen   *)
(* ones are permanent, changes need consent, a quote is exact, and a       *)
(* settlement creates and destroys nothing.                                *)
(***************************************************************************)
\* Stored terms have passed the checks of configure_royalty or update_royalty, whichever
\* wrote them last.
Terms == {t \in RoyaltyConfig : ValidateBasisPoints(t.basis_points) /\ ValidateRecipients(t.recipients)}

TermsInv ==
    /\ AdminTypeOK
    /\ Configured \subseteq Key
    /\ \A k \in Configured : config[k] \in Terms

\* One step of FrozenIsFinal and of TermsNeedConsent.
FrozenStays ==
    \A k \in Configured : config[k].is_frozen => k \in Configured' /\ config'[k] = config[k]

TermsConsented ==
    \A k \in Key :
        /\ (k \in Configured) # (k \in Configured') => admin \in auth'
        /\ k \in Configured \cap Configured' =>
              /\ config'[k].creator = config[k].creator
              /\ config'[k] # config[k] => {admin, config[k].creator} \cap auth' # {}

(***************************************************************************)
(* What each call does to the terms                                        *)
(***************************************************************************)
\* configure_royalty adds terms where there are none.
LEMMA ConfigureStep ==
    ASSUME TermsInv, NEW creator \in Address, NEW k \in Key, NEW bp \in Rate,
           NEW split \in Splits, ConfigureRoyalty(creator, k, bp, split)
    PROVE  TermsInv' /\ FrozenStays /\ TermsConsented
<1> DEFINE new == [creator |-> creator, basis_points |-> bp, recipients |-> split,
                   is_frozen |-> FALSE]
<1>1. /\ k \notin Configured /\ auth' = {admin} /\ auth' \subseteq Signer
      /\ UNCHANGED <<admin, version, build>>
      /\ Configured' = Configured \cup {k}
      /\ config'[k] = new /\ \A j \in Configured : config'[j] = config[j]
      /\ ValidateBasisPoints(bp) /\ ValidateRecipients(split)
  BY DEF ConfigureRoyalty, Authorized, AddConfig, ConfigAccepted, Unconfigured, Put,
         Configured, adminVars
<1>2. new \in Terms
  BY <1>1 DEF Terms, RoyaltyConfig
<1> HIDE DEF new
<1>3. TermsInv'
  BY <1>1, <1>2 DEF TermsInv, AdminTypeOK
<1> QED
  BY <1>1, <1>3 DEF TermsInv, FrozenStays, TermsConsented

\* remove_royalty drops terms that are not frozen.
LEMMA RemoveStep ==
    ASSUME TermsInv, NEW k \in Key, RemoveRoyalty(k)
    PROVE  TermsInv' /\ FrozenStays /\ TermsConsented
<1>1. /\ k \in Configured /\ ~config[k].is_frozen
      /\ auth' = {admin} /\ auth' \subseteq Signer
      /\ UNCHANGED <<admin, version, build>>
      /\ Configured' = Configured \ {k}
      /\ \A j \in Configured' : config'[j] = config[j]
  BY DEF RemoveRoyalty, Authorized, Removable, Drop, Configured, adminVars
<1> QED
  BY <1>1 DEF TermsInv, AdminTypeOK, FrozenStays, TermsConsented

\* The other writes replace the terms of one target, which keep their creator.
LEMMA ReplaceStep ==
    ASSUME TermsInv, NEW k \in Configured, NEW terms \in Terms,
           config' = [config EXCEPT ![k] = terms],
           UNCHANGED <<admin, version, build>>, auth' \subseteq Signer,
           terms.creator = config[k].creator,
           terms = config[k] \/ {admin, config[k].creator} \cap auth' # {},
           config[k].is_frozen => terms = config[k]
    PROVE  TermsInv' /\ FrozenStays /\ TermsConsented
<1>1. /\ Configured' = Configured
      /\ \A j \in Configured : config'[j] = IF j = k THEN terms ELSE config[j]
  BY DEF Configured
<1>2. TermsInv'
  BY <1>1 DEF TermsInv, AdminTypeOK
<1> QED
  BY <1>1, <1>2 DEF FrozenStays, TermsConsented

\* update_royalty amends terms that are not frozen, with the creator's or the admin's
\* authorization.
LEMMA UpdateStep ==
    ASSUME TermsInv, NEW caller \in Address, NEW k \in Key, NEW bp \in Rate,
           NEW split \in Splits, UpdateRoyalty(caller, k, bp, split)
    PROVE  TermsInv' /\ FrozenStays /\ TermsConsented
<1> DEFINE terms == [config[k] EXCEPT !.basis_points = bp, !.recipients = split]
<1>1. /\ k \in Configured /\ ~config[k].is_frozen
      /\ caller \in auth' /\ auth' \subseteq Signer
      /\ caller = admin \/ caller = config[k].creator
      /\ UNCHANGED <<admin, version, build>>
      /\ ValidateBasisPoints(bp) /\ ValidateRecipients(split)
  BY DEF UpdateRoyalty, Authorized, MayUpdate, adminVars
<1>2. config[k] \in RoyaltyConfig
  BY <1>1 DEF TermsInv, Terms
<1>3. config' = [config EXCEPT ![k] = terms]
  BY DEF UpdateRoyalty
<1>4. terms \in Terms /\ terms.creator = config[k].creator
  BY <1>1, <1>2 DEF Terms, RoyaltyConfig
<1> QED
  BY <1>1, <1>3, <1>4, ReplaceStep

\* freeze_royalty only raises the flag, with the admin's authorization.
LEMMA FreezeStep ==
    ASSUME TermsInv, NEW k \in Key, FreezeRoyalty(k)
    PROVE  TermsInv' /\ FrozenStays /\ TermsConsented
<1> DEFINE terms == [config[k] EXCEPT !.is_frozen = TRUE]
<1>1. /\ k \in Configured /\ admin \in auth' /\ auth' \subseteq Signer
      /\ UNCHANGED <<admin, version, build>>
      /\ config' = [config EXCEPT ![k] = terms]
  BY DEF FreezeRoyalty, Authorized, adminVars
<1>2. config[k] \in Terms /\ config[k] \in RoyaltyConfig
  BY <1>1 DEF TermsInv, Terms
<1>3. /\ terms \in Terms /\ terms.creator = config[k].creator
      /\ config[k].is_frozen => terms = config[k]
  BY <1>2 DEF Terms, RoyaltyConfig
<1> QED
  BY <1>1, <1>3, ReplaceStep

\* The calls that leave the terms alone: a settlement, and those of the admin.
LEMMA OtherSteps ==
    ASSUME TermsInv, config' = config, AdminTypeOK'
    PROVE  TermsInv' /\ FrozenStays /\ TermsConsented
BY DEF TermsInv, Configured, FrozenStays, TermsConsented

\* No step leaves the invariant.
LEMMA NextTerms ==
    ASSUME TermsInv, [Next]_vars
    PROVE  TermsInv' /\ FrozenStays /\ TermsConsented
<1>1. ASSUME NEW k \in Key, NEW asset \in Asset, NEW payer \in Address, NEW price \in Price,
             PayRoyalty(k, asset, payer, price)
      PROVE  config' = config /\ AdminTypeOK'
  BY <1>1 DEF PayRoyalty, Authorized, TermsInv, AdminTypeOK, adminVars
<1>2. ASSUME NEW a \in Address, SetRoyaltyAdmin(a) PROVE config' = config /\ AdminTypeOK'
  BY <1>2 DEF SetRoyaltyAdmin, SetAdmin, ChangeAdmin, SetAdminAccepted, Authorized, Signer,
              royaltyVars, TermsInv, AdminTypeOK
<1>3. ASSUME NEW v \in Versions, UpgradeRoyaltyCode(v) \/ MigrateRoyalty(v)
      PROVE  config' = config /\ AdminTypeOK'
  BY <1>3 DEF UpgradeRoyaltyCode, MigrateRoyalty, Upgrade, Migrate, Authorized, royaltyVars,
              TermsInv, AdminTypeOK
<1>4. CASE UNCHANGED vars
  BY <1>4, OtherSteps DEF vars, adminVars, royaltyVars, TermsInv, AdminTypeOK
<1> QED
  BY <1>1, <1>2, <1>3, <1>4, ConfigureStep, UpdateStep, RemoveStep, FreezeStep, OtherSteps
     DEF Next

\* Before the first call there are no terms.
LEMMA InitTerms == Init => TermsInv
BY VersionsAssumption DEF Init, AdminInit, NoEntries, TermsInv, AdminTypeOK, Configured

(***************************************************************************)
(* Sums over finite sets                                                   *)
(***************************************************************************)
\* The member a fold takes next.
Chosen(s) == CHOOSE r \in s : TRUE

\* It is one.
LEMMA ChosenIsMember == ASSUME NEW s, s # {} PROVE Chosen(s) \in s
BY DEF Chosen

\* One turn of a fold, g being the sums of the smaller sets.
SumStep(f, g, s) == IF s = {} THEN 0 ELSE f[Chosen(s)] + g[s \ {Chosen(s)}]

\* g is the fold over the subsets of S, or over those of at most n members.
IsSums(f, g, S) == g = [s \in SUBSET S |-> SumStep(f, g, s)]

\* A sum is the value of the fold at the whole set.
LEMMA TotalDefinition ==
    ASSUME NEW f, NEW S
    PROVE  Total(f, S) = (CHOOSE g : IsSums(f, g, S))[S]
BY Zenon DEF Total, MapThenSumSet, MapThenFoldSet, IsSums, SumStep, Chosen

IsSumsUpTo(f, g, S, n) ==
    /\ g = [s \in SUBSET S |-> g[s]]
    /\ \A s \in SUBSET S : Cardinality(s) <= n => g[s] = SumStep(f, g, s)

\* Sets of any size up to n have sums at the same time.
LEMMA SumsUpTo ==
    ASSUME NEW f, NEW S, IsFiniteSet(S), NEW n \in Nat
    PROVE  \E g : IsSumsUpTo(f, g, S, n)
<1> DEFINE Partial(g, m) == IsSumsUpTo(f, g, S, m)
           Missing == {m \in Nat : ~\E g : Partial(g, m)}
<1> SUFFICES ASSUME Missing # {} PROVE FALSE
  OBVIOUS
<1>1. PICK m \in Missing : \A k \in Missing : m <= k
  BY SmallestOf
<1>2. m \in Nat /\ ~\E g : Partial(g, m)
  BY <1>1
<1>3. \A s \in SUBSET S : s # {} =>
          /\ s \ {Chosen(s)} \in SUBSET S
          /\ Cardinality(s) \in Nat \ {0}
          /\ Cardinality(s \ {Chosen(s)}) = Cardinality(s) - 1
  BY ChosenIsMember, FS_RemoveElement, FS_CardinalityType, FS_EmptySet, FS_Subset
<1>4. \A s \in SUBSET S : Cardinality(s) \in Nat
  BY FS_Subset, FS_CardinalityType
<1>5. CASE m = 0
  <2> DEFINE g == [s \in SUBSET S |-> 0]
  <2>1. ASSUME NEW s \in SUBSET S, Cardinality(s) <= 0 PROVE SumStep(f, g, s) = 0
    <3>1. s # {} => Cardinality(s) \in Nat \ {0}
      BY <1>3, Zenon
    <3>2. s = {}
      BY <2>1, <3>1
    <3> QED
      BY <3>2 DEF SumStep
  <2>2. Partial(g, 0)
    BY <2>1 DEF IsSumsUpTo
  <2> HIDE DEF g, Partial
  <2> QED
    BY <1>2, <1>5, <2>2
<1>6. CASE m # 0
  <2>1. m - 1 \in Nat /\ ~(m <= m - 1)
    BY <1>2, <1>6
  <2>2. PICK h : Partial(h, m - 1)
    BY <1>1, <2>1, Zenon
  <2> DEFINE g == [s \in SUBSET S |-> SumStep(f, h, s)]
  <2>3. \A s \in SUBSET S : g[s] = SumStep(f, h, s)
    OBVIOUS
  <2>4. g = [s \in SUBSET S |-> g[s]]
    BY <2>3
  <2> HIDE DEF g
  <2>5. ASSUME NEW s \in SUBSET S, Cardinality(s) <= m PROVE SumStep(f, h, s) = SumStep(f, g, s)
    <3>1. CASE s = {}
      BY <3>1 DEF SumStep
    <3>2. CASE s # {}
      <4>1. /\ s \ {Chosen(s)} \in SUBSET S
            /\ Cardinality(s \ {Chosen(s)}) <= m - 1
        BY <1>2, <1>3, <1>4, <2>5, <3>2
      <4>2. h[s \ {Chosen(s)}] = SumStep(f, h, s \ {Chosen(s)})
        BY <2>2, <4>1 DEF IsSumsUpTo
      <4>3. g[s \ {Chosen(s)}] = h[s \ {Chosen(s)}]
        BY <2>3, <4>1, <4>2
      <4> QED
        BY <3>2, <4>3 DEF SumStep
    <3> QED
      BY <3>1, <3>2
  <2>6. Partial(g, m)
    BY <2>3, <2>4, <2>5 DEF IsSumsUpTo
  <2> HIDE DEF Partial
  <2> QED
    BY <1>2, <2>6
<1> QED
  BY <1>5, <1>6

\* The fold over a finite set has a result.
LEMMA SumsExist ==
    ASSUME NEW f, NEW S, IsFiniteSet(S)
    PROVE  \E g : IsSums(f, g, S)
<1>1. Cardinality(S) \in Nat /\ \A s \in SUBSET S : Cardinality(s) <= Cardinality(S)
  BY FS_CardinalityType, FS_Subset
<1>2. PICK g : IsSumsUpTo(f, g, S, Cardinality(S))
  BY <1>1, SumsUpTo
<1>3. \A s \in SUBSET S : g[s] = SumStep(f, g, s)
  BY <1>1, <1>2 DEF IsSumsUpTo
<1>4. g = [s \in SUBSET S |-> SumStep(f, g, s)]
  BY <1>2, <1>3, Zenon DEF IsSumsUpTo
<1> QED
  BY <1>4, Zenon DEF IsSums

\* It is the same whichever set the fold is over.
LEMMA SumsAgree ==
    ASSUME NEW f, NEW S, NEW T, IsFiniteSet(S), T \subseteq S, NEW g, NEW h,
           IsSums(f, g, S), IsSums(f, h, T)
    PROVE  g[T] = h[T]
<1> DEFINE Differ == {s \in SUBSET T : g[s] # h[s]}
<1>1. \A s \in SUBSET T : g[s] = SumStep(f, g, s) /\ h[s] = SumStep(f, h, s)
  <2>1. \A s \in SUBSET S : g[s] = SumStep(f, g, s)
    BY Zenon DEF IsSums
  <2>2. \A s \in SUBSET T : h[s] = SumStep(f, h, s)
    BY Zenon DEF IsSums
  <2> QED
    BY <2>1, <2>2
<1> SUFFICES ASSUME g[T] # h[T] PROVE FALSE
  OBVIOUS
<1>2. IsFiniteSet(T) /\ Differ \subseteq SUBSET T /\ Differ # {}
  BY FS_Subset
<1> HIDE DEF Differ
<1>3. PICK s \in Differ : \A t \in SUBSET s : t # s => t \notin Differ
  BY <1>2, SmallestSet
<1> USE DEF Differ
<1>4. s # {}
  BY <1>1, <1>3 DEF SumStep
<1>5. g[s \ {Chosen(s)}] = h[s \ {Chosen(s)}]
  BY <1>3, <1>4, ChosenIsMember
<1> QED
  BY <1>1, <1>3, <1>4, <1>5 DEF SumStep

\* Nothing adds up to zero.
LEMMA TotalEmpty == ASSUME NEW f PROVE Total(f, {}) = 0
<1>1. \E g : IsSums(f, g, {})
  BY SumsExist, FS_EmptySet
<1>2. IsSums(f, CHOOSE h : IsSums(f, h, {}), {})
  BY <1>1
<1> QED
  BY <1>2, TotalDefinition DEF IsSums, SumStep

\* The chosen member is added last.
LEMMA TotalStep ==
    ASSUME NEW f, NEW S, IsFiniteSet(S), S # {}
    PROVE  Total(f, S) = f[Chosen(S)] + Total(f, S \ {Chosen(S)})
<1> DEFINE T == S \ {Chosen(S)}
           g == CHOOSE x : IsSums(f, x, S)
           h == CHOOSE x : IsSums(f, x, T)
<1>1. IsFiniteSet(T) /\ T \subseteq S
  BY FS_Subset
<1>2. IsSums(f, g, S) /\ IsSums(f, h, T)
  BY <1>1, SumsExist
<1>3. Total(f, S) = g[S] /\ Total(f, T) = h[T]
  BY TotalDefinition
<1> HIDE DEF g, h
<1>4. g[T] = h[T]
  BY <1>1, <1>2, SumsAgree
<1>5. g[S] = SumStep(f, g, S)
  BY <1>2 DEF IsSums
<1> QED
  BY <1>3, <1>4, <1>5 DEF SumStep

\* The sum of natural numbers is one, and any member may be taken out of it.
LEMMA TotalOf ==
    ASSUME NEW f, NEW S, IsFiniteSet(S), \A r \in S : f[r] \in Nat
    PROVE  /\ Total(f, S) \in Nat
           /\ \A r \in S : Total(f, S) = f[r] + Total(f, S \ {r})
<1> DEFINE Right(s) == /\ Total(f, s) \in Nat
                       /\ \A r \in s : Total(f, s) = f[r] + Total(f, s \ {r})
           Wrong == {s \in SUBSET S : ~Right(s)}
<1> SUFFICES ASSUME Wrong # {} PROVE FALSE
  OBVIOUS
<1>0. Wrong \subseteq SUBSET S
  OBVIOUS
<1> HIDE DEF Wrong
<1>1. PICK s \in Wrong : \A t \in SUBSET s : t # s => t \notin Wrong
  BY <1>0, SmallestSet
<1> USE DEF Wrong
<1>2. \A t \in SUBSET s : t # s => Right(t)
  BY <1>1
<1>3. s # {}
  <2>1. Right({})
    BY TotalEmpty
  <2> QED
    BY <1>1, <2>1
<1> DEFINE x == Chosen(s)
<1>4. x \in s /\ Total(f, s) = f[x] + Total(f, s \ {x}) /\ f[x] \in Nat
  BY <1>1, <1>3, ChosenIsMember, TotalStep, FS_Subset
<1> HIDE DEF x
<1>5. Right(s \ {x})
  BY <1>2, <1>4
<1>6. ASSUME NEW r \in s PROVE Total(f, s) = f[r] + Total(f, s \ {r})
  <2>1. CASE r = x
    BY <1>4, <2>1
  <2>2. CASE r # x
    <3>1. r \in s \ {x} /\ x \in s \ {r} /\ f[r] \in Nat
      BY <1>1, <1>4, <2>2
    <3>2. Right(s \ {r}) /\ Right((s \ {x}) \ {r})
      BY <1>2
    <3>3. Total(f, s \ {x}) = f[r] + Total(f, (s \ {x}) \ {r})
      BY <1>5, <3>1
    <3>4. Total(f, s \ {r}) = f[x] + Total(f, (s \ {r}) \ {x})
      BY <3>2, <3>1
    <3>5. (s \ {r}) \ {x} = (s \ {x}) \ {r}
      OBVIOUS
    <3> QED
      BY <1>4, <3>1, <3>2, <3>3, <3>4, <3>5
  <2> QED
    BY <2>1, <2>2
<1>7. Total(f, s) \in Nat
  BY <1>4, <1>5
<1> QED
  BY <1>1, <1>6, <1>7

\* Functions that agree on a set have the same sum over it.
LEMMA TotalSame ==
    ASSUME NEW f, NEW g, NEW S, IsFiniteSet(S), \A r \in S : f[r] = g[r] /\ f[r] \in Nat
    PROVE  Total(f, S) = Total(g, S)
<1> DEFINE Wrong == {s \in SUBSET S : Total(f, s) # Total(g, s)}
<1> SUFFICES ASSUME Wrong # {} PROVE FALSE
  OBVIOUS
<1>0. Wrong \subseteq SUBSET S
  OBVIOUS
<1> HIDE DEF Wrong
<1>1. PICK s \in Wrong : \A t \in SUBSET s : t # s => t \notin Wrong
  BY <1>0, SmallestSet
<1> USE DEF Wrong
<1>2. IsFiniteSet(s) /\ \A q \in s : f[q] \in Nat /\ g[q] \in Nat
  BY <1>1, FS_Subset
<1>3. PICK r : r \in s
  BY <1>1, TotalEmpty
<1>4. Total(f, s) = f[r] + Total(f, s \ {r}) /\ Total(g, s) = g[r] + Total(g, s \ {r})
  BY <1>2, <1>3, TotalOf
<1>5. Total(f, s \ {r}) = Total(g, s \ {r}) /\ f[r] = g[r]
  BY <1>1, <1>3
<1> QED
  BY <1>1, <1>4, <1>5

\* Nothing changes where a function is zero.
LEMMA TotalSupport ==
    ASSUME NEW f, NEW S, IsFiniteSet(S), \A r \in S : f[r] \in Nat,
           NEW T \in SUBSET S, \A r \in S \ T : f[r] = 0
    PROVE  Total(f, S) = Total(f, T)
<1> DEFINE Wrong == {s \in SUBSET S : Total(f, s) # Total(f, s \cap T)}
<1> SUFFICES ASSUME Wrong # {} PROVE FALSE
  <2>1. S \cap T = T
    OBVIOUS
  <2> QED
    BY <2>1
<1>0. Wrong \subseteq SUBSET S
  OBVIOUS
<1> HIDE DEF Wrong
<1>1. PICK s \in Wrong : \A t \in SUBSET s : t # s => t \notin Wrong
  BY <1>0, SmallestSet
<1> USE DEF Wrong
<1>2. /\ IsFiniteSet(s) /\ \A q \in s : f[q] \in Nat
      /\ IsFiniteSet(s \cap T) /\ \A q \in s \cap T : f[q] \in Nat
  BY <1>1, FS_Subset
<1>3. PICK r : r \in s
  BY <1>1
<1>4. Total(f, s) = f[r] + Total(f, s \ {r}) /\ f[r] \in Nat
  BY <1>2, <1>3, TotalOf
<1>5. Total(f, s \ {r}) = Total(f, (s \ {r}) \cap T)
  BY <1>1, <1>3
<1>6. Total(f, (s \ {r}) \cap T) \in Nat
  BY <1>2, FS_Subset, TotalOf
<1>7. CASE r \in T
  <2>1. Total(f, s \cap T) = f[r] + Total(f, (s \cap T) \ {r})
    BY <1>2, <1>3, <1>7, TotalOf
  <2>2. (s \cap T) \ {r} = (s \ {r}) \cap T
    OBVIOUS
  <2> QED
    BY <1>1, <1>4, <1>5, <2>1, <2>2
<1>8. CASE r \notin T
  <2>1. (s \ {r}) \cap T = s \cap T /\ f[r] = 0
    BY <1>1, <1>3, <1>8
  <2> QED
    BY <1>1, <1>4, <1>5, <1>6, <2>1
<1> QED
  BY <1>7, <1>8

\* Sums are added member by member.
LEMMA TotalPlus ==
    ASSUME NEW f, NEW g, NEW h, NEW S, IsFiniteSet(S),
           \A r \in S : f[r] \in Nat /\ g[r] \in Nat /\ h[r] = f[r] + g[r]
    PROVE  Total(h, S) = Total(f, S) + Total(g, S)
<1> DEFINE Wrong == {s \in SUBSET S : Total(h, s) # Total(f, s) + Total(g, s)}
<1> SUFFICES ASSUME Wrong # {} PROVE FALSE
  OBVIOUS
<1>0. Wrong \subseteq SUBSET S
  OBVIOUS
<1> HIDE DEF Wrong
<1>1. PICK s \in Wrong : \A t \in SUBSET s : t # s => t \notin Wrong
  BY <1>0, SmallestSet
<1> USE DEF Wrong
<1>2. IsFiniteSet(s) /\ \A q \in s : f[q] \in Nat /\ g[q] \in Nat /\ h[q] \in Nat
  BY <1>1, FS_Subset
<1>3. PICK r : r \in s
  <2>1. Total(h, s) # Total(f, s) + Total(g, s)
    BY <1>1
  <2>2. Total(h, {}) = 0 /\ Total(f, {}) = 0 /\ Total(g, {}) = 0
    BY TotalEmpty
  <2> QED
    BY <2>1, <2>2
<1>4. /\ Total(f, s) = f[r] + Total(f, s \ {r}) /\ Total(g, s) = g[r] + Total(g, s \ {r})
      /\ Total(h, s) = h[r] + Total(h, s \ {r})
  BY <1>2, <1>3, TotalOf
<1>5. /\ IsFiniteSet(s \ {r}) /\ Total(f, s \ {r}) \in Nat /\ Total(g, s \ {r}) \in Nat
  BY <1>2, FS_Subset, TotalOf
<1>6. Total(h, s \ {r}) = Total(f, s \ {r}) + Total(g, s \ {r}) /\ h[r] = f[r] + g[r]
  BY <1>1, <1>3
<1> QED
  BY <1>1, <1>2, <1>3, <1>4, <1>5, <1>6
(***************************************************************************)
(* The arithmetic of a quote                                               *)
(***************************************************************************)
\* Division rounds down, by less than the divisor.
LEMMA DivBounds ==
    ASSUME NEW a \in Nat, NEW b \in Nat \ {0}
    PROVE  a \div b \in Nat /\ b * (a \div b) <= a /\ a < b * (a \div b) + b
OBVIOUS

\* A rate within the scale takes no more than the price.
LEMMA PartOf ==
    ASSUME NEW price \in Nat, NEW rate \in Nat, NEW scale \in Nat \ {0}, rate <= scale
    PROVE  (price * rate) \div scale \in 0 .. price
<1>1. price * rate \in Nat /\ price * rate <= price * scale
  OBVIOUS
<1> DEFINE part == (price * rate) \div scale
<1>2. part \in Nat /\ scale * part <= scale * price
  BY <1>1, DivBounds
<1> HIDE DEF part
<1>3. part <= price
  BY <1>2
<1> QED
  BY <1>2, <1>3 DEF part

\* What the floors of shares in proportion to w leave of a sum is less than a unit each.
LEMMA FloorsOf ==
    ASSUME NEW w, NEW S, IsFiniteSet(S), \A r \in S : w[r] \in Nat,
           NEW total \in Nat, NEW scale \in Nat \ {0},
           NEW f, \A r \in S : f[r] = (total * w[r]) \div scale
    PROVE  /\ \A r \in S : f[r] \in Nat
           /\ Total(f, S) \in Nat /\ Total(w, S) \in Nat
           /\ scale * Total(f, S) <= total * Total(w, S)
           /\ total * Total(w, S) <= scale * Total(f, S) + Cardinality(S) * (scale - 1)
<1>1. \A r \in S : f[r] \in Nat
  BY DivBounds
<1> DEFINE Right(s) == /\ scale * Total(f, s) <= total * Total(w, s)
                       /\ total * Total(w, s) <= scale * Total(f, s) + Cardinality(s) * (scale - 1)
           Wrong == {s \in SUBSET S : ~Right(s)}
<1> SUFFICES ASSUME Wrong # {} PROVE FALSE
  BY <1>1, TotalOf
<1>0. Wrong \subseteq SUBSET S
  OBVIOUS
<1> HIDE DEF Wrong
<1>2. PICK s \in Wrong : \A t \in SUBSET s : t # s => t \notin Wrong
  BY <1>0, SmallestSet
<1> USE DEF Wrong
<1>3. IsFiniteSet(s) /\ Cardinality(s) \in Nat /\ \A q \in s : f[q] \in Nat /\ w[q] \in Nat
  BY <1>1, <1>2, FS_Subset, FS_CardinalityType
<1>4. PICK r : r \in s
  <2>1. Right({})
    BY TotalEmpty, FS_EmptySet
  <2> QED
    BY <1>2, <2>1
<1> DEFINE t == s \ {r}
<1>5. /\ Total(f, s) = f[r] + Total(f, t) /\ Total(w, s) = w[r] + Total(w, t)
      /\ IsFiniteSet(t) /\ Total(f, t) \in Nat /\ Total(w, t) \in Nat
      /\ Cardinality(t) \in Nat /\ Cardinality(s) = Cardinality(t) + 1
  <2>1. IsFiniteSet(t) /\ Cardinality(t) \in Nat /\ Cardinality(t) = Cardinality(s) - 1
    BY <1>3, <1>4, FS_RemoveElement, FS_CardinalityType
  <2>2. \A q \in t : f[q] \in Nat /\ w[q] \in Nat
    BY <1>3
  <2> HIDE DEF Wrong
  <2>3. Total(f, s) = f[r] + Total(f, s \ {r}) /\ Total(w, s) = w[r] + Total(w, s \ {r})
    BY <1>3, <1>4, TotalOf
  <2> HIDE DEF t
  <2>4. Total(f, t) \in Nat /\ Total(w, t) \in Nat
    BY <2>1, <2>2, TotalOf
  <2> QED
    BY <1>3, <2>1, <2>3, <2>4 DEF t
<1>6. Right(t)
  BY <1>2, <1>4
<1>7. f[r] \in Nat /\ w[r] \in Nat /\ scale * f[r] <= total * w[r] /\ total * w[r] <= scale * f[r] + scale - 1
  <2>1. f[r] = (total * w[r]) \div scale /\ w[r] \in Nat /\ total * w[r] \in Nat
    BY <1>2, <1>4
  <2> DEFINE a == total * w[r]
  <2>2. a \in Nat /\ f[r] = a \div scale /\ w[r] \in Nat
    BY <2>1
  <2> HIDE DEF a
  <2>3. f[r] \in Nat /\ w[r] \in Nat /\ scale * f[r] <= a /\ a <= scale * f[r] + scale - 1
    BY <2>2, DivBounds
  <2> QED
    BY <2>3 DEF a
<1> HIDE DEF t
<1>8. /\ scale * (f[r] + Total(f, t)) = scale * f[r] + scale * Total(f, t)
      /\ total * (w[r] + Total(w, t)) = total * w[r] + total * Total(w, t)
      /\ (Cardinality(t) + 1) * (scale - 1) = Cardinality(t) * (scale - 1) + scale - 1
  <2>1. \A a, b, c \in Int : a * (b + c) = a * b + a * c
    OBVIOUS
  <2>2. \A a, b \in Int : (a + 1) * b = a * b + b
    OBVIOUS
  <2>3. f[r] \in Int /\ w[r] \in Int /\ scale \in Int /\ total \in Int /\ scale - 1 \in Int
    BY <1>7
  <2>4. Total(f, t) \in Int /\ Total(w, t) \in Int /\ Cardinality(t) \in Int
    BY <1>5
  <2> HIDE DEF Wrong, Right
  <2>5. (Cardinality(t) + 1) * (scale - 1) = Cardinality(t) * (scale - 1) + (scale - 1)
    BY <2>2, <2>3, <2>4
  <2>6. Cardinality(t) * (scale - 1) \in Int
    BY <2>3, <2>4
  <2> QED
    BY <2>1, <2>3, <2>4, <2>5, <2>6
<1>9. /\ scale * f[r] \in Nat /\ scale * Total(f, t) \in Nat /\ total * w[r] \in Nat
      /\ total * Total(w, t) \in Nat /\ Cardinality(t) * (scale - 1) \in Nat
  BY <1>5, <1>7
<1>10. Right(s)
  <2> DEFINE a == scale * f[r]
             b == scale * Total(f, t)
             c == total * w[r]
             d == total * Total(w, t)
             e == Cardinality(t) * (scale - 1)
  <2>1. /\ a \in Nat /\ b \in Nat /\ c \in Nat /\ d \in Nat /\ e \in Nat
        /\ a <= c /\ c <= a + scale - 1 /\ b <= d /\ d <= b + e
    BY <1>6, <1>7, <1>9
  <2>2. /\ scale * Total(f, s) = a + b /\ total * Total(w, s) = c + d
        /\ Cardinality(s) * (scale - 1) = e + scale - 1
    BY <1>5, <1>8
  <2> HIDE DEF a, b, c, d, e
  <2>3. a + b <= c + d /\ c + d <= a + b + (e + scale - 1)
    BY <2>1
  <2> QED
    BY <2>2, <2>3
<1> QED
  BY <1>2, <1>10

\* A finite set of accounts has one that the host's order of keys puts last.
LEMMA LastExists ==
    ASSUME RoyaltyAssumption, NEW S \in SUBSET Address, S # {}
    PROVE  /\ LastOf(S) \in S
           /\ \A q \in S : q # LastOf(S) => KeyRank[q] < KeyRank[LastOf(S)]
<1> DEFINE HasLast(s) == \E r \in s : \A q \in s : KeyRank[q] <= KeyRank[r]
           Wrong == {s \in SUBSET S : s # {} /\ ~HasLast(s)}
<1>1. \A a \in Address : KeyRank[a] \in Nat
  BY DEF RoyaltyAssumption
<1>2. HasLast(S)
  <2> SUFFICES ASSUME Wrong # {} PROVE FALSE
    OBVIOUS
  <2>0. Wrong \subseteq SUBSET S /\ IsFiniteSet(S)
    BY FS_Subset DEF RoyaltyAssumption
  <2> HIDE DEF Wrong
  <2>1. PICK s \in Wrong : \A t \in SUBSET s : t # s => t \notin Wrong
    BY <2>0, SmallestSet
  <2> USE DEF Wrong
  <2>2. PICK x : x \in s
    BY <2>1
  <2>3. CASE s = {x}
    BY <1>1, <2>1, <2>2, <2>3
  <2>4. CASE s # {x}
    <3>1. HasLast(s \ {x})
      <4>1. s \ {x} # {} /\ s \ {x} # s /\ s \ {x} \in SUBSET s /\ s \in SUBSET S
        BY <2>1, <2>2, <2>4
      <4>2. s \ {x} \notin Wrong
        BY <2>1, <4>1
      <4> QED
        BY <4>1, <4>2
    <3>2. PICK r \in s \ {x} : \A q \in s \ {x} : KeyRank[q] <= KeyRank[r]
      BY <3>1
    <3>3. KeyRank[x] \in Nat /\ \A q \in s : KeyRank[q] \in Nat
      BY <1>1, <2>1, <2>2
    <3>4. HasLast(s)
      <4>1. CASE KeyRank[x] <= KeyRank[r]
        BY <3>2, <4>1
      <4>2. CASE ~(KeyRank[x] <= KeyRank[r])
        <5>1. \A q \in s : KeyRank[q] <= KeyRank[x]
          BY <3>2, <3>3, <4>2
        <5> QED
          BY <2>2, <5>1
      <4> QED
        BY <4>1, <4>2
    <3> QED
      BY <2>1, <3>4
  <2> QED
    BY <2>3, <2>4
<1>3. /\ LastOf(S) \in S
      /\ \A q \in S : KeyRank[q] <= KeyRank[LastOf(S)]
  BY <1>2 DEF LastOf
<1>4. \A a, b \in Address : KeyRank[a] = KeyRank[b] => a = b
  BY DEF RoyaltyAssumption
<1> QED
  BY <1>1, <1>3, <1>4

(***************************************************************************)
(* A quote                                                                 *)
(***************************************************************************)
\* The floors of the shares, as a function of the recipients.
Floors(k, total) == [q \in DOMAIN config[k].recipients |-> FloorShare(k, total, q)]

\* What is owed to the recipients of a split that promises the whole of it.
SplitOf(k, total) ==
    [r \in DOMAIN config[k].recipients |->
        IF r = LastOf(DOMAIN config[k].recipients) THEN LastShare(k, total, r)
                                                   ELSE FloorShare(k, total, r)]

\* owed settles a total among the recipients of split exactly.
Exactly(owed, split, total) ==
    /\ \A r \in DOMAIN split :
          /\ owed[r] \in Nat
          /\ owed[r] >= (total * split[r]) \div TotalShare
          /\ owed[r] < (total * split[r]) \div TotalShare + Cardinality(DOMAIN split)
          /\ split[r] <= TotalShare
    /\ Total(owed, DOMAIN split) = total

\* Floors for all but the last, who takes what they leave, settle the total.
LEMMA SplitIsExact ==
    ASSUME RoyaltyAssumption, NEW k \in Configured, config[k].recipients \in Splits,
           NEW total \in Nat,
           DOMAIN config[k].recipients # {},
           Total(config[k].recipients, DOMAIN config[k].recipients) = TotalShare
    PROVE  Exactly(SplitOf(k, total), config[k].recipients, total)
<1> DEFINE split == config[k].recipients
           S == DOMAIN split
           f == Floors(k, total)
           owed == SplitOf(k, total)
           last == LastOf(S)
<1>1. /\ S \subseteq Address /\ IsFiniteSet(S) /\ \A r \in S : split[r] \in Nat
      /\ TotalShare \in Nat \ {0}
  BY DEF RoyaltyAssumption
<1>2. last \in S
  BY <1>1, LastExists
<1>3. \A r \in S : f[r] = (total * split[r]) \div TotalShare
  BY DEF Floors, FloorShare
<1>4. /\ \A r \in S : owed[r] = IF r = last THEN total - Total(f, S \ {r}) ELSE f[r]
      /\ DOMAIN owed = S
  BY DEF SplitOf, LastShare, Floors
<1> HIDE DEF f, owed, last
<1>5. /\ \A r \in S : f[r] \in Nat
      /\ Total(f, S) \in Nat
      /\ TotalShare * Total(f, S) <= total * TotalShare
      /\ total * TotalShare <= TotalShare * Total(f, S) + Cardinality(S) * (TotalShare - 1)
  BY <1>1, <1>3, FloorsOf
<1>6. Cardinality(S) \in Nat \ {0}
  BY <1>1, FS_CardinalityType, FS_EmptySet
<1>7. Total(f, S) <= total /\ total < Total(f, S) + Cardinality(S)
  <2>1. \A a, b \in Nat : \A c \in Nat \ {0} : c * a <= b * c => a <= b
    OBVIOUS
  <2>2. ASSUME NEW a \in Nat, NEW b \in Nat, NEW n \in Nat \ {0}, NEW c \in Nat \ {0},
               b * c <= c * a + n * (c - 1)
        PROVE  b < a + n
    <3>1. c * a + n * (c - 1) < c * (a + n)
      <4>1. c * (a + n) = c * a + n * c /\ n * (c - 1) = n * c - n
        OBVIOUS
      <4>2. c * a \in Nat /\ n * c \in Nat
        OBVIOUS
      <4> QED
        BY <4>1, <4>2
    <3>2. b * c \in Nat /\ b * c < c * (a + n)
      BY <2>2, <3>1
    <3>3. ASSUME a + n <= b PROVE FALSE
      <4>1. c * (a + n) <= b * c
        BY <3>3
      <4> QED
        BY <3>2, <4>1
    <3> QED
      BY <3>3
  <2> QED
    BY <1>1, <1>5, <1>6, <2>1, <2>2
<1>8. Total(f, S) = f[last] + Total(f, S \ {last}) /\ Total(f, S \ {last}) \in Nat
  BY <1>1, <1>2, <1>5, TotalOf, FS_Subset
<1>9. \A r \in S : owed[r] \in Nat /\ owed[r] >= f[r] /\ owed[r] < f[r] + Cardinality(S)
  <2> TAKE r \in S
  <2>1. CASE r = last
    <3>1. owed[r] = total - Total(f, S \ {last}) /\ f[last] \in Nat
      BY <1>2, <1>4, <1>5, <2>1
    <3> QED
      BY <1>5, <1>6, <1>7, <1>8, <2>1, <3>1
  <2>2. CASE r # last
    <3>1. owed[r] = f[r] /\ f[r] \in Nat
      BY <1>4, <1>5, <2>2
    <3> QED
      BY <1>6, <3>1
  <2> QED
    BY <2>1, <2>2
<1>10. Total(owed, S) = total
  <2>1. Total(owed, S) = owed[last] + Total(owed, S \ {last})
    BY <1>1, <1>2, <1>9, TotalOf
  <2>2. IsFiniteSet(S \ {last}) /\ \A r \in S \ {last} : owed[r] = f[r] /\ owed[r] \in Nat
    BY <1>1, <1>4, <1>9, FS_Subset
  <2>3. Total(owed, S \ {last}) = Total(f, S \ {last})
    BY <2>2, TotalSame
  <2>4. owed[last] = total - Total(f, S \ {last})
    BY <1>2, <1>4
  <2> QED
    BY <1>8, <2>1, <2>3, <2>4
<1>11. \A r \in S : split[r] <= TotalShare
  <2> TAKE r \in S
  <2>1. IsFiniteSet(S \ {r}) /\ \A q \in S \ {r} : split[q] \in Nat
    BY <1>1, FS_Subset
  <2>2. Total(split, S \ {r}) \in Nat
    BY <2>1, TotalOf
  <2>3. Total(split, S) = split[r] + Total(split, S \ {r})
    BY <1>1, TotalOf
  <2> QED
    BY <1>1, <2>2, <2>3
<1> QED
  BY <1>3, <1>9, <1>10, <1>11 DEF Exactly, owed

\* owed settles total among accounts, and price pays for it under the terms of k.
Quoted(owed, k, price) ==
    LET total == RoyaltyOf(k, price)
        split == config[k].recipients
    IN /\ total \in 0 .. price
       /\ DOMAIN owed \subseteq Address
       /\ \A r \in DOMAIN owed : owed[r] \in Nat
       /\ Total(owed, DOMAIN owed) = total
       /\ \A r \in DOMAIN owed \cap DOMAIN split :
             /\ total * split[r] <= MaxInt
             /\ owed[r] >= (total * split[r]) \div TotalShare
             /\ owed[r] < (total * split[r]) \div TotalShare + Cardinality(DOMAIN split)

\* quote_royalty, with and without a split.
LEMMA QuoteIsExact ==
    ASSUME RoyaltyAssumption, TermsInv, NEW k \in Configured, NEW price \in Nat,
           PriceInRange(k, price)
    PROVE  Quoted(QuoteRoyalty(k, price), k, price)
<1> DEFINE total == RoyaltyOf(k, price)
           split == config[k].recipients
           S == DOMAIN split
           owed == QuoteRoyalty(k, price)
           bp == config[k].basis_points
<1>1. /\ config[k].creator \in Address /\ split \in Splits /\ bp \in Nat /\ bp <= MaxBasisPoints
      /\ S # {} => Total(split, S) = TotalShare
  BY DEF TermsInv, Terms, RoyaltyConfig, ValidateBasisPoints, ValidateRecipients,
         RoyaltyAssumption
<1>2. /\ MaxBasisPoints \in Nat \ {0} /\ TotalShare \in Nat \ {0} /\ TotalShare <= MaxBasisPoints
      /\ MaxInt \in Nat /\ S \subseteq Address /\ \A r \in S : split[r] \in Nat
  BY <1>1 DEF RoyaltyAssumption
<1>3. total \in Nat /\ total <= price /\ MaxBasisPoints * total <= price * bp
  <2>1. price * bp \in Nat
    BY <1>1
  <2>2. total = (price * bp) \div MaxBasisPoints
    BY DEF RoyaltyOf
  <2> HIDE DEF total, bp
  <2>3. total \in 0 .. price
    BY <1>1, <1>2, <2>2, PartOf
  <2>4. MaxBasisPoints * total <= price * bp
    BY <1>2, <2>1, <2>2, DivBounds
  <2> QED
    BY <2>3, <2>4
<1> HIDE DEF total
<1>4. ASSUME NEW n \in Nat, n <= TotalShare PROVE total * n <= MaxInt
  <2>1. n <= MaxBasisPoints /\ price * bp <= MaxInt
    BY <1>2, <1>4 DEF PriceInRange
  <2>2. total * n <= MaxBasisPoints * total
    BY <1>2, <1>3, <2>1
  <2>3. total * n \in Nat /\ MaxBasisPoints * total \in Nat /\ price * bp \in Nat
    BY <1>1, <1>2, <1>3
  <2> QED
    BY <1>2, <1>3, <2>1, <2>2, <2>3
<1>5. CASE total = 0
  <2>1. owed = NoEntries
    BY <1>5 DEF QuoteRoyalty, total
  <2>2. DOMAIN owed = {}
    BY <2>1 DEF NoEntries
  <2>3. Total(owed, DOMAIN owed) = 0
    BY <2>2, TotalEmpty
  <2> HIDE DEF owed
  <2> QED
    BY <1>3, <1>5, <2>2, <2>3 DEF Quoted, total, owed
<1>6. CASE total > 0 /\ S = {}
  <2>1. owed = Put(NoEntries, config[k].creator, total)
    BY <1>6 DEF QuoteRoyalty, total
  <2>2. DOMAIN owed = {config[k].creator} /\ owed[config[k].creator] = total
    BY <2>1 DEF Put, NoEntries
  <2> HIDE DEF owed
  <2>3. IsFiniteSet(DOMAIN owed) /\ DOMAIN owed \ {config[k].creator} = {}
    BY <2>2, FS_Singleton
  <2>4. Total(owed, DOMAIN owed) = total + 0
    <3>1. Total(owed, DOMAIN owed) = total + Total(owed, DOMAIN owed \ {config[k].creator})
      BY <1>3, <2>2, <2>3, TotalOf
    <3> QED
      BY <2>3, <3>1, TotalEmpty
  <2> QED
    BY <1>1, <1>3, <1>6, <2>2, <2>4 DEF Quoted, total, owed
<1>7. CASE total > 0 /\ S # {}
  <2>1. owed = SplitOf(k, total)
    BY <1>7 DEF QuoteRoyalty, SplitOf, total
  <2>2. DOMAIN owed = S
    BY <2>1 DEF SplitOf
  <2>3. Exactly(owed, split, total)
    BY <1>1, <1>3, <1>7, <2>1, SplitIsExact
  <2> HIDE DEF owed
  <2>4. \A r \in S : total * split[r] <= MaxInt
    BY <1>2, <1>4, <2>3 DEF Exactly
  <2> HIDE DEF split
  <2> QED
    BY <1>2, <1>3, <2>2, <2>3, <2>4 DEF Quoted, Exactly, total, owed, split
<1> QED
  BY <1>3, <1>5, <1>6, <1>7

(***************************************************************************)
(* A settlement                                                            *)
(***************************************************************************)
\* Every account has a balance of every asset, and none is negative.
BalancesOK ==
    /\ DOMAIN balance = Asset \X Address
    /\ \A x \in Asset \X Address : balance[x] \in Nat

\* One step of SettlementConserves.
Conserved ==
    balance' # balance =>
          /\ Configured # {}
          /\ \A a \in Asset : Total(Holds(balance', a), Address) = Total(Holds(balance, a), Address)
          /\ \A x \in DOMAIN balance : balance'[x] < balance[x] => x[2] \in auth'

\* The transfers of a quote: the payer has what they take from him.
LEMMA OutlayCovered ==
    ASSUME RoyaltyAssumption, BalancesOK, NEW owed, NEW asset \in Asset, NEW payer \in Address,
           DOMAIN owed \subseteq Address, \A r \in DOMAIN owed : owed[r] \in Nat,
           Affordable(asset, payer, owed)
    PROVE  /\ Outlay(payer, owed, DOMAIN owed) \in Nat
           /\ Outlay(payer, owed, DOMAIN owed) <= balance[<<asset, payer>>]
<1> DEFINE D == DOMAIN owed
           out == Outlay(payer, owed, D)
           has == balance[<<asset, payer>>]
<1>1. IsFiniteSet(D) /\ IsFiniteSet(D \ {payer}) /\ has \in Nat
  BY FS_Subset DEF RoyaltyAssumption, BalancesOK
<1>2. out \in Nat
  BY <1>1, TotalOf DEF Outlay
<1>3. CASE D = {}
  <2>1. D \ {payer} = {}
    BY <1>3
  <2>2. out = 0
    BY <2>1, TotalEmpty DEF Outlay
  <2> QED
    BY <1>1, <2>2
<1>4. CASE D # {}
  <2> DEFINE last == LastOf(D)
  <2>1. last \in D /\ \A q \in D : q # last => KeyRank[q] < KeyRank[last]
    BY <1>4, LastExists
  <2>2. \A q \in D : KeyRank[q] \in Nat
    BY DEF RoyaltyAssumption
  <2>3. {q \in D : KeyRank[q] < KeyRank[last]} = D \ {last}
    BY <2>1, <2>2
  <2> HIDE DEF last
  <2>4. Outlay(payer, owed, D \ {last}) + owed[last] <= has
    BY <2>1, <2>3 DEF Affordable
  <2>5. Total(owed, (D \ {last}) \ {payer}) + owed[last] <= has
    BY <2>4 DEF Outlay
  <2>6. IsFiniteSet((D \ {last}) \ {payer}) /\ \A q \in (D \ {last}) \ {payer} : owed[q] \in Nat
    BY <1>1, FS_Subset
  <2>7. Total(owed, (D \ {last}) \ {payer}) \in Nat /\ owed[last] \in Nat
    BY <2>1, <2>6, TotalOf
  <2>8. CASE last = payer
    <3>1. (D \ {last}) \ {payer} = D \ {payer}
      BY <2>8
    <3>2. Total(owed, D \ {payer}) + owed[last] <= has /\ Total(owed, D \ {payer}) \in Nat
      BY <2>5, <2>7, <3>1
    <3>3. out = Total(owed, D \ {payer})
      BY DEF Outlay
    <3> QED
      BY <1>1, <2>7, <3>2, <3>3
  <2>9. CASE last # payer
    <3>1. last \in D \ {payer} /\ (D \ {payer}) \ {last} = (D \ {last}) \ {payer}
      BY <2>1, <2>9
    <3>2. Total(owed, D \ {payer}) = owed[last] + Total(owed, (D \ {payer}) \ {last})
      BY <1>1, <3>1, TotalOf
    <3> DEFINE rest == Total(owed, (D \ {last}) \ {payer})
    <3>3. out = owed[last] + rest
      BY <3>1, <3>2 DEF Outlay
    <3> HIDE DEF rest, out
    <3>4. out <= has
      BY <1>1, <2>5, <2>7, <3>3 DEF rest
    <3> QED
      BY <1>2, <3>4 DEF out
  <2> QED
    BY <2>8, <2>9
<1> QED
  BY <1>2, <1>3, <1>4

\* Settling creates and destroys nothing, and takes from the payer alone.
LEMMA SettleConserves ==
    ASSUME RoyaltyAssumption, BalancesOK, NEW owed, NEW asset \in Asset, NEW payer \in Address,
           DOMAIN owed \subseteq Address, \A r \in DOMAIN owed : owed[r] \in Nat,
           Affordable(asset, payer, owed)
    PROVE  LET after == Settle(asset, payer, owed)
           IN /\ DOMAIN after = Asset \X Address
              /\ \A x \in Asset \X Address :
                    after[x] \in Nat /\ (after[x] < balance[x] => x[2] = payer)
              /\ \A a \in Asset : Total(Holds(after, a), Address) = Total(Holds(balance, a), Address)
<1> DEFINE after == Settle(asset, payer, owed)
           D == DOMAIN owed
           out == Outlay(payer, owed, D)
<1>1. out \in Nat /\ out <= balance[<<asset, payer>>]
  BY OutlayCovered
<1>2. IsFiniteSet(Address)
  BY DEF RoyaltyAssumption
<1> HIDE DEF out
<1>3. DOMAIN after = Asset \X Address
  BY DEF Settle, BalancesOK
<1>4. \A a \in Asset, x \in Address :
         after[<<a, x>>] = IF a # asset THEN balance[<<a, x>>]
                           ELSE IF x = payer THEN balance[<<a, x>>] - out
                           ELSE balance[<<a, x>>] + GetOr(owed, x, 0)
  BY DEF Settle, BalancesOK, out
<1> HIDE DEF after
<1>5. \A x \in Address : GetOr(owed, x, 0) \in Nat
  BY DEF GetOr
<1>6. \A a \in Asset, x \in Address : balance[<<a, x>>] \in Nat
  BY DEF BalancesOK
<1>7. \A a \in Asset, x \in Address :
          /\ after[<<a, x>>] \in Nat
          /\ after[<<a, x>>] < balance[<<a, x>>] => x = payer
  <2> TAKE a \in Asset, x \in Address
  <2>1. balance[<<a, x>>] \in Nat /\ GetOr(owed, x, 0) \in Nat
    BY <1>5, <1>6
  <2>2. CASE a # asset
    BY <1>4, <2>1, <2>2
  <2>3. CASE a = asset /\ x = payer
    BY <1>1, <1>4, <2>1, <2>3
  <2>4. CASE a = asset /\ x # payer
    <3>1. after[<<a, x>>] = balance[<<a, x>>] + GetOr(owed, x, 0)
      BY <1>4, <2>4
    <3> QED
      BY <2>1, <3>1
  <2> QED
    BY <2>2, <2>3, <2>4
<1>8. \A a \in Asset : Total(Holds(after, a), Address) = Total(Holds(balance, a), Address)
  <2> TAKE a \in Asset
  <2> DEFINE b == Holds(balance, a)
             c == Holds(after, a)
             pays == [x \in Address |-> GetOr(owed, x, 0)]
             Others == Address \ {payer}
  <2>1. \A x \in Address : b[x] = balance[<<a, x>>] /\ c[x] = after[<<a, x>>] /\ pays[x] = GetOr(owed, x, 0)
    BY DEF Holds
  <2> HIDE DEF b, c, pays
  <2>2. \A x \in Address : b[x] \in Nat /\ c[x] \in Nat /\ pays[x] \in Nat
    BY <1>5, <1>6, <1>7, <2>1
  <2>3. CASE a # asset
    <3>1. \A x \in Address : c[x] = b[x] /\ c[x] \in Nat
      BY <1>4, <2>1, <2>2, <2>3
    <3>2. Total(c, Address) = Total(b, Address)
      BY <1>2, <3>1, TotalSame
    <3> QED
      BY <3>2 DEF b, c
  <2>4. CASE a = asset
    <3>1. IsFiniteSet(Others) /\ \A x \in Others : c[x] = b[x] + pays[x]
      BY <1>2, <1>4, <2>1, <2>4, FS_Subset
    <3>2. Total(c, Others) = Total(b, Others) + Total(pays, Others)
      BY <2>2, <3>1, TotalPlus
    <3>3. Total(pays, Others) = out
      <4>1. /\ D \ {payer} \in SUBSET Others /\ \A x \in Others \ (D \ {payer}) : pays[x] = 0
            /\ \A x \in D \ {payer} : pays[x] = owed[x]
        BY <2>1 DEF GetOr
      <4>2. Total(pays, Others) = Total(pays, D \ {payer})
        BY <2>2, <3>1, <4>1, TotalSupport
      <4>3. Total(pays, D \ {payer}) = Total(owed, D \ {payer})
        <5>1. IsFiniteSet(D \ {payer}) /\ \A x \in D \ {payer} : pays[x] \in Nat
          BY <1>2, <2>2, FS_Subset
        <5> QED
          BY <4>1, <5>1, TotalSame
      <4> QED
        BY <4>2, <4>3 DEF out, Outlay
    <3>4. c[payer] = b[payer] - out
      BY <1>4, <2>1, <2>4
    <3>5. /\ Total(c, Address) = c[payer] + Total(c, Others)
          /\ Total(b, Address) = b[payer] + Total(b, Others)
          /\ Total(b, Others) \in Nat
      BY <1>2, <2>2, <3>1, TotalOf
    <3>6. Total(c, Address) = Total(b, Address)
      BY <1>1, <2>2, <3>2, <3>3, <3>4, <3>5
    <3> QED
      BY <3>6 DEF b, c
  <2> QED
    BY <2>3, <2>4
<1> QED
  BY <1>3, <1>7, <1>8 DEF after

\* The invariant of the contract.
RoyaltyInv == TermsInv /\ BalancesOK

\* pay_royalty settles what it quotes.
LEMMA PayStep ==
    ASSUME RoyaltyAssumption, RoyaltyInv, NEW k \in Key, NEW asset \in Asset, NEW payer \in Address,
           NEW price \in Price, PayRoyalty(k, asset, payer, price)
    PROVE  BalancesOK' /\ Conserved
<1> DEFINE owed == QuoteRoyalty(k, price)
           after == Settle(asset, payer, owed)
<1>1. /\ k \in Configured /\ price \in Nat /\ PriceInRange(k, price)
      /\ Affordable(asset, payer, owed) /\ balance' = after /\ auth' = {payer}
  BY DEF PayRoyalty, Authorized, RoyaltyAssumption
<1>2. Quoted(owed, k, price)
  BY <1>1, QuoteIsExact DEF RoyaltyInv
<1>3. DOMAIN owed \subseteq Address /\ \A r \in DOMAIN owed : owed[r] \in Nat
  BY <1>2 DEF Quoted
<1> HIDE DEF owed
<1>4. /\ DOMAIN after = Asset \X Address
      /\ \A x \in Asset \X Address :
            after[x] \in Nat /\ (after[x] < balance[x] => x[2] = payer)
      /\ \A a \in Asset : Total(Holds(after, a), Address) = Total(Holds(balance, a), Address)
  BY <1>1, <1>3, SettleConserves DEF RoyaltyInv
<1> HIDE DEF after
<1>5. BalancesOK'
  BY <1>1, <1>4 DEF BalancesOK
<1>6. Conserved
  BY <1>1, <1>4 DEF Conserved, RoyaltyInv, BalancesOK
<1> QED
  BY <1>5, <1>6

\* No call but a settlement touches a balance.
LEMMA NextRoyalty ==
    ASSUME RoyaltyAssumption, RoyaltyInv, [Next]_vars
    PROVE  RoyaltyInv' /\ Conserved
<1>1. TermsInv'
  BY NextTerms DEF RoyaltyInv
<1>2. CASE \E k \in Key, asset \in Asset, payer \in Address, price \in Price :
               PayRoyalty(k, asset, payer, price)
  BY <1>1, <1>2, PayStep DEF RoyaltyInv
<1>3. CASE balance' = balance
  BY <1>1, <1>3 DEF RoyaltyInv, BalancesOK, Conserved
<1>4. UNCHANGED vars => balance' = balance
  BY DEF vars, royaltyVars
<1> QED
  BY <1>2, <1>3, <1>4
     DEF Next, ConfigureRoyalty, AddConfig, UpdateRoyalty, RemoveRoyalty, FreezeRoyalty,
         SetRoyaltyAdmin, UpgradeRoyaltyCode, MigrateRoyalty, royaltyVars

\* It holds at first.
LEMMA InitRoyalty == ASSUME RoyaltyAssumption, Init PROVE RoyaltyInv
<1>1. BalancesOK
  BY DEF Init, BalancesOK, RoyaltyAssumption
<1> QED
  BY <1>1, InitTerms DEF RoyaltyInv

\* Under it every quote is exact.
LEMMA QuotesExact == ASSUME RoyaltyAssumption, RoyaltyInv PROVE QuoteExact
<1>1. TypeOK
  <2>1. ASSUME NEW k \in Configured
        PROVE  /\ config[k] \in RoyaltyConfig
               /\ config[k].basis_points <= MaxBasisPoints
               /\ DOMAIN config[k].recipients # {} =>
                     Total(config[k].recipients, DOMAIN config[k].recipients) = TotalShare
    BY DEF RoyaltyInv, TermsInv, Terms, ValidateBasisPoints, ValidateRecipients
  <2> QED
    BY <2>1 DEF TypeOK, RoyaltyInv, TermsInv, BalancesOK
<1>2. ASSUME NEW k \in Configured, NEW price \in Price, PriceInRange(k, price)
      PROVE  Quoted(QuoteRoyalty(k, price), k, price)
  BY <1>2, QuoteIsExact DEF RoyaltyInv, RoyaltyAssumption
<1> QED
  BY <1>1, <1>2 DEF QuoteExact, Quoted, RoyaltyOf

(***************************************************************************)
(* Theorems                                                                *)
(***************************************************************************)
\* The Royalty contract: stored terms are typed, within MAX_BASIS_POINTS, and split in a way
\* that validate_recipients accepts, through both paths that write them.
THEOREM TermsInvariant == Spec => []TermsInv
<1>1. TermsInv /\ [Next]_vars => TermsInv'
  BY NextTerms
<1> QED
  BY InitTerms, <1>1, PTL DEF Spec

\* Terms once frozen are never amended, replaced, removed or thawed, by whatever sequence of
\* configure, update, remove and freeze calls.
THEOREM FrozenTermsStay == Spec => FrozenIsFinal
<1>1. TermsInv /\ [Next]_vars => [FrozenStays]_vars
  BY NextTerms
<1> QED
  BY <1>1, TermsInvariant, PTL DEF Spec, FrozenIsFinal, FrozenStays

\* Terms appear and disappear by the stored admin's authorization, and are amended by his or
\* their recorded creator's, who never changes while they live.
THEOREM TermsChangeByConsent == Spec => TermsNeedConsent
<1>1. TermsInv /\ [Next]_vars => [TermsConsented]_vars
  BY NextTerms
<1> QED
  BY <1>1, TermsInvariant, PTL DEF Spec, TermsNeedConsent, TermsConsented

\* quote_royalty, for every rate, split, price and number of recipients that the checks of
\* configure_royalty and update_royalty accept: the amounts add up to the royalty to the last
\* unit, none is negative or off by a unit per recipient, and no product overflows.
THEOREM QuotesAreExact == ASSUME RoyaltyAssumption PROVE Spec => []QuoteExact
<1>1. RoyaltyInv /\ [Next]_vars => RoyaltyInv'
  BY NextRoyalty
<1>2. Init => RoyaltyInv
  BY InitRoyalty
<1>3. RoyaltyInv => QuoteExact
  BY QuotesExact
<1> QED
  BY <1>1, <1>2, <1>3, PTL DEF Spec

\* pay_royalty, for any number of accounts and recipients, the payer among them or not: what
\* the payer loses the recipients get, and nobody else loses anything.
THEOREM SettlementsConserve == ASSUME RoyaltyAssumption PROVE Spec => SettlementConserves
<1>1. RoyaltyInv /\ [Next]_vars => RoyaltyInv' /\ [Conserved]_vars
  BY NextRoyalty
<1>2. Init => RoyaltyInv
  BY InitRoyalty
<1>3. Spec => [][Conserved]_vars
  BY <1>1, <1>2, PTL DEF Spec
<1> QED
  BY <1>3 DEF Conserved, SettlementConserves
=============================================================================
